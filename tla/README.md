# Tundra-NAT64: specifications, model checking and proofs

Tundra is a user-space, stateless IPv4/IPv6 translator (NAT64, CLAT, SIIT, or
with an external address translation server). This directory holds TLA+
specifications of it, the TLC configurations that check them, and proofs for
TLAPS. Paths below are relative to the repository (`src/` is its root, the C
files are in `src/src/`).

## 1. The system

One process. The **main thread** reads the configuration, perhaps discovers the
NAT64 prefix in DNS, opens the descriptors, starts N **translator threads**,
watches them, and on a signal stops and joins them. Translator threads share
nothing that they write, apart from the log mutex, the process's table of
descriptors and, on a single-queue TUN, the descriptor itself: each has its own
packet buffer, fragment identifiers and, in the `external` addressing mode, its own
connection to the server and its own caches. A translator thread is a loop: read a
packet, translate it, write zero or more packets.

| component | state | operations | interacts with | what is hard | what makes it correct |
|---|---|---|---|---|---|
| Process and threads: `init.c`, `opmode_translate.c`, `xlat.c`, `xlat_interrupt.c`, `signals.c` | thread contexts, `joined`, a thread-local flag per thread | start, monitor, terminate, free; interruptible read/write/writev/connect/close; signal handler | signals, `pthread_tryjoin_np`, `pthread_kill`, log mutex | signals lost between check and system call, EINTR, foreign signals, crash of one thread | no use of freed contexts, no second join, only the main thread stops threads, a signalled process ends, a crashed thread ends the process |
| Prefix discovery: `conf_rfc7050.c` | none | ask DNS, sleep, again | runs before the threads, after the signal handlers are installed | never ends without DNS | a signalled process ends |
| Log: `log.c` | output mutex | print, crash process, crash thread | every component | held by a thread while others need it | nobody waits for ever |
| Descriptors: `init_io.c`, `opmode_translate.c`, `xlat_addr_external.c` | the process's descriptor table; numbers kept per thread | open, connect, close, forget, free at the end | threads share the table; the kernel gives a closed number to the next who opens | a number kept too long, a thread stopped between closing and forgetting, a socket whose connection failed | a running thread touches only its own; nothing leaks; closing everything does not crash |
| IPv4 to IPv6: `xlat_4to6.c`, `xlat_io.c`, `router_ipv4.c` | packet on the stack | validate, translate, send whole, fragment, bounce | addressing, ICMP translation | offsets, alignment, MTU arithmetic | fragments reassemble, the reported MTU suffices |
| IPv6 to IPv4: `xlat_6to4.c`, `xlat_io.c`, `router_ipv6.c` | packet on the stack | as above, with the 1260-byte rule | addressing, ICMP translation | as above; MTUs down to 96 bytes | as above |
| Extension headers and options: `xlat_6to4.c`, `xlat_6to4_icmp.c`, `xlat_4to6.c` | a pointer and a signed rest | walk | the two above | sizes that the packet gives, written twice, quotes without an end | nothing is read outside; both walks find the same; they end |
| ICMP: `xlat_4to6_icmp.c`, `xlat_6to4_icmp.c` | none | translate types, codes, MTUs, pointers, packets in error | 4to6/6to4, addressing; other translators on the path | MTU recalculation in 16 bits, truncation, tables written apart | an error means the same to its receiver; path MTU discovery ends |
| Built-in addressing: `xlat_addr_nat64.c`, `_clat.c`, `_siit.c`, `utils_xlat_addr.c`, `utils_ip.c` | none | map a pair of addresses, of a packet or of a quoted packet | 4to6/6to4; other translators on the path | checks that differ by mode, direction and quoting | answers return to their sender, errors name its packet |
| Checksums: `checksum.c` | none | compute, adapt, verify | 4to6/6to4, ICMP | carries, two zeros, odd sizes, two parts, byte order | intact datagrams stay right, damage stays visible |
| External addressing, transport: `xlat_addr_external.c` | descriptors, message identifier | connect, send request, receive and parse response, close | server (another process) | partial reads and writes, timeouts, late, repeated or wrong answers | an answer is used for its own lookup only; every lookup ends |
| External addressing, cache: `xlat_addr_external.c` | four hash-indexed arrays per thread | look up, save | transport, clock | collisions, expiration, replaced answers | a hit is what the server last said and still allows |
| Fragment identifiers: `utils_ip.c` | two counters per thread | next identifier | 4to6/6to4 | threads that count apart | not modelled (section 6) |
| Configuration: `conf_*.c`; one-shot modes: `opmode_mktun.c`, `opmode_rmtun.c`, `opmode_validate_config.c`; helpers: `utils.c` | configuration | parse, open, crash on error | all | sequential | not modelled (section 6) |

## 2. Modules

| module | models | how its state corresponds to the code |
|---|---|---|
| `TranslatorThreads` | process and threads, prefix discovery, log mutex | `main` and `worker[i]` are program counters of the main and translator threads, `next` is the loop variable `i`, `running` is `are_there_running_threads`, `mainFlag`/`flag[i]` are the thread-local `_term_signal_caught_in_thread`, `pending[i]` is the kernel's pending signal, `joined[i]` is `thread_ctx.joined`, `reaped[i]` is what the kernel knows of joins, `logLock` is `_log_output_mutex` |
| `Descriptors` | the process's descriptors over a thread's life | `open[fd]` is the kernel's table, `readFd`/`writeFd` are the fields of `external_addr_xlat_state`, `socketFd` the local variable of `_open_socket()` functions, `pc[i]` where a thread is in closing, forgetting, opening and connecting, `setup` how the TUN queues and inherited descriptors are shared |
| `SendIPv6` | `_appropriately_send_ipv6_packet()` and what it calls | `left`, `rest`, `offset`, `part` are the variables of the fragmentation loops; `out` is what was written; `reported` the MTU in the ICMP error |
| `SendIPv4` | `_appropriately_send_ipv4_packet()` and what it calls | the same, with translated ICMP error messages |
| `HeaderWalks` | the three walks along headers | `at` is the pointer, `left` the signed rest, `header` the current number, `fragment` what has been found; `reach` (history) is the end of what was read, `whole` (history) what the walk along the whole packet found, when the quote is known to be of a packet let through |
| `IcmpTranslation` | the translation of ICMP messages; stateless operators | a message is `[type, code, rest, quoted]`; a translation gives a set, empty if the message is dropped |
| `IcmpErrors` | a message through one and two translators | `message` is what travels, `origin` (history) what arose |
| `PathMtu` | path MTU discovery on a path of translators and links; composes `IcmpTranslation` with the size decisions of `xlat_4to6.c` and `xlat_6to4.c` | `packet` is on its way out, `reports` on their way back (each knows the hop it is from), `pmtu` is the host's belief, `heeded` (history) the hops whose reports the host has acted upon, and the MTUs |
| `AddressModes` | the built-in mappings and their checks; stateless operators | an IPv4 address is four bytes, an IPv6 address 96 bits and four bytes; a translation gives a set, empty if the addresses are refused |
| `Conversations` | requests, answers, errors on a chain of translators; uses `AddressModes` | `packet` travels; `trail` and `earlier` (history) are the addresses requests had at each place |
| `Checksums` | `checksum.c`; recursive functions over sequences of bytes | sums of 16-bit words in 32 bits, with bytes of `BYTE` values |
| `Integrity` | datagrams that may be damaged between translators; uses `Checksums` | `datagram` travels, `sent` and `damaged` are history |
| `AddressLookup` | what the translation of a packet expects of a lookup (abstract) | a lookup is asked, and translated, unreachable, dropped, or takes its thread down |
| `ExternalTransport` | `_do_external_address_translation()` and what it calls | `phase` is where the thread is, `open` whether `read_fd`/`write_fd` are valid, `identifier` is the counter and `id` the message's, `moved`/`inbox` the progress of the send and receive loops; `up`/`down` are the byte streams; `transport` is the configured one |
| `ExternalCache` | the cache functions and the four public functions around them | `cache[d][k]` are the four arrays; an entry has both pairs and the expiration time |

The modules called `...Proofs` hold the theorems; those called `MC...` hold TLC's
packets, paths, addresses, messages and hash. `PROJECT.json` maps each definition
to its lines. A definition commented "Variation" is a plausible mistake: put in
the place of the definition below it, it makes TLC find a property violated.

### Notes on the translation

* **Threads.** A system call of a translator thread is two steps, check
  (`Guard`) and entry (`EnterCall`), so that a signal handled between them
  is lost as in the code. A standard signal that is already pending is not
  queued again (`PendingAfterKill`). `pthread_kill()` for a thread that has
  ended succeeds (new C libraries) or fails (`KillMayMiss`, old ones); the
  code accepts that race in a comment, and the model counts it as a failed
  call. Signals sent to the process go to the main thread, as Linux prefers; those that
  do reach a translator thread are the same as signals aimed at it
  (`SignalThread`). Before the handlers are installed a signal has its default
  effect; that state is left out. `SIGPIPE` is ignored by the code.
  A thread that calls `log__crash()` gives the mutex back with its message (`Crash`) and
  ends the process afterwards (`Exit`); another crashing thread may hold the mutex at that
  moment. The same is true of the last message of the main thread (`SayGoodbye`) and
  of `log__finalize()` (`FinalizeProgram`).
* **Descriptors.** A thread may be stopped at each system call, as in
  `xlat_interrupt.c`, also between closing a descriptor and setting its variable
  to -1. Errors of reading and writing packets, and the order in which threads
  are started and joined, are `TranslatorThreads`'. The kernel gives
  the lowest free number, to whichever thread opens a socket next.
* **Sizes.** In `SendIPv6`/`SendIPv4` a packet is its sizes, offset, flags and
  protocol class. Header validation is its result: which packets get through
  (`Unsendable` for those that depend on sizes). `FirstPartSize` is the part of
  the payload that the code rewrites into a buffer of its own; the rest is sent
  from the input buffer, and the seam between them is what the loops must
  handle. TTL/hop limit errors are left out.
* **Header walks.** Behind its fixed header an IPv6 packet is a sequence of
  8-byte units and a tail; any unit may be looked at as a header, as a pointer that
  has gone astray would. `left` becomes negative as the `ssize_t` of the code does.
  What an ICMPv6 error quotes is any bytes (`QuoteUnseen`): nothing in the code ties them to a
  packet that a translator has seen, so they may hold forbidden headers, segments left, or
  a reserved byte of a fragment header that the walk takes for a size. `Quote`
  starts the same walk along the beginning of a packet that the first walk has let through;
  `QuoteReadsAlike`, which compares the two walks, speaks of these quotes only.
* **ICMP.** Types, codes and the conversions of pointers and MTUs are the tables of
  the code. A quoted packet is what can be told apart: whether it can be
  translated, how long its headers are, how much is there. What a host reads in a
  message (`Meaning4`, `Meaning6`) is taken from the RFCs and is coarser than
  the codes: RFC 7915 itself merges some of them.
* **Path MTU.** Hosts, links and routers are not the program's; they follow RFC
  1191 and RFC 8201. An IPv4 host sets DF and does not send fragments. Old
  routers (which report no MTU) stand on IPv4 networks behind a translator
  with an IPv6 source: there the code estimates. Reports travel one translator at
  a time, in any order; packets may be lost. That a hop does not refuse packets of the size its own
  report allowed (`ReportHelps`) is said of all hops but old routers, whose estimate
  need not be right.
* **Addressing.** `ConversationsAssumption` says what `conf_file.c` lets
  through: a translator's own addresses differ from its router's, which may lie
  inside its prefix. Unusable and private addresses are those of
  `utils_ip.c`. That an IPv6 address has only its two parts is an assumption
  that TLC's addresses meet; the theorems use it to compare them.
* **Checksums.** With bytes of four values and words of sixteen, carries and the two
  representations of zero are as frequent as they can be. An assumption says that sums
  do not leave the accumulator, as those of at most 65535 bytes do not leave 32 bits.
  Section 4 has the proofs for all sizes and for big-endian machines as well.
  First fragments that end within the TCP header are left out: the code does not adapt
  what is not there.
* **Messages.** A 40-byte message to the server is two chunks (`CHUNKS`), enough for
  "nothing, a part, all". A message remembers, as history, the lookup it was made for;
  no guard looks at it. What a server may answer is split into `ProperResults` and
  `WrongResults`, according to what the client's parser accepts.
* **Cache.** Time has two ticks per second (`TICKS`), so that rounding shows.
  The clock may fail at any reading (`Miss`, `Answer`). The history fields of an
  entry are not read by any guard. A hash is any function into the cache's size.

## 3. Runs

States are distinct states; times are of one run with two workers.

| run | instance | states, time | shows |
|---|---|---|---|
| `threads` | N=2, two foreign signals, all faults, fair | 0.24 M, 25 s | `NoUseAfterFree`, `NoSecondJoin`, `NoSpuriousCrash`, `MutexComesBack`, `SignalledStops`, `CrashedThreadEndsProcess` |
| `threads_unresolved` | N=1, no faults, DNS that need not know the name | 307, 1 s | `SignalledStops` is violated (section 5) |
| `send_ipv6` | IPv6 MTU 1280, 1281, 1500, 65515; IPv4 MTU 96, 1500 | 19 668, 4 s | `Reassembles`, `GivesUpOnlyBeyondDatagram`, `ReportedMtuWorks` |
| `send_ipv4` | IPv4 MTU 96 to 65515; IPv6 MTU 1280, 1500 | 27 412, 3 s | `Reassembles`, `ReportedMtuWorks` |
| `transport` | both transports, 3 lookups, 3 identifiers, a server that repeats, breaks the protocol and leaves; fair | 1.06 M, 42 s | `InStep`, `RequestsAreWhole`, `CrashNeedsFault`, `AnswerIsDue`, `LookupAdvances`, `ImplementsLookup` |
| `external_cache` | both directions, 3 pairs each, main cache of 2 and ICMP error cache of 1 entries, lifetimes 0 to 2 s, 3.5 s, 2 answers | 0.71 M, 25 s | `HitIsOwn`, `HitIsFresh`, `HitIsLatest` |
| `icmp_errors` | every type and code, every pointer, three MTUs, quotes of boundary sizes, one pair of MTUs, one and two translators | 7 105, 2 s | `MeaningKept`, `SecondCarriesOn`, `QuoteIdentifies`, `ErrorFits` |
| `path_mtu` | paths of two to five hops, up to 3 reports at once; fair | 38 662, 15 s | `ReportHelps`, `NotBelowPath`, `PacketsArrive` |
| `conversations` | one translator of each mode, and two (CLAT and NAT64, SIIT twice), every class of addresses | 0.96 M, 9 s | `AnswersReturn`, `AnswersFindBack`, `ErrorsNameTheRequest` |
| `header_walks` | packets of up to three units and a tail, with headers of boundary sizes, each quoted at every length, let through or not; options of 4 and 8 bytes | 0.86 M, 40 s | `ReadsInside`, `QuoteReadsAlike`, `OptionsAreSound`, `WalksEnd` |
| `integrity` | 4-valued bytes, little-endian, data of 1 to 3 bytes, TCP, UDP with and without checksum, ICMP; two translators, one damaged byte | 0.69 M, 8 s | `IntactStaysRight`, `DamageIsSeen`, `OnlyBadIsDropped` |
| `descriptors` | N=3, seven numbers; single queue, several queues, inherited descriptors apart and shared | 0.50 M, 21 s | `UsesItsOwn`, `NothingLeaks`, `EndsInPeace` |

**Why the bounds are enough.** Two threads let one crash, stay or end while the
loop is at the other; the proofs cover every N. Packets in the `send_*`
runs are taken from both sides of every size at which the code decides
something, with offsets at both sides of 8191; the proofs cover all packets and
MTUs. Three lookups let an answer be late by one lookup and by two; three identifiers
for three lookups are the fewest with which none returns (the proof: any number of
each, section 4). A fourth lookup would take the first one's identifier again, so the run
does not meet a wrapped identifier. If no message is repeated, a wrap is harmless: that is the theorem
`ImplementsLookupSafely`, with any number of identifiers. If messages are repeated it is not:
with fewer identifiers than lookups `ImplementsLookup` does not hold, which the
code's 2^32 put off but do not prevent. `MaxLookups` bounds nothing else, and `Duplicate` is bounded by the
length of `down`. In the cache run two pairs share a place and two answers let the
second overwrite, replace or miss the first; the proofs cover all sizes, hash functions
and times. Both sides of each clamp of an
MTU are reached in `path_mtu`, so that `icmp_errors` needs none but the smallest and two usual ones. Five hops let a
packet go IPv6-IPv4-IPv6 or back with a link before, between and behind the
translators (where a translator's IPv4 MTU is 96 the bound of `NotBelowPath` lies far below
1280 and says little; the other paths are those it is for); three reports let a stale one arrive after newer ones; the proofs cover
paths of any length. In `conversations` one address of each class suffices, as the
mappings compare and embed only; the proofs cover all addresses and chains. Eight
option bytes hold an option behind another and an end; three units hold every order of two
extension headers and a payload, or one header of two units and another; the walks' proofs
cover all packets. Three threads let
a number go from one to another while a third shares a descriptor with either.

**Deadlock** is checked where the loop never ends (`send_*`, `header_walks`,
`icmp_errors`, `conversations`, `integrity`, `path_mtu`). The other runs end:
the process exits, or the bound on lookups, time or answers is reached.

**Fairness.** `TranslatorThreads!Fairness`: the scheduler runs the main and
translator threads (`WF`), and a pending signal is delivered (`WF`). No packet
need arrive and no write need end (`CallSucceeds` is not fair). DNS answers one
way or the other; only `ResolvedSpec` adds that it gives the prefix sooner or
later to those who keep asking (`SF_vars(PrefixFound)`), which is needed
because discovery does not look at signals. `ExternalTransport!FairSpec`: the thread runs
and a blocking call on a socket ends after its timeout (`SO_RCVTIMEO`,
`SO_SNDTIMEO`). Inherited descriptors have no timeout: for these
it also assumes that the server reads and answers, or goes away. If it does
neither, the thread blocks, by design of the protocol. `HeaderWalks!FairSpec`: a
walk makes no system call, so that nothing but its own next step can come
(`WF_vars(Walk)`). `PathMtu!FairSpec`: the host sends and the ends receive (`WF`), a
report is carried on (`WF`), and not every packet is lost at the same hop (`SF` on
forwarding, per hop, and on refusing); a network that loses everything refutes nothing.

**Refinement.** `ExternalTransport` implements `AddressLookup`, with `status`
mapped from `phase`: each lookup ends (`WF_vars(End)`), and if it ends with
addresses or an ICMP error, the response was made for this lookup, whatever the
server did.

## 4. Proofs

TLAPS proves, for every value of the constants that the named assumptions allow:

* `TranslatorThreadsProofs`: the safety properties of the process, from
  `SafetyInv`. It is needed because none of the properties is inductive alone:
  freeing is safe because a round of `_terminate_threads()` that saw no running
  thread has marked each thread below `next` as joined (`JoinProgress`), and a
  joined thread has ended; an order to stop exists only after the main thread left
  the monitoring loop (`StopOrders`), so that before that a thread ends only by a
  failed call (`EndsExplained`). `MutexComesBack`, that the mutex is held by a thread
  exactly while this thread prints, needs less: only a thread that has not begun may
  be started (`UnbornInv`), and from the freeing of the threads on nobody wants the
  mutex but the main thread. That it is free when the process ends is not claimed: after a crash
  it need not be.
* `SendIPv6Proofs`, `SendIPv4Proofs`: the properties of sending, from
  `FragmentInv`: `offset` and the bytes that remain always add up to the end
  of the packet's payload (`OffsetFollows`), the last piece sent ends where the rest begins
  (`EndsWhereRestBegins`), and the two parts are cut at multiples of 8
  (`PartsAligned`). `ReportedMtuWorks` quantifies over every size the source may choose.
  `FragmentsAreFull`: each round of the loop leaves less, and as little as 8-byte units allow.
* `ThreadStateProofs`, of the state a thread keeps for itself. In the caches, the
  properties of a hit, from `CacheInv`: an entry
  lies at the hash of its own input addresses, carries the expiration its
  answer had, and, with a working clock, is the server's last word or has expired
  (`EntryInv`). The last part needs `WaitingInv`: an entry for the addresses
  that are being asked for has expired, so that an answer that must not be
  cached leaves nothing fresh behind. Of the descriptors, all properties, from
  `DescriptorsInv`: at every step it says what each open number stands for and who knows it,
  so that the number a thread is about to close or to read is still its own. That
  `socket()` finds a lowest free number (`LowestExists`) follows from the
  well-foundedness of the natural numbers.
* `ExternalTransportProofs`: `InStep`, `RequestsAreWhole` and `CrashNeedsFault`
  for any number of identifiers and lookups, and the safety part of
  `ImplementsLookup` (initial states, and every step a step of the lookup or
  none). `UpInv` says which pieces may follow one another in the stream to the server.
  `StreamInv`: as long as no message is repeated, an open connection carries at most
  one message, in whichever form, and it is the current lookup's; every path on
  which that fails closes the descriptors. `ProperInv`: what
  comes from a server that has kept to the protocol is one message that the parser
  accepts. Where a server repeats messages `StreamInv` does not help, and
  `DatesInv` takes its place: the identifiers taken since a message got its own are
  at least two if the current lookup is a later one, and at most one for each lookup,
  so that with as many identifiers as lookups (`IdsSuffice`; the code has 2^32) the
  message shows another identifier than the lookup's. `IdsSuffice` is an
  assumption of this theorem only: a server that repeats a response after
  exactly 2^32 lookups on one connection would be believed.
  `AnswerIsDue` needs a lower bound (`CarriedInv`: at least one message is on its way
  once the request is sent, repeated ones included) and `UpInv`, by which what the
  server has not read is not half a request; `LookupAdvances` counts the steps a lookup has left.
* `IcmpProofs`. Of paths: `ReportHelps`, `NotBelowPath` and `FragmentsPass` for paths of any length,
  from `IInv` (a packet on its way has a size that the hops before it can have made of
  what was sent, and a report one that the hop's family allows and that is smaller than
  the packet at its place, `GoodReport`; `EnoughInv`: a hop that is not an old router lets pass what its report allows, wherever
  the report has got to, and what the host took over from it) and `LInv` (without old routers a report is
  one of the path's own limits). Their core are lemmas on the recalculation of an
  MTU in one translator; `DiscoveryAdvances` follows from `ReportHelps`. Of error messages: all properties, for every message and quote, from
  `IcmpInv`: after any number of translators a message says the same as its origin
  (`TellSame`, transitive) and quotes the same packet (`QuoteSame`), and what one
  translator makes of it the next one translates again, whatever it was.
* `ConversationsProofs`: `AnswersReturn`, `AnswersFindBack`, `ErrorsNameTheRequest`,
  `RequestsStayApart` and `RouterStaysApart` for chains of any length and all addresses, from
  `IInv`: the request's trail is made of the mappings of its translators
  (`TrailInv`), and each mapping undoes the other direction's. `AnswersReturn` says of a dropped error
  that its source is to blame: the translators map each address by itself
  (`EachForItself`), and whatever a request's packet was mapped to can be quoted.
* `PacketProofs`, of what packets hold. Of headers: `ReadsInside`, `QuoteReadsAlike` and
  `OptionsAreSound` for all packets, quotes of any bytes and options, from `SumsUp` (pointer and rest
  always add up to the size), `OnlySoundPassed` with `NoOtherWay` (the walk over the
  options has passed whole options only, and any division of them into options goes the
  same way) and `OnTheWay` (the walk along a quote of a packet that was let through is at a place that the walk along the
  whole packet has passed); `WalkAdvances` from the sizes of headers. Of checksums: all properties of `Integrity`, for bytes of
  any width from four values up, either byte order, any data, prefix and number of
  translators. The argument goes upwards in three steps. (1) The recursive functions
  exist, by induction over the set of sizes or sums at which they are defined; then a
  sum of the code, in the machine's byte order and folded, and the hosts' sum `Total`
  are multiples of each other modulo `Ones`, which is 65535 in the code (`Sum16Turned`, `FoldedIs`),
  and one is zero only if the other is. (2) Hence `CalculatedIs` and `RecalculatedIs`,
  which say what `checksum__calculate_checksum_*()` and
  `checksum__recalculate_checksum_*()` return, the two zeros included. (3) A
  translator leaves the sum of a TCP or UDP packet as it was, modulo `Ones`
  (`AdaptedIs`), and makes an ICMP message right only if it was (`IcmpVerified`,
  `AnewIs`), while one changed byte always changes the sum (`ChangeShows`). `IntegrityInv`
  says so of what travels: it is as it was sent (`AsSent`) or shows its damage
  (`DamageShows`). `DamageIsSeen` alone is not inductive, since it speaks
  of hosts only: that damage between translators stays visible needs the sum at every place.

Some properties are theorems for all values and are not listed in a `.cfg`:
the type invariants of these modules, `FragmentsAreFull`, `WalkAdvances`,
`DiscoveryAdvances`, `OnlyMainStopsThreads`, `HitIsUsable`,
`FragmentsPass` (no hop refuses a fragment; a whole packet may be refused), `RouterStaysApart`, `RequestsStayApart`, and
`GivesUpOnlyBeyondDatagram` of `SendIPv4`.

The assumptions are those named `...Assumption` in the modules (`ThreadsAssumption`,
`SendIPv6Assumption`, `SendIPv4Assumption`, `CacheAssumption`, `DescriptorsAssumption`,
`TransportAssumption`, `PathAssumption`, `IcmpAssumption`, `ConversationsAssumption`,
`HeaderWalksAssumption`, `ChecksumsAssumption`, `IntegrityAssumption`): packets are
well-formed, sums stay within 32 bits, MTUs lie within the limits of `tundra_defs.h`, which
`conf_file.c` enforces, a hash lies within its cache. TLC evaluates them for each run's values.

**Only model-checked.** Liveness (`SignalledStops`, `CrashedThreadEndsProcess`,
`PacketsArrive`, `WalksEnd`, and the fairness of `ImplementsLookup`), which the
prover does not reach. What such a property says of single steps is proved: something
gets smaller in each step (`LookupAdvances`, `WalkAdvances`, `DiscoveryAdvances`,
`FragmentsAreFull`), and nobody waits for what does not come (`AnswerIsDue`,
`MutexComesBack`). That the step is taken is fairness, and stays with TLC. Every invariant and
action property that a run checks is a theorem as well.

## 5. Disagreement between code and documentation

`src/README.md:167` says: "to terminate it, send SIGTERM, SIGINT or SIGHUP to
the process". `conf_rfc7050__autodiscover_ipv6_prefix()` (`conf_rfc7050.c:49`)
runs after the handlers are installed and never looks at the flag they set.
While DNS does not give an address of `ipv4only.arpa.`, each signal prints "the
translator will shut down soon" and the loop goes on. `threads_unresolved` finds
the behaviour `resolve -> retry -> resolve -> ...` with `mainFlag = TRUE`.

## 6. Not modelled, and why

* Configuration files and the command line, `mktun`, `rmtun`, `validate-config`, the
  `ioctl()` calls on TUN devices: sequential code without later state; each failure
  is a crash (`StartupFails` stands for those of the translate mode). What the
  configuration lets through is in the assumptions.
* Fragment identifiers: each thread counts from a random start of its own, so that two
  threads may use one identifier at a time; the code does not try to prevent
  it and no document promises it, so that there is nothing to check.
* TTL and hop limit: one comparison and one decrement on each side.
* Formatting of messages, DSCP/ECN and the bytes of headers other than the
  fields named above; `utils.c`'s allocation and parsing helpers.
* The duration of calls: `connect()` has no timeout of its own in the code and
  may block for minutes; in the model it ends some time.
* `close()` interrupted by a signal, and its retry: the outcome depends on the kernel.

## 7. What could come next

* `ExternalCache` over `AddressLookup` instead of its own `Answer`, to have one
  specification of the `external` mode.
* The expiry of TTLs, as a bound on packets that circle between two translators.
