# Formal models of IOv2

IOv2 is a header-only C++23 stream library (plus one small `src/iov2_objects.cpp`
for the shared build).  Beside it, this directory keeps TLA+ models of its core
logic, the TLC configurations that check them on small instances, and TLAPS
proofs of the properties that matter most.  Source paths below are relative to
`include/IOv2/` unless they say otherwise; `PROJECT.json` maps every modelled
definition to its lines.

To run:

    tlc -workers 2 -config TieGraph.cfg MCTieGraph      # any row of section 4
    tlapm TieGraphProofs.tla                            # any *Proofs module

## 1. The system

IOv2 separates what `std::iostream` keeps in one `streambuf` into layers:

    istream / ostream / iostream / cin, cout, ...      (io/)
        ios_state + io_mutex + tie edge + format state
    iochannel: look-ahead and put-back                  (io/iochannel.h)
    runtime_cvt: type erasure, a mirror of the direction (cvt/runtime_cvt.h)
    code_cvt, zlib_cvt, vigenere_cvt, hash_cvt, ...     (cvt/, each on abs_cvt)
    root_cvt or stdin_root_cvt: the buffer              (cvt/)
    mem_device, file_device, std_device                 (device/)

Calls go down, results and exceptions come up; there are no callbacks from a
lower layer.  One object belongs to one stream, and the stream's `io_mutex()`
serialises its operations, so the layers below a stream are sequential.  What
threads do share: the tie graph, the mutexes along a tie chain, the standard
streams with C stdio and the exit of the process, and the facet caches.

| component | state | operations | what is hard | what makes it correct |
| --- | --- | --- | --- | --- |
| tie graph (`io/utilities/`) | one atomic edge `m_tie_stream` per stream, a process-wide mutex | `tie()`, copy, move | two threads tie in opposite directions; copies and moves clear edges under a walk, without the lock | never a cycle; a refusal is justified; the lock is let go of |
| tie flush (`io/utilities/`) | the recursive `io_mutex()` of each stream, its buffer and its bits | sentry, `try_flush()` down the chain | taking a lock the user did not order; re-ties in mid-flush; a failing target | no wait, no leaked lock, failures land on the target, the whole chain is flushed |
| stream state (`io/io_base.h`) | bits, exception mask, one saved exception per category | `clear`, `setstate`, `unset_state`, `exceptions`, `handle_exception` | nested handlers that classify again what an inner one threw; failures that yield to others | bits and exceptions agree, the first failure is kept and thrown once asked for |
| channel (`io/iochannel.h`) | stack of characters read ahead or put back, the direction | `getc`, `getn`, `nextc`, `putbackc`, `is_eof`, `putc`, `putn`, `seek`, `tell` | turning with a look-ahead in hand, a turn that fails half-way, more put back than read | a plain file with a position |
| converter layer (`cvt/abs_cvt.h`) | read area, held-back error, taint, the derived class's own position | header and content I/O, `seek`, turns, `attach` | the kernel fails half-way or lands elsewhere | stays in step with the kernel or refuses to work; errors do not pass for the end |
| `code_cvt` (`cvt/code_cvt.h`) | the shift state, units read ahead, `m_accu_len`, taint | `get`, `put`, `seek`, turns, `close` | characters cut in two by a block or an error; bad units; a put that cannot be encoded | a sequence of characters; count and shift state belong to where the kernel is |
| `zlib_cvt` (`cvt/comp/zlib_cvt.h`) | the `z_stream` and what it is open for, `m_stream_ended`, `m_sync_flush`, held-back error, taint | `bos`, `get`, `put`, `flush`, `adjust`, `detach`, `attach` | the kernel fails in the middle of what deflate hands over, above all at the end; the kernel's end and the stream's are two | what was closed without complaint is a whole stream; no part of one passes for all of it |
| typed input (`io/utilities/istream_operators.h`) | what the channel has shown, the bits, `width()` | `get`, `getline`, `read`, `ignore`, `peek`, `putback`, `ws`, `>>` | the device throws, ends or grows in the middle of a line or a word | nothing consumed is lost, nothing is waited for without need, the end is told |
| buffered root (`cvt/root_cvt.h`) | one buffer for either direction, length of the header | the same, and `detach`, readers and writers on the buffer | partial device writes, chunks around the size of the buffer, read-ahead when turning | a plain file with a position; the header is out of reach |
| root over memory (`cvt/root_cvt.h`, `device/mem_device.h`) | the string, the position, its size before memory was lent | the same, with memory lent to readers and writers | a writer uses less than the memory that was grown for it, in the middle of a file or at its end | a plain file with a position |
| standard output (`io/objects/out_impl.h`) | the stream's buffer, `m_sync_with_stdio`, `m_exited` | insertion, `sync_with_stdio`, exit hook | `printf()` of other threads, exit during an insertion | order against stdio, nothing lost at exit, exit never waits |
| standard input (`cvt/stdin_root_cvt.h`, `device/std_device.h`) | buffer, what is in hand, the probed byte, `m_synced`, the end that `stdin` or the device remembers | `get`, `get_buf`, `rollback`, `unget`, `is_eof`, `synchronize` | C stdio reads between any two calls; bytes that go back, behind an end that is sticky | no byte lost, twice or out of order, none hidden by an end |
| numeric facet (`facet/numeric.h`) | none | `put`, `get` of integers, bools, floating-point numbers | padding, grouping, signs and prefixes that run into each other; limits | a field that is let through reads back; a text is read as what it denotes |
| monetary facet (`facet/monetary.h`) | none | `put`, `get` of integers and strings of digits | signs that change place and wrap the field; fill inside it; one pattern reads what two write | what is let through is read as the amount it was, or not at all |
| time facet (`facet/timeio.h`) | the context of fields read so far, filled from a hint | `put`, `get`, `convert_to` | a date from any combination of fields; eras, week years, zones | what says all reads back; the hint fills gaps and nothing else |
| facet cache (`locale/ori_facet_buf.h`, `common/lru_cache.h`) | two bounded caches under one mutex | `try_get`, `try_get_msg`, `put_msg` | facets are built outside the mutex by racing and nested constructors; allocation failures | everyone shares what is cached, failures leave the cache sound |
| `copyable_mutex` (`common/copyable_mutex.h`) | the mutex, the fork generation it was built in | `lock`, `unlock`, `fork()` | a child whose mutex is held by a thread that it does not have, found by two threads at once | exclusion, and no wait for a thread that is gone |

The components left out are listed in section 6 and, file by file, in
`PROJECT.json`.

## 2. The modules

One module per component, an `MC...` module that gives the constants their
values, and a `...Proofs` module where there are theorems (section 5): one for what a
run puts together, above the `MC` module where the run has several machines.

| module | models | state and actions against the code |
| --- | --- | --- |
| `TieGraph` | `tie()`, `check_tie`, copies, moves | a step is one atomic load or store of an edge: `CallTie`, `AcquireGraph`, the walk (`TestSlow`, `StepSlow`, `StepFast`, `StepFastAgain`), `Commit`, `Reject`, `Report`; `CopyAssign`, `MoveAssign` and `MoveSource` clear edges without the lock, as the code does |
| `StreamState` | `ios_state` | a step is one public operation, which runs under the stream's mutex; all of them end in `clear()` (`ClearWith`).  `flying` is the exception a thread has in flight: `Rehandle` is an enclosing catch of the library, `Absorb` the one in `try_flush()`, `Catch` the user's |
| `TypedInput` | the input operations of a stream | a step is one operation, under the stream's mutex: the sentry, the loop over the channel, the failure handler.  `due` are the characters not yet consumed and `shown` how many of them the channel has; an operation may throw at the first that it does not have.  `Arrive` is the device getting more |
| `TieFlush` | the sentries and `try_flush()` | `Begin`, `Acquire`, `Sentry`, then per link `Walk`, `TryTakes`/`TryMisses`/`TryGivesUp`, `Flush`, then `Body`.  `chain` is the recursion.  `UserLock` and `UserUnlock` are a user who holds `io_mutex()` over several operations |
| `ByteStream` | nothing in the code: the abstract specification of a file with a position | `Write` takes a prefix when it fails, `Read`, `Seek`, `Replace` |
| `RootCvt` | `root_cvt<device, true>` | a step is one call.  What `m_buf_cur` and `m_buf_end` delimit is a sequence.  A failing device write leaves any prefix written; a failing step of a call that makes several leaves what the steps before it did |
| `MemRoot` | `root_cvt<mem_device>`, its reader and its writer, `mem_device` | a step is one call, except that a writer is two: `PutBuf` lends memory, `Fill` fills some of it and lets `put_buf_guard` give back the rest.  While memory is lent the file of the refinement is what it was before |
| `Channel` | the two-way `base_channel` with `runtime_cvt`'s mirror | a step is one call; the converter below is the file of `ByteStream`, and may fail at every call.  `honest` says of a caller that it only puts back what it read |
| `LayerCvt` | `abs_cvt` with `vigenere_cvt` | a step is one call; the kernel is again a file with a position that may fail, and may land elsewhere when asked to seek |
| `CodeCvt` | `code_cvt` on `abs_cvt` | a step is one call.  Units and characters are a handful of model characters, enough for one-unit, two-unit, shifted, invalid and zero ones; `GetMain`, `InHelper` and `PutMain` are the loops of `get_main()`, `in_helper()` and `put_main()` as recursive functions, and what a round of them does has operators of its own: `Filled` fetches, `Helped` decodes, `Decoded` and `Rejected` are where it leaves the loop, `ReadOne` and `OutHelper` a single character.  `Meaning` reads units one after the other, without blocks; the properties compare the loops with it |
| `ZlibCvt` | `zlib_cvt` on `abs_cvt` | a step is one call.  What zlib computes is external: bytes are numbered, deflate keeps any of them to itself and spells the rest as literals or matches (`Spellings`), the last unit has a checksum of all; the kernel takes any prefix of what it is handed (`Taken`).  `Get` feeds inflate unit by unit, as `get_main()` does; `Reopen` is `detach()` and `attach()` of what it returned |
| `StdOut` | an insertion into `cout`, `sync_with_stdio()`, the exit hook, C stdio | an insertion is `Insert`, `Sentry`, `Body`, `EndFlush`, `EndLand`, `Leave`: the destructor of the sentry reads `m_exited` in one step and acts on it in a later one, also when the body threw (`BodyFails`, whose bit `Leave` sets as `handle_exception()` does).  `HookMarks`, `HookFlushes`/`HookMisses`, `StdioExit`, `End` are the exit |
| `StdIn` | `stdin_root_cvt_imp` over `std_device<0>` | a step is one call on the root; `CGet` is `getchar()` between any two.  The bytes are numbered.  `FileRead` and `FdRead` give every outcome of `fread()` and `read()`, with `FileEnds` and `FdEnds` for the end flag: `ended` is `feof(stdin)`, `hitEnd` the device's `m_eof_hit`.  `CMeetsEnd` and `ClearErr` are the program that sees an end and makes stdio forget it |
| `Numeric` | `numeric::put` and `get` | `Put` appends the field of a value to the text, if it is let through; `Get` reads the next one from its front; `Arrives` is a text from elsewhere.  The algorithms (`Field`, `ScanInt`, `VerifyGrouping`, ...) are operators on sequences of characters; `Denotes`, which they are compared with, is written from the shape of a numeral and not from the loops |
| `Grouping` | `add_grouping()`, `verify_grouping()` | operators, for the facets of numbers and of money |
| `Monetary` | `monetary::put` and `get` | `Put` makes a field of an amount, if it is let through; `Get` reads one; `Arrives` is a text from elsewhere.  `Pattern` is made from what lconv says; `Laid` keeps the parts of a field apart so that `FillMisread` can tell where fill landed; the four `Take...` are the slots of the walk in `extract()`, on a record of what has been read |
| `TimeIo` | `timeio::put`, `get` and `time_parse_context` | `Put` writes a value by a format, `Get` reads the text into a context, filled from a hint or not, and deduces the value.  `Step` is one round of the loop over a format, on a context that is a record of what has been read; `ComputeYmd`, `DeducedYear`, `IsoDate`, `Snapped` and `Clamp` are the deduction, and `ToSys`, `ToZoned`, `ToTm` what a target makes of it |
| `Calendar` | the calendar that both directions of the time facet reckon by | operators: the number of a day, a date, the weekday |
| `CopyableMutex` | `copyable_mutex` and `fork()` | `Lock` of a mutex that is not stale; of one that is, `FindsStale`, `TakeRefresh`, `LeaveRefresh` or `Construct` and `Store`, `Acquire`, so that threads meet between the loads and stores of a generation; `Fork` leaves one thread alive, `Begins` is one that starts in the child |
| `LruCache` | `lru_cache::get` and `put` as operators on a list and a map | `PutFails` is the allocation failure between the two |
| `FacetCache` | `try_get`, `try_get_msg` with `put_msg` | `Lock`, `Look`, `Build`, `Insert` per call, `BuildDegraded` where messages do not load, each of which may find no memory; `stack` holds the calls a thread is in, since a constructor may come back |

`Channel`, `RootCvt`, `MemRoot` and `LayerCvt` meet in `ByteStream`: each is shown to
implement it, and `Channel` and `LayerCvt` take it for what is below, so the pipe
is checked link by link instead of as one product.  The guarantee of a lower
link is the assumption of the next one:

    Channel  ==>  ByteStream   (over a converter that is a ByteStream)
    LayerCvt ==>  ByteStream   (over a kernel that is a ByteStream)
    RootCvt  ==>  ByteStream   (over a device that reads, writes and seeks)
    MemRoot  ==>  ByteStream   (with the device in it)

`Channel` and `LayerCvt` do not reach their converter through an INSTANCE; they repeat its
moves with the failures that they tell apart.  `CodeCvt` is no `ByteStream`: its
positions count characters, some of them bad, over units that vary in length,
so it has a specification of its own in three properties; nor is `ZlibCvt`, which
has no positions and no turns.  `TypedInput` sees
the channel as its file property describes it.  `TieFlush` takes from `TieGraph`
that the edges are acyclic and makes `tie()` atomic.  `FacetCache` extends
`LruCache` and `CopyableMutex`, and locks by the steps of the latter.

*Several machines in one run.*  `MCStreamState`, `MCTieFlush`, `MCRootCvt`,
`MCLayerCvt` and `MCFacets` each hold two or three machines that share no variable.  `part` names
the one that runs; the others stay in one initial state.  The reachable states
are the disjoint union of those of the machines, so each is checked as it would
be alone.  The instanced ones have their constants substituted in the `MC`
module, their assumptions restated there, and their properties under the names
that section 4 uses, as `NothingLost == [][In!LosesNothing]_input`.

Definitions commented "faulty" are what the code would be with a plausible
mistake in it; nothing uses them, except when one is put in place of its correct
neighbour to see that a property notices.

## 3. Assumptions

- **TieGraph**: objects are not destroyed while another thread uses them.
- **TieFlush**: users who hold several `io_mutex()`es take them in one order
  (`LockRank`), and let go of them in the end.  Tie flushes know nothing of it.
- **RootCvt**: a device that reads, writes and seeks.  It may fail at each call;
  a failed write has written some prefix, a failed seek has not moved.
- **MemRoot**: a caller of `put_buf()` fills what it keeps of the memory lent and
  goes by `put_buf_guard`, as `code_cvt` does; it makes no other call in between.  Memory
  may run out when the device grows; a device whose string was moved out is empty.
- **LayerCvt**: a caller whose header read failed does not go on to
  `main_cont_beg()`; turns, seeks and flushes come after the header; a kernel
  asked to seek to where it already is, and throwing, has not moved.
- **CodeCvt**: the kernel goes where a seek asks or stays and throws; a device is
  opened without a header.
- **ZlibCvt**: a device that comes empty is written and any other is read, which is
  what a kernel's `bos()` says; zlib itself fails only when it is given no work or
  bad data, and its `Z_MEM_ERROR` is left out.
- **Channel**: the file property is about an `honest` caller; the others are not.
- **TypedInput**: the channel shows characters in order and never the end before
  the last; what the mask throws is `StreamState`'s.
- **StdOut**: an insertion does not call `sync_with_stdio()` on its own stream
  from within; no bit is in the `exceptions()` mask.
- **StdIn**: the streams share one mutex, as the library's objects do, so their
  extractions do not overlap.  The kernel may tell an end before the last byte and
  go on after it, as a terminal does.  `reset()` and `detach()` drop bytes on purpose and
  are left out, with `bad_alloc` and `get_buf<true>()`.
- **Numeric**: one letter stands for its two cases.  What `snprintf()` prints of a
  floating-point number is given, and `strtod()` tells two texts apart as their
  digits do.  Names of bools are no prefixes of each other; the separator is no
  digit and not the decimal point.
- **TimeIo**: years from 1 to 9999; the database of zones is a constant; the
  locale's names and eras are constants in the shape `timeio_conf` has them.
- **CopyableMutex**: a thread that forks does not hold the mutex, as the code
  requires of it, and generations do not come round.

Fairness is stated only where a liveness property needs it.  In `TieGraph`,
`TieFlush` and `FacetCache` a thread that can take the next step of what it has
begun does so (weak fairness of its `Step`): the scheduler of any system the
library runs on gives that.  Starting an operation is never fair, and no mutex is
assumed to be handed over fairly: where a thread waits for one, it gets it
because the others have a bounded number of operations to make.  In `TieFlush`
letting go of a user's lock is part of `Step`.  In `FacetCache` the thread that
a fork leaves behind takes no further step in the child, and forking is not fair.
`StdOut` gives fairness to the exiting thread only; that `exit()` ends must not
depend on anybody else.

## 4. The runs

| run | configuration | checks | what it shows |
| --- | --- | --- | --- |
| `tie` | `TieGraph.cfg` | `Acyclic`, `RefusedOnlyForSelf`, `GraphLockReleased` | whatever is cleared under a walk, no cycle forms; a refusal happens only when the chain really led back to the caller, so the hare never meets the tortoise; nobody keeps the graph lock |
| `tie_flush` | `TieFlush.cfg` | `LocksAccounted`, `ChainFlushed`, `InitiatorUntouched`, `OperationsEnd` | ties: every hold on a lock is explained by where its owner stands; an undisturbed flush reaches the end of the chain; a target's failure stays on the target; every operation ends |
| | | standard output: `PromisedIsHandedOver`, `ExitDelivers`, `ExitEnds` | whoever sees the stream synchronized may `printf()`; what insertions wrote survives the exit unless the hook gave up; the exit never waits |
| `state` | `StreamState.cfg` | state: `SavedMatchesBits`, `FirstFailureKept`, `AbsorbedIsRecorded` | every sequence of failures, clears, masks and nested handlers |
| | | input: `NothingLost`, `AsksNoMore`, `ReportsTheEnd` | through every cut of a line, whatever an operation consumed is in its result, it waits for no character that it can do without, and the bits say why it stopped |
| | | channel: `PlaceKept`, `ChannelIsAFile` | the copy of the direction follows the converter's; the stack is invisible to a caller that puts back what it read, and costs no other caller a character |
| `state_nested` | `StreamStateNested.cfg` | `NestedHandlingIdempotent`, **violated** | finding 1 |
| `roots` | `RootCvt.cfg` | buffered root: `OnlyWhatWasAsked`, `DetachDelivers`, `RootsAreFiles` | no byte is lost, doubled or reordered through partial writes, short reads, turns and seeks; the header is out of reach; a put that throws is not taken unless some of it landed |
| | | root over memory: `RootsAreFiles` | memory that is lent, grown, partly used and given back loses no byte of the file and leaves none behind it |
| | | standard input: `EachByteOnceInOrder` | conservation and order of the input, with C stdio reading in between, which a synchronized stream leaves what it did not ask for; an end that is remembered hides nothing that was probed or handed back |
| `converters` | `LayerCvt.cfg` | layer: `KeyInStep`, `ShortMeansEnd`, `NothingAfterLoss`, `ImplementsByteStream` | the key is applied where the kernel is or the layer refuses; a short read is the end or the next call says why not |
| | | code: `CountInStep`, `ReadsInOrder`, `WritesReadBack` | characters and bad units arrive in order however the reads cut them; count and shift state belong to the kernel's position; what is written is read back |
| | | zlib: `ClosedIsWhole`, `EndIsAll` | a writer who heard of no failure leaves a whole stream of all that it put; a reader who heard of none has read a whole one |
| `zlib_flush` | `ZlibFlush.cfg` | `SyncFlushGoesOn`, **violated** | finding 5 |
| `stdout_late` | `StdOutLate.cfg` | `EndsAfterHookHandsOver`, **violated** | finding 2 |
| `facets` | `Facets.cfg` | numbers: `FieldsReadBack`, `TextDenotes` | fields that were let through read back one after the other; texts from elsewhere are read as the number they denote, or as a failure with the right limit |
| | | times: `TimeReadsBack`, `HintOnlyFills` | a text that says all reads back, over formats that say a date in every way; the hint never decides what was said, nor whether the text is accepted |
| | | money: `MoneyReadRightly` | a field that was let through is read back as the amount that it was made of or refused, never as another one; a text from elsewhere is read as what its digits and its sign say |
| `numbers_infer` | `NumericInfer.cfg` | `InferredReadsBack`, **violated** | finding 3 |
| `times_hint` | `TimesHint.cfg` | `EraYearKept`, **violated** | finding 4 |
| `facet_cache` | `FacetCache.cfg` | `MutualExclusion`, `CachesSound`, `SharedWhileCached`, `CallsEnd` | racing and nested constructors share one facet while it is cached; no call waits for itself, nor in a child for a thread that is not there |

Why the bounds are enough:

- `tie`: two threads, because the graph lock lets one walk at a time and clears
  are single stores; three output streams, the shortest chain on which the two
  pointers part and one overtakes an edge that is cleared.  Nothing else is
  bounded.  The proof covers the rest.
- `tie_flush`: a chain of three (an initiator, a middle link, an end), `a` and `b`
  sharing a lock so that it is taken recursively; two attempts (the code's three
  add a repetition), two operations per thread, one re-tie.
- `state`, the bits: one thread is enough, since every operation is a step of its
  own; two identities tell "the first" from "a later one"; as arguments the empty
  set, all bits, each bit and one pair that skips a rank.  Nothing else is bounded.
- `state`, the input: up to four characters of three sorts (ordinary, a space, the
  delimiter), arriving in lines of two; operations take up to two, so that a line
  is shorter than, as long as and longer than the room for it.
- `state`, the channel: devices empty or of three characters, up to three asked
  for at once, a stack of four, so that what was put back can exceed what was
  read; one attach.
- `roots`: a four-byte buffer with chunks of one, three and four bytes: shorter
  than, filling and (with something buffered) overflowing it; then one is buffered
  after the flush and three or four bypass the buffer.  Four written bytes, devices
  that come empty or with two bytes, the device replaced twice.  Over memory three written bytes in chunks of up to three, devices as before,
  taken or replaced once: a chunk lent can lie inside the file, cross its end or begin there.
  On the input six
  bytes through a buffer of three, so that it is refilled twice; extractions that
  ask for up to two.
- `converters`: a key of two over seven characters (position and key have different
  periods), header chunks of two, up to three characters asked for.  For the codes
  texts with each sort of unit in front of and behind each other, one that ends in
  the middle of a character and one that ends shifted; files of up to eight units;
  two openings, so that what one left behind meets the next.  For zlib characters of
  one and of two bytes, up to four bytes and two openings; devices that hold no stream, a
  whole one with more behind it, one with a wrong checksum, one that is cut off behind
  a match and one that turns bad.
- `tie_flush`, standard output: two threads, two bytes of buffer, three calls (one to fill, one to
  switch or print, one during the exit), three attempts of the hook as in the code.
- `facets`, the numbers: eight bits, so that all limits are three digits; locales
  that group by one and then two, once, and not at all; fills that look like a
  digit, a hexadecimal digit, a prefix, an exponent, a sign, a separator, a point
  and a name; two fields in a row; all texts of up to four digits
  and separators and of up to four digits, signs and prefixes, and longer ones that
  are grouped or around the limits.
- `facets`, the money: each pattern that lconv can ask for, in each adjustment, with
  each kind of fill; signs of none, one and two characters; symbols that end in a
  space; no, one, two and three places; currencies whose amounts of either sign are
  laid out differently; texts made of signs, symbols and amounts that are grouped
  well and badly, with too few and too many places, at and beyond the limits.
- `facets`, the times: three locales (no eras, eras that begin and end within a
  month, an era that counts backwards), a zone set back and one set ahead, days around the ends of
  years, of eras and of February, in leap years and not, and around the week that
  two years share; formats that say a day by month and day, by the day of the year
  and by each kind of week, with full and short years, in either order and twice.
- `facet_cache`: room for one of two names, so that it evicts; a name of messages
  with its own cache; four calls, nested at most two deep; one fork.

Runs whose operations are bounded come to rest when the bound is used up; those
say `CHECK_DEADLOCK FALSE`; and the process of `StdOut` ends.

### Findings

1. *Handling a failure twice* (`state_nested`).  `handle_exception()` is
   documented as idempotent for nested handling points (`io/io_base.h:1302`).
   When `otherfailbit` is set and masked with no exception saved under it,
   `clear()` makes up a `stream_error`; an enclosing catch classifies that as a
   failure of the stream and adds `strfailbit`.  What is said of one exception
   (line 1302) holds; what is concluded from it for nested sites (lines 1303-1306)
   does not, since the exception that is handled the second time is another one.
2. *An insertion in progress at exit* (`stdout_late`).  `m_exited` is documented
   to cover an insertion that is still in progress while the exit hook runs
   (`io/objects/out_impl.h:851`).  The destructor of its sentry may have read the
   flag before the hook set it, and still hold the mutex when the hook gives up;
   its bytes stay in the stream's buffer.  `ExitDelivers` shows that this takes a
   hook that gave up.
3. *Zeros before a number of no stated base* (`numbers_infer`).  A field that is let
   through is documented to read back under the same flags and fill
   (`facet/numeric.h:1172`).  With no `basefield` set a number is written in
   decimal and its base is inferred when it is read; a fill of `0` before it is
   allowed, and makes it octal: 127 in a field of five, `00127`, comes back as 87.
4. *The day of a hint chooses the era* (`times_hint`).  With the year of an era and a
   month but no day, `compute_ymd()` (`facet/timeio.h:287`) looks the era up by a
   date completed with the hint's day.  Where the era ends within that month the
   date may lie beyond it, and the first era is taken: `04/H31yr` with a hint of a
   31st is read as 1990 and not as 2019.
5. *Flushing twice* (`zlib_flush`).  With `zlib_sync_flush{true}` each `flush()` is
   documented to insert a sync point (`cvt/comp/zlib_cvt.h:74`).  When nothing was put
   since the last one, deflate answers `Z_BUF_ERROR`; `zerr()` throws it and
   `abs_cvt::flush()` taints the converter, which then refuses every `put()`.
   `main_cont_beg()` flushes too, so that one `flush()` before the first `put()` is
   enough.

6. *Fill behind an amount whose sign stands there* (no run of its own).  Behind an
   amount any fill but a digit is let through, since nothing else could be read into
   it (`facet/monetary.h:694`).  With `n_sign_posn` 2 the sign is looked for there, and
   fill that begins like the other sign is taken for it: with `setfill('-')` 1.27
   becomes `1.27----` and reads back as -1.27.  `MoneyReadRightly` excepts such fields
   as `Misled`; without the exception the run `facets` finds this one.

Remarks that are not findings, because the code says so or promises nothing:

- The facet cache's comments call equivalent facets unique in the program
  (`locale/ori_facet_buf.h:151`, `:187`); that is so while the name is in the cache,
  and `SharedWhileCached` says exactly that.
- A tie flush ends because the graph is acyclic at each instant, which does not
  bound a flush that other threads keep re-tying ahead of for ever; the run bounds
  the re-ties.
- A negative number written in octal or hexadecimal is read back by its bits, or
  not at all; `FieldsReadBack` leaves those out, and a fill that could belong to the
  field that follows directly.
- `getline()` that fills its room with the last character of the input does not
  look for the end and sets no `eofbit`; the source explains it.
- `zlib_cvt::is_eof()` is true when the kernel has no more bytes, though inflate may
  still hold output of a stream that was cut off; its comment calls either condition
  a true end (`cvt/comp/zlib_cvt.h:537`).  A `get()` delivers the rest, and then the error.
- Bad units that `code_cvt` skips do not count in `tell()`; documented.
- A `%Z` is matched only literally when the target keeps less than a zone
  (`facet/timeio.h:3731`), though the class's comment says that the database comes
  first (`:1830`); so `UTC` of a system time is not read back into one.
- `internal` puts fill between the amount and the rest of a longer sign, `(1.28  )`,
  when the pattern ends in a spare slot; such a field is refused when it is read.  So
  is an amount whose layout is not that of negative ones, which alone is walked.
- A year and a weekday, with a hint of the last days of December, may roll over to
  the next year: the code snaps to the nearest such weekday, as documented.

## 5. The proofs

All for every value of the constants allowed by the named assumptions: any number
of threads, streams and calls, any text, buffer, chunk, key and capacity.

| theorem | in | property |
| --- | --- | --- |
| `TieGraphAcyclic` | `TieGraphProofs` | `Acyclic` |
| `RefusalsAreForSelf` | `TieGraphProofs` | `RefusedOnlyForSelf` of `TieGraph` |
| `LocksStayAccounted`, `WholeChainFlushed`, `InitiatorStaysUntouched` | `TieFlushProofs` | `LocksAccounted`, `ChainFlushed`, `InitiatorUntouched` |
| `NothingLostAtExit`, `PromisesAreKept` | `TieFlushProofs` | `ExitDelivers`, `PromisedIsHandedOver` |
| `SavedExceptionsMatchBits`, `FirstFailureStays`, `AbsorbedStaysRecorded` | `StreamStateProofs` | `SavedMatchesBits`, `FirstFailureKept`, `AbsorbedIsRecorded` |
| `ReadsKeepTheirPlace`, `StackIsInvisible` | `StreamStateProofs` | `PlaceKept`, `ChannelIsAFile` |
| `OperationsLoseNothing`, `OperationsAskNoMore`, `BitsTellTheEnd` | `StreamStateProofs` | `NothingLost`, `AsksNoMore`, `ReportsTheEnd` |
| `DoesWhatWasAsked`, `GivesUpWholeDevice`, `BothRootsAreFiles` | `RootCvtProofs` | `OnlyWhatWasAsked`, `DetachDelivers`, `RootsAreFiles` |
| `InputStaysWhole` | `RootCvtProofs` | `EachByteOnceInOrder` |
| `KeyStaysInStep`, `NothingFollowsLoss`, `ShortReadIsExplained`, `LayerIsAFile` | `LayerCvtProofs` | `KeyInStep`, `NothingAfterLoss`, `ShortMeansEnd`, `ImplementsByteStream` |
| `ClosedIsComplete`, `EndTellsAll` | `LayerCvtProofs` | `ClosedIsWhole`, `EndIsAll` of `ZlibCvt` |
| `CountIsTrue`, `ReadInOrder`, `WrittenIsReadBack` | `CodeCvtProofs` | `CountInStep`, `ReadsInOrder`, `WritesReadBack` of `CodeCvt` |
| `MutexExcludes`, `CachesExclusive` | `FacetCacheProofs` | `MutualExclusion` |
| `CachesStaySound`, `CachedIsShared` | `FacetCacheProofs` | `CachesSound`, `SharedWhileCached` |

All four refinements of `ByteStream` in section 2 are among them: each link of the
pipe is a file with a position, over whatever is one below it.

**`TieGraphProofs`**.  A cycle is stated as a *trap*, a non-empty set of streams that
no edge leaves; that avoids paths and induction over them.  `Acyclic` is not
inductive, because `Commit` stores an edge on the strength of a walk that is over.
The invariant adds what the walk knows:

- `LockInv`: whoever walks, commits or rejects holds the graph lock;
- `WalkInv`: every set that would be a trap once the pending edge is stored
  contains the tortoise;
- `AdvanceInv`: a tortoise that advances is not at the caller's stream;
- `CommitInv`: a walk that accepted leaves no such set.

The tortoise follows edges, and such a set is closed under them, so it stays
inside; when it runs off the end of the chain it is in no set of streams, so
there is no such set.  Copies and moves only clear edges, which can only make
traps fewer (`ClearingIsSafe`): that is why they need no lock.

That a refusal is never for another reason than a chain back to the caller needs
the hare.  The edges that copies and moves clear under a walk could make the two
meet; but while a walk goes on there is a graph in which they still stand, without
cycles, and in which the hare is ahead of the tortoise on one chain (`HareAhead`).
So they never meet, whatever is cleared.

**`TieFlushProofs`**.  A hold on a lock comes and goes with the place that its thread
is at, so `LocksAccounted` is inductive once it is known that each place has its
stream (`LockInv`).  `ChainFlushed` says what holds when the recursion is over and
needs what it has behind it: the activations follow the edges (`Follows`), and what
lies below the innermost is settled once the walk has turned back (`Settled`).

For the standard output the invariant is `OutInv`.  Its part `OneWaits` carries both
theorems: while the stream may keep nothing back, the bytes of only one thread wait
in its buffer, and that thread is at the end of its insertion with the mutex in its
hands; `Owned` says that a place inside the mutex is the owner's, `FlagsAgree` and
`Emptied` what a switch or an exit under way has done and has yet to do.

**`StreamStateProofs`**.  Of the bits, `SavedMatchesBits` is inductive with `TypeOK`.
Every operation ends in `clear()`, so one lemma, that what `clear()` leaves saved
agrees with the bits it leaves set, carries all of them.  The action properties
follow from the same invariant and a lemma that `clear()` keeps, throws or drops
with its bit each exception it finds.

Of the channel, the invariant is `ChInv`: types and bounds, that the two directions
mirror each other, and that what an honest caller has on the stack is what the file
has before the converter's position (`StackIsFile`).  What is left to read is then
one sequence, on the stack first and in the file after it; every read takes what it
consumes from its front (`Takes`), and every other call moves, writes, or fails
where it was.

Of the typed input, no invariant is needed but the types.  `MeansTo` says how many
characters an operation skips, keeps, consumes and looks at, and the bits it ends
with; one lemma per operation shows it, with the first delimiter or space found by
the least element of a set of numbers.  An operation that the device cuts short does a
part of what it would have done.

**`RootCvtProofs`**.  The invariant is `RootInv`: types and bounds, and that what is
read ahead is what the device has before its position.  Every call is brought into
one of four shapes, a put, a read, a move and a change of device, each with the
failures that stop it half-way; what is shown of a shape holds for every call that
has it.  The lemmas are about `Overwrite`: two pieces written one after the other are
one, and a prefix that landed is a shorter write.  For memory, `MemSound` says how long
the string is while memory is lent, and that the file of the refinement does not see
it.

For the standard input (`InInv`), `ByteOnce` says of numbered bytes that there are as
many as there were and that they are the same; so none is there twice.  A step keeps
what is due as it is, takes bytes from its front, switches, or is a `getchar()`, and
of each the count is shown once.  `Tidy` adds that a synchronized stream that was not
mixed with buffered reads has nothing read ahead.  That no end hides a byte
(`EndComesLast`) takes one more part, `EndsAgree`: `stdin` remembers an end only while
its buffer is empty, the device only while it holds no probed byte; a byte that goes
back to `stdin` makes it forget the end.

**`LayerCvtProofs`**.  `KeyInStep` counts the read area, which a turn or a seek empties,
so it is not inductive; what is: while the layer works on content the read area is
empty and the key position is the kernel's (`IInv`).  A put that drops characters
taints the layer (`LossTaints`) and a tainted layer neither reads nor writes
(`TaintStops`).  The refinement needs the types and that a read area with something in
it belongs to a header (`AreaRead`); a put of what was encrypted is then one of the
plain text, character by character, because the key is in step where it lands.

Of `zlib_cvt`, `ZInv` accounts for every byte.  `Text` is what the units of a device
say, one after the other.  A reader who lost no part of a character has, with what
inflate still holds, what the units read so far say, until one of them is no good;
at the end it has what the checksum says (`ReadInv`).  A writer who heard of no failure
has spelt what it was given, but for what deflate still holds (`WriteInv`); finished
with a trailer that makes a whole stream (`FinishedIsWhole`).  `promised` is inductive
only with the rest, since the same device is opened, read and spoilt again.  No theorem
of the library says what `FlattenSeq` of two sequences together is, so `SequenceFacts`
shows that its recursive function exists and what it says of longer sequences.

**`CodeCvtProofs`**.  The loops of `code_cvt` are recursive functions, and neither that
they exist nor what they compute comes from the library.  `RecursionEnds` of `SequenceFacts` unfolds a
function whose argument gets smaller by some measure, and `ByMeasure` is the induction
over it, both from a least counterexample; so `InHelper`, `PutMain` and `Meaning` go by
the units or characters left, and `GetMain` by the units of the file not yet decoded
(`FurtherIs`: a round that goes on has decoded some or keeps more of them).  What they
compute is said with `Fronts`: units that say a text, and leave a shift state behind,
whatever comes after them.  Fronts can be put together, so each loop is one of them
(`InHelperIs`, `PutMainIs`, `GetMainIs`), however blocks cut the units and wherever the
kernel fails.  The hard cases are at the seam: a character whose second unit has
not been fetched (`Parted`), what is rejected with a shift before it, and a `t` that
would complete a character of the units before it (`Joins`).  `CountInStep` is not
inductive; `CInv` has in its place that the units up to the kernel's position are
`accu` characters and leave the shift state behind whatever comes after them
(`Counted`), and that a put of a variable-length text starts at the end of the file.

**`FacetCacheProofs`**.  Of `copyable_mutex`, owning the mutex is not enough of an
invariant: two threads of a child may both have found the mutex stale, and the
second would construct it under the first.  The invariant adds that only the
holder of `refresh` is between `check` and `store`, that nobody owns the mutex or
waits for it while its generation is not the process's, and that whoever is in the
middle of a refresh has found it so.

Every step of the facet cache is a step of
the mutex or leaves it alone (`StepsUseMutex`), so the cache inherits the theorem
above instead of repeating its proof.  For what the caches hold, `InStep` says that
list and map agree place by place, where `ListAndMapAgree` counts; each operation of
`lru_cache`, an eviction and a failed allocation included, keeps it.  `CacheInv` adds
what the caches take for granted: a facet about to be inserted is built in full.

**`SequenceFacts`** has the lemmas that these need about the pieces of a sequence:
of two put together, of a slice, of one with an element more or fewer, of one laid
over another, of sequences put together one after the other, and how many elements
there are; and the two lemmas by which a recursive function is unfolded and
induction done over a measure.

Only model-checked, and why:

- the liveness properties `GraphLockReleased`, `OperationsEnd`, `ExitEnds` and
  `CallsEnd`: fairness is out of the prover's reach;
- the properties of the numeric, monetary and time facets.  Each compares two long
  algorithms, folds over a text in one direction and over a format or a pattern in the
  other, and the induction over its length has to be made by hand for each of them, as
  it is for `code_cvt`.

## 6. What is not modelled

- **ctype, collate, messages**: tables, and calls of the C library.  So are the strings
  that `monetary_conf` and `numeric_conf` take from `lconv`, constants of `Monetary` and
  `Numeric`, and the tables of `timeio_conf` with the rewriting of their patterns
  (`expand_and_filter`), constants of `TimeIo`.
- **`hash_cvt`, `chacha20_cvt`, `code_cvt_stdio`**.  Each is another derived class of
  `abs_cvt`; the layer's discipline is checked with `vigenere_cvt`, `code_cvt` and
  `zlib_cvt`.  What deflate, inflate and Botan compute is theirs.
- **The root converter without a buffer, file devices**.  Their contract
  is the assumption of `RootCvt`.
- **One-way channels and converters**.  Subsets of the two-way ones, with calls
  that do not exist.
- **Copying and moving whole converters and states**.  Member-wise; copies of
  *streams* matter to the tie graph and are modelled there.
- **Typed output**.  What is hard in it is the sentry, in `TieFlush` and `StdOut`, and
  the fields, in `Numeric`; `put` and `write` are one call on the channel.
- **Callbacks and `pword` of `ios_base`, `sing_temp`, `prefix_tree`**: planned.
- **Windows backends**.  The contract of the posix one over other calls.
- **Locales, traits, manipulators and compile-time composition**.  Immutable, or no
  state at all.

## 7. Plan

Done, in this order: the tie graph and its proof; stream state; the buffered root
and the file specification; the tie flush; the channel; the layer; standard output
and input; the facet cache; then `code_cvt`, the typed input, the numeric, the
monetary and the time facets, the mutex that survives a fork, with its proof,
`zlib_cvt`, and the root over memory.

Next modules:

1. `FileDevice`, as an implementation of what `RootCvt` assumes, and
   the unbuffered root, whose partial write cannot be taken back.
2. `CodeCvtStdio` above `StdIn`.
3. The longest match of `prefix_tree`.
4. `Callbacks`: `access_callbacks()` with callbacks that fail or come back.
5. `SingTemp`: counting the initialisers.

Next proofs: `FieldsReadBack` and `TextDenotes` of `Numeric`, whose scans can be unfolded
as the loops of `code_cvt` are.
