# Verification of Infiltrator-Libraries

TLA+ models of the parts of this C library that keep state across steps:
durable files, the policy documents stored in them, the merged catalogue of
calendars and clocks, the date provider, clock presentations, fixed-step
scheduling and the descriptors of path walks, readers and transfers; and of the
arithmetic they rest on: clock faces, deadlines, checked integers, big integers
and decimal text. TLC checks the models on small instances; TLAPS proves all
of their invariants but one for every value of the constants.
`PROJECT.json` relates every definition to the lines it models, every property
to a run and to a mutation of the code that breaks it, and lists the hazards.

Contents: [the system](#the-system), [modules](#modules),
[runs](#runs-and-bounds), [proofs](#proofs), [findings](#findings),
[what is left out](#not-modelled), [plan](#plan).

## The system

The library is a portable C core with POSIX adapters (`docs/ARCHITECTURE.md`).
Most functions are pure; the state is in few places.

| Component | State | Operations | What is hard |
|---|---|---|---|
| Durable files, `posix.c` | a target name, its directory, temporary files; per call: descriptors, a drawn name, a mode, a failure | `infiltratr_atomic_file_write`, `infiltratr_unlink_durable` | concurrent calls of several processes, every system call may fail, death, power loss, the parent directory being renamed |
| Catalogue, `temporal_runtime.c`, `temporal_resource.c` | one atomic, two growing arrays, files on disk | `infiltratr_temporal_installed_*` | first use by several threads without a lock, pointers handed out for good, packages changing during the scan, failing scans |
| Date provider, `temporal_calendar_posix.c` | the module in use, one missing identifier, a time | `infiltratr_temporal_posix_format_date` | files replaced between scan and opening, the retry limit, time near the end of its range |
| Time arithmetic, `timing.c` | an accumulator in a loop | `u64_product_divmod`, `infiltratr_cycle_partition_u64` | 128-bit products in 64 bits |
| Fixed step, `timing.c` | configuration, last sample, phase | configure, reset, advance | drift over long runs, clamping, clocks that go backwards |
| Clock faces, `temporal_clock.c` | none; the instant, the place and the sky decide | dials and durations of 24 modes | dial and duration are separate code; dawns and dusks searched over days of different lengths, or missing; calendar arithmetic |
| Resource modules, `dynlib.c`, `temporal_calendar.c`, `temporal_clock_resource.c` | loaded objects and pointers into them | open, bind, format, free | lifetime, files replaced while loaded, failing `dlclose`, partial binding |
| Policy store, `temporal.c`, `temporal_posix.c` | a document on disk | parse, migrate, serialise, load, save | schema versions, rejected documents, crashes while saving |
| Exact I/O, `posix_io.c` | descriptor and offset | `read_full`, `write_full`, `pread_full`, `pwrite_full` | partial transfers, threads that share a descriptor, the last offset |
| Paths and text files, `posix.c`, `posix_read_internal.h` | the process's table of descriptors | `mkdir_parents`, `read_text_file_ex`, `read_alloc`, deadlines | ownership of descriptors, files that change, truncation, overflow |
| Arithmetic, `arithmetic.c`, `core.c`, `timing.c` | none | checked and saturating operations, `array_reserve`, big integers, `parse_double`, deadlines | numeric edges |
| Formats, quantities, graphics, design, i18n | none | pure functions | wording, floating point |

Components interact by calls: the date provider and the catalogue both scan with
`infiltratr_temporal_resource_scan_directory`; the policy store saves with
`infiltratr_mkdir_parents` and `infiltratr_atomic_file_write_bytes`; the
fixed-step scheduler and the clock partitions divide with `u64_product_divmod`.
A clock presentation scans the directory of clocks as the catalogue does, and loads
what it found with `dynlib.c`; `read_alloc` grows its buffer with `array_reserve`; the
clock dials divide with `infiltratr_cycle_partition_u64`.
The only callbacks are the writer of an atomic write and the scan's visitor; the
only shared memory is the catalogue and, in the kernel, the table of descriptors.

What makes each correct: a target is always one complete version and zero means
durable; what a caller was told by the catalogue stays true and nothing installed
is missing from it; a date never comes from another calendar; arithmetic is exact
or refused; no step and no tick is lost; what a user chose is what every program
loads, whichever version of the schema it was written in; a dial and a stopwatch of one
mode agree and neither goes back; what is shown comes from the mode that was asked for;
a call closes its own descriptors and no others; bytes go to their place once.

## Modules

| Module | Models |
|---|---|
| `DurableFile` | abstract specification: one target per directory, versions that take effect in one step, success only when nothing older can return |
| `AtomicFile` | the two functions of `posix.c`, one action per system call, and the file system they use |
| `AtomicFileInvariant` | the inductive invariant of `AtomicFile` |
| `AtomicFileProofs` | its types, safety and the implementation of `DurableFile`, proved |
| `TemporalCatalogue` | first use, both directory scans, merging and the six `installed_*` functions |
| `TemporalCatalogueInvariant`, `TemporalCatalogueProofs` | its inductive invariant and proofs |
| `DateProvider`, `DateProviderProofs` | the provider and `open_id`; their proofs |
| `ExactProduct` | the division of a wide product as the machine computes it |
| `FixedStep`, `FixedStepProofs` | the fixed-step scheduler; exactness of its step count proved |
| `PolicyDocument` | parsing, migration and serialisation of policy documents, as operators |
| `PolicyStore`, `PolicyStoreProofs` | `policy_save` and `policy_load` on a file that is a `DurableFile`; their proofs |
| `SolarSky` | dates, solar time, sunrises and sunsets of an abstract sky |
| `ClockReading`, `ClockDuration` | the dials and the durations of every mode |
| `ClockFace` | a face that time passes under; what dials and stopwatches must satisfy |
| `ClockPresentation` | consumers select, show and free clocks over `dynlib.c` |
| `ClockProofs` | proofs about the faces and the presentations |
| `MachineIntegers`, `CheckedArithmetic` | integers of a width; `arithmetic.c` and the unsigned helpers of `core.c` |
| `Deadlines` | periodic deadlines, timespecs, remaining times |
| `Arithmetic` | the arguments that these, `ExactProduct` and `BigNumber` share, and what is claimed of them |
| `ArithmeticProofs` | all of these proved exact at every width, the big integers with any number of limbs |
| `BigNumber`, `DecimalNumber` | the big integers of `core.c`; `infiltratr_parse_double` on them |
| `DescriptorTable` | the descriptors a process shares among its threads |
| `MakeParents`, `TextFile`, `ExactIO` | `infiltratr_mkdir_parents`; the readers of text files; the four transfers |
| `PosixFiles`, `PosixFilesProofs` | the composition of these three over one table; its proofs |
| `MC...` | the instances TLC checks |

### AtomicFile

A call is a process of its own: `pc` is the system call it is about to make, and
`dir`, `temp`, `mode`, `anchored`, `failed` are the locals of
`infiltratr_atomic_file_write` (670-740). The actions follow the source:
`OpenParent` (`atomic_open_directory`), `SampleMode`
(`atomic_completed_mode_at`), `CreateTemporary` (`mkostemp`, which resolves the
parent path a second time), `VerifyTemporary`, `SetMode`, `RunWriter` (the
callback), `FlushStream`, `SyncFile`, `CloseStream` (`atomic_finish_stream`, which
closes after a failure too), `Rename`, `SyncDirectory`, `Cleanup`, `CloseParent`;
`UnlinkEntry` is `infiltratr_unlink_durable`. Each has a branch for the failure of
its call and goes where the `goto` or the early return goes.

The file system is external. Every entry and every file has a volatile value and
the set of values a power loss may leave. `fsync` empties that set; a power loss
picks from it, independently for every item, so a rename may survive data written
before it. `Die` ends one process, `MoveParent` makes the parent path name another
directory or none. Contents are abstracted to partial or complete, permissions to
owner-only or wider. A file is named by the writer that made it, a removal by the
unlinker.

One assumption is about chance: `mkostemp` draws from 62^6 names, and the model
lets it draw any free name except one whose writer has just renamed it away and not
yet returned (`JustReleased`). Without it, a writer whose directory sync failed
could unlink a stranger's temporary file.

### TemporalCatalogue

Threads call one of the six functions (`Call`), test the atomic
(`CheckReady`), try the compare-exchange (`TryBegin`) and either spin
(`StopWaiting`) or scan: `ListEntry` is one `readdir`, in any order; `Inspect` is one
candidate of the sorted list, loaded, validated and appended by the visitor, with
the doubling of the array; `FailScan` is any of the failures that make the scan
return false, after which the family is emptied; `MarkReady` is the release store.
`Read` reads the arrays and answers. `ChangeDisk` installs, replaces or removes a file
at any moment. A module is abstracted to the identifier and the kind in its
metadata, a pointer to the generation of the array it points into. The inspection
of a file is one step because only one thread works on the arrays: `Exclusive` in the
invariant shows that it is so.

### DateProvider

One thread calls with one identifier after another. `Call` is `ensure_module` up to
the search, with every early return; `Scan` is `capture_calendar_path`'s scan, `Open`
the opening of the path it found, with the comparison of the identifier, and the
rest of `ensure_module`. `Tick` and `ChangeDisk` happen between any two of them.

### ExactProduct and FixedStep

`ExactProduct` is the doubling loop of `u64_product_divmod`, every sum and product
taken modulo `Max + 1`; `units_until_next` is the boundary of
`infiltratr_cycle_partition_u64` from the same remainder. `FixedStep` has the three
functions of the scheduler as actions and uses quotient and remainder as
`ExactProduct` shows them to be; the histories `used`, `clamped` and `due` add up what
the updates reported.

### PolicyDocument and PolicyStore

A document is a sequence of lines, each what `infiltratr_config_parse_line` makes of it.
The three readers of `temporal.c` are one fold (`Read`) over the same conditions
(`Accepts`); they differ in their keys, in whether a key may come twice (`MayCome`) and in
whether all must come (`Parse`). Coordinates are integers on a grid finer than what six
decimals can print, so that `Printed` rounds as `infiltratr_format_fixed_ascii` does.

`PolicyStore` composes them with `DurableFile` in place of `AtomicFile`, which
the theorem `Implements` justifies. A save is `Serialise`, `MakeDirectory` where
the directory is missing, `Store` and `EndSave`; a load is `Open`, from which on it reads
one version, and `Return`. `Edit` changes the file by hand, `PowerLoss` restores what
`DurableFile` allows, and `LoseDirectory` takes the directory away: `infiltratr_mkdir_parents`
syncs nothing, and the sync of the atomic write is that of the directory's entries, not of
its own entry in its parent.

### Clock faces and presentations

`SolarSky` abstracts the astronomy: a sky is how far the place is ahead of UTC, a twilight,
an equation of time and half a day's light. The last two depend, as in `solar_terms`, on gamma
alone, and gamma is the code's (`gamma`): the day of the year and the time of the day over a year of 365 days.
So it grows through day 366 and jumps back by a whole day at the midnight after it. What the code's
cosines make of gamma is a wave of straight lines (`Wave`), of the rate a sky has at new year. A
half day below 0 or above half a day is a polar night or day, without a sunrise. What is searched for in the sky
is the code's: the noon of an instant (`NoonOf`), the five days around it, the latest
boundary that has passed (`solar_origin`, `seasonal_progress`). `ClockReading` has one
operator for every mode of `format_clock_mode`, `ClockDuration` one for every mode of
`infiltratr_temporal_format_duration_mode`; both give the fields, not their wording. Civil dates
(`GregorianDate`) are the era arithmetic of `gregorian_day_of_year`. `ClockFace` lets time pass,
microsecond by microsecond or day by day, and compares.

Of the long doubles one matters to what is claimed and is kept: a Julian date (`julian_date`) is rounded to
`DateGrains` to the day, 2^42 in the 64 bits of the x86 format between the years 1030 and 6770, and its ticks are cut
with a slack of 1.0e-10, one of `SlackParts`. Where the rounding goes down at the end of a tick and the slack does not make up for it,
the dial is late. At 86 400 000 microseconds after the epoch the code shows JD .501 and MJD .001 without the seconds, but
.50099 and .00099 with them, where the stopwatch has .00100; a microsecond later it shows .50100 and .00100. Never is it late by more
than that microsecond. The quotient is rounded once more before the epoch is added, more finely, which is left out.
A long double of 53 bits, as some compilers have, is not meant: its grains are longer than a microsecond, which
`PrecisionAssumption` excludes. The other long doubles are exact integers over a common denominator.

`ClockPresentation` is `infiltratr_temporal_clock_presentation_new`, `_format` and `_free` with
the scan (`Inspect`, `Leave`, `EndOfScan`, `FailScan`), the opening by path
(`OpenFound`), the binding of both symbols (`Bind`) and the release. The loader is external:
it counts handles per path and gives a loaded image again, whatever the file holds by then.

### Integers, deadlines and decimal text

Operators, one for each function, and next to them what they promise (`SignedIsExact`,
`AdvancesToNext`, `ScalesExactly` ...), in unbounded arithmetic. `DecimalNumber` uses plain integers where
the code uses limbs, which `BigNumber` shows to be the same; digits kept, orders and
the binary format are constants.

### Descriptors

`MakeParents`, `TextFile` and `ExactIO` have one action per system call and share
`fds`: an open takes the lowest free number, as POSIX says, so a number that is given back is
soon another's. `ChangePath` and `EditText` are other programs. A close may fail
anywhere; the number is free all the same, as on Linux (`Closes`). An interrupted system call
changes nothing and is left out. `PosixFiles` puts a walk and a reader, or the threads of
a transfer, in one process.

## Runs and bounds

| Run | Instance | Shows |
|---|---|---|
| `atomic_file` | two writers (one private, one preserving permissions), one unlinker, one directory, two interchangeable names, every call may fail | a whole target at every moment, durable success, no leftovers, private stays private; `DurableFile` is implemented |
| `atomic_file_moved` | two writers, two directories, the path moving between them or away, one name for both, three kinds of faults | a writer publishes and removes its own file only |
| `catalogue` | two threads, a clock file of two of which one changes; or one thread and all directories of three calendar files with duplicates, compiled identifiers and broken files; arrays that start with one entry | answers stand, modules are listed, once and in file order, every call returns |
| `date_provider` | two files, two calendars, an overlong identifier, a minute of two ticks, time to the last but one value | no substitution, refusals are recent, one search a minute for one consumer |
| `date_provider_retry` | the same without one of the calendars | violation: see [findings](#findings) |
| `arithmetic` | all arguments at five bits; seconds of three milliseconds of two nanoseconds, time to 15 seconds; all big integers of three two-bit limbs; decimal text of up to five digits of which three are kept, in a binary format of two bits | exact products, sums, deadlines and quotients, refusal only where real, text to the nearest number |
| `fixed_step` | integers to 20, rates with and without common divisors, clamps that bite | no drift, no lost tick, no refused update |
| `policy_store` | two saves of five policies, two of them storable, over files of all three versions or none; one edit that adds, replaces or removes any line, or empties, removes, oversizes the file | the choice is kept through migration, rounding and reloading; loads are not older than finished saves; no document is half believed |
| `policy_ids` | one save | violation: see [findings](#findings) |
| `clock` | ten skies, days of 192 microseconds: four skies for four days, seven around the end of a leap year for two, every instant; 1898-1901, 1999-2001, 2098-2101 and the years -2 to 2 day by day; at one instant two consumers and two module files | dial and duration agree and run forward, fine fields extend coarse ones (Julian ones within a microsecond), every day once; no clock shows another's text, no handle is lost but by a failing `dlclose` |
| `posix_files` | three directories and one change by another program, beside a reader; a buffer of three bytes and every text of up to four, two edits; a sequential and a positioned thread, three bytes, offsets to 4 | descriptors are owned, a path made is there, text is told truly, bytes go to their place, every call returns |
| `posix_files_close` | the first of these | violation: see [findings](#findings) |

Why the bounds suffice. A target is disturbed by one call at a time: two writers
and an unlinker give every pair of different calls and a third party; two
directories are what a writer can confuse, and one name for both writers makes
every collision happen. With two threads one scans and one waits, and a third does
what the second does. Array capacity 1 makes the second entry move the array. Three
files give a duplicate before, between and after others. Five-bit words reach every
branch of the loop, both overflows included. In `DateProvider` a minute of two
ticks has an inside, and time may end less than a minute before `UInt64Max`. Two saves
can install in one order and return in the other, and one can run into the other's
directory; one edit doubles or removes any field. To keep that instance small, an edit
comes with at most one save begun, and saves are interchangeable (`SYMMETRY`). In `clock`
a second has two microseconds, a minute two seconds and an hour two minutes: the mixed
radix and every ratio between fields remain, and a day can be read at each of its 192 instants.
The skies have days that lengthen, shorten or stay, and places almost half a day from UTC. In the window around
1 January 1973 a polar day and a polar night begin or end, and a twilight begins to last all night, within instants that are read, the Sun
rises just before the midnight at which gamma jumps, and one of the ordinary skies goes through the jump. A day there has 256 grains for
192 microseconds and a slack of a 48th of a tick: both dials of a Julian date are late at some instants, together or the fine one alone, as in the code. The century years test all
rules of the calendar. Five digits of which three are kept have a discarded tail that
breaks a tie; three limbs fill up. Three directories give the walk a first, a middle and a last
step; four bytes of text are one more than the buffer of three can tell. The
theorems do not depend on these bounds.

`CHECK_DEADLOCK FALSE` is there where the system stops: calls that return and are not
made again, a function of fixed arguments, a window of time that ends.

`clock` excepts what the code does by design. The Great Clock of Nuremberg changes its
hours at midnight UTC of a fixed day and jumps by half an hour there (`Reallotted`). The
Roman and the Edo durations round their smallest field, and are left out of
`CoarseIsTruncated`. Where a day has no sunrise the mode shows nothing (`NotAvailable`),
and a duration is refused. The dials that count from sunset or sunrise may show 24 hours and more, or 60
ghaṭīs, on a day longer than the one before. At the end of a leap year gamma jumps back by a day
(`temporal_clock.c:231-233`): in high latitudes, where the Sun changes much in a day, the dials of the unequal hours, of the Great Clock and of
apparent solar time may go back at that midnight. `ClocksRunForward` lets them do so there and only there, and only to what they
showed a day before (`SunRepeats`, `IsAsYesterday`). Elsewhere an unequal hour may not leave its day or its night but for the
first hour of the other (`SamePeriod`). `SeasonsAgree` compares the unequal hours of the dial, which go by the Sun of the instant,
with those of the interval since dawn, which go by the Sun of two noons. They agree at some instant within what the Sun
changes in a day and a half (`Lag`): exactly in the skies that do not change, and within a few microseconds in those that
do. `temporal.h:225-231` calls the ancient Babylonian
duration seasonal; the code counts equal bēru, and so does the model.

**Fairness.** Two properties need any. For `CallsReturn` of the catalogue, weak fairness of
`Proceed(t)`, one thread's steps inside a call: the waiting loop, on POSIX, spins on an atomic
load (`catalogue_wait_until_ready`, `temporal_runtime.c:97-108`) and holds nothing the scanning thread needs, the scan is a finite loop, so a scheduler that runs
every runnable thread is enough. Nothing is assumed about new calls or about the
disk. A scanning step may fail or succeed; both end. For `CallsReturn` of the
descriptors, weak fairness of each thread's next system call (`Fairness`), which includes that
a call is not interrupted for ever, and no transfer is made to fail; a file that grows faster than it is read is out of
the bounds.

## Proofs

All theorems hold for any sets of calls, threads, consumers, files, names, modules and
documents, any word width, path, buffer and transfer. The assumptions on the constants are
named in the modules, and every run evaluates those of its modules:

| Assumption | Says | Because |
|---|---|---|
| `CallAssumption`, `CatalogueAssumption`, `ProviderAssumption`, `StoreAssumption` | sets are disjoint where the code tells their members apart | a call is not a file, a save not an edit |
| `PresentationAssumption` | finitely many consumers, no file or image stands for none | they exist in a process |
| `WidthAssumption`, `OverflowAssumption`, `DeadlineAssumption`, `SchedulerAssumption` | integers have a width, units of time divide each other, the answer for an overflow is no time | the types of C |
| `ClockAssumption`, `UnitsAssumption`, `FaceAssumption` | units of time and the ticks of the dials are positive, the least unit of the Babylonian dial is a microsecond or more; instants, and how far a place is ahead, are numbers | the constants of `temporal_clock.c`; `int64_t` |
| `PrecisionAssumption` | a tick of a Julian date is more than one microsecond, in whole ones; the rounding of the date and the slack are less than one together; the grains of half a day are whole | 86.4 or 0.864 seconds; 2^42 grains to the day, a slack of 1.0e-10 |
| `BigAssumption`, `RefusedAssumption` | a limb has bits and a number has a limb; no number stands for a refusal | `InfiltratrBigUInt`; a boolean is returned beside the number |
| `ArgumentsAssumption` | capacities are words, instants are normalised | `size_t`; a `timespec` that the kernel or the library made |
| `DocumentAssumption`, `DataAssumption` | words include the ones the code compares with, the limits of coordinates are multiples of what is printed, files hold lines | the literals of `temporal.c`; 90 and 180 degrees |
| `DescriptorAssumption`, `TextAssumption`, `MakeAssumption` | descriptors are numbers, a buffer has room for a byte and its NUL, depths are numbers | `posix.c:368` |
| `ContentsAssumption` | byte i of a text is marked i | names the bytes, so that a misplaced one is seen |
| `TransferAssumption`, `ThreadsAssumption` | the file is within the offsets; at most one thread uses the position of the descriptor | two threads that share a position are not promised anything |

The arguments, module by module:

- **AtomicFile.** `TargetComplete` is not inductive: that a rename publishes a
  complete file rests on the name still holding the writer's own file
  (`OwnEntry`), which rests on its file having one name only (`Traces`) and on the
  flag that guards the cleanup (`Control`), and on flush and sync having come first
  (`StoredFirst`). `Supersedes` carries durability: what a call replaced is older than
  every later change, and the directory sync discards it. `ModesInherited` says that
  a readable file descends from a readable target, modes on their way included.
  The conjunction (`IInv`) is inductive, one lemma per part, and six properties follow.
  `Implements` maps each step to one of
  `DurableFile` or to a stutter: rename and unlink install, the directory sync
  persists, the last step succeeds or fails. A version is mapped to itself only if it
  is whole, so the theorem also says that no torn version is ever installed.
- **TemporalCatalogue.** `Exclusive`: in state initialising exactly one thread works,
  in the others none does, and no thread reads before ready. From it the arrays do
  not change once anybody has an answer (`AnswersStand`). `Coverage` says what each
  point of the scan has passed, and becomes `InstalledIsListed` at publication.
  `InFileOrder` needs a witness that grows along the scan: `Ordered` says that there is one
  (`Placed`), that all that waits to be inspected comes after it, and that a family
  has no entries before its scan (`Filled`).
- **DateProvider.** `SlotsAgree` ties the four fields of the provider to one search;
  the other properties follow from it step by step.
- **ExactProduct.** `LoopInvariant`: accumulator plus factor times addend is the product,
  both remainders below the divisor. Exactness follows when the factor is zero.
  `OverflowAlwaysReal` needs that a pending addend is at least once still to be added.
- **FixedStep.** The four invariants of the run are inductive together (`IInv` of
  `FixedStepProofs`): phases are exact remainders, hence below the rate, and since the
  step rate is not above the tick rate no update overflows.
- **Arithmetic.** Guards that divide are equivalent to the products they guard
  (`GuardIsExact`, and with signs `SignedGuardIsExact`); from them the exactness of every checked
  and saturating operation, the boundary a periodic deadline moves to, whose sum and
  product saturate on the way, and the milliseconds a sleeper waits, rounded up through a
  borrow. `array_reserve` doubles in a recursive function: that the recursion has a value
  (`GrownExists`) and ends at the size required or above (`GrownIs`) is shown by induction on sets of
  numbers, since the code stops at the last doubling that does not overflow. `CheckedAlwaysExact` and
  `DeadlinesAlwaysNext` collect all of it as the invariants that the run `arithmetic` checks at
  five bits.
  The limbs of big integers are loops with a carry: each is a recursive function over the limbs passed, and one lemma
  (`RecursionExists`, by induction on sets of numbers) gives all of them their values. Powers of two are such a function
  too (`TwoToIs`). Product (`ScaledIs`), shift, halving (`HalvedIs`) and difference (`SubtractIs`) then are
  inductions over the limbs passed, each with what is carried as part of the hypothesis; the comparison goes by the highest limb
  that differs (`LessIs`), and a quotient by induction over its bits (`StepsDivide`). `BigAlwaysExact` collects them.
- **ClockPresentation.** `PresentationInv`: the loader's count of a file is the number of
  consumers that hold it plus the handles lost (`Balanced`), and a consumer that is ready
  has loaded what it asked for (`Stands`). A file may change while others hold its image, so
  both are needed to show that nobody sees another clock's text.
- **ClockFace.** Fine and coarse fields come from different numbers of ticks: that a quotient of a
  quotient is the quotient by the product (`TwiceDivided`) makes the fine ticks, cut short, the coarse ones
  (`TicksAreTruncated`), and `CoarseAlwaysTruncated` follows mode by mode. A Julian date that is rounded by half a grain at
  most has the day and the phase of the exact one (`GrainIs`), and of its ticks as many are gone as at the exact instant or one fewer,
  the latter only at the end of a tick (`FractionIs`). So a Julian dial shows what a stopwatch shows of an instant that is its own or a
  microsecond earlier (`JulianIs`); where the coarse one is late the fine one is (`LateTogether`), and a microsecond later neither
  is (`NextIsNotLate`). For the dates, every day is
  a day of a March year of the fours of a century of an era (`IsMarchDate`, `MarchDateExists`), the era arithmetic
  finds exactly that one (`MarchDateIs`), and `MarchDayAfter` says what the next day is, the leap day being the last
  of its March year. The Great Clock's thresholds ascend, so that one day passes one of them at most (`HoursChange`).
  `MidnightDialsMatchDurations`: part of a sum may be reduced to a day before the sum is (`SumReduced`), so that the phase of
  each dial is the time since its midnight, and less than a day has no whole days (`WithinDay`); for the modified Julian dial it is `JulianIs`. `EqualUnitsRunForward`: a
  quotient rises with its dividend, and where it stays the remainder rises (`QuotientRises`); cutting a number once or twice
  makes fields that rise lexicographically (`CutsRise`), and a phase grows or is zero again (`NextPhase`).
- **PolicyStore.** `HistoryIsKept` relates what the file may hold after a power loss to the order
  in which versions were installed: not older than any call that was installed, unless that call knows that it
  replaced it and has not returned. `LoadIsNotOlder` follows, since a load knows the saves that had returned
  when it began. `LoadInv` adds that what is installed is not written again. The readers are
  one fold; `SetInduction` over the lines left shows what a fold that accepts has seen (`WhatIsFoundIsSound`).
  `ChosenIsWritten` ties each version to a policy; `SavedIsRead` and `FirstVersionIsMigrated` unroll the
  reader over the documents that the serialisers make, and the rounding of coordinates is
  idempotent (`Printed`), so that a choice is kept through any number of saves and loads. `ChoicesAreKept` takes the
  file before the first save to be read as its writer meant; `SavedFilesAreReadAsMeant` shows that any
  saved file of version 3 or 1 is. No serialiser of version 2 is left in the code: that such files are migrated
  as meant is for TLC, which has them among `Originals`.
- **PosixFiles.** `OwnersInv` says which locals hold which descriptors at which step, so that
  a lowest free number is never one of another call; one state of it (`twice`) is the
  finding below. `PathInv`: what a walk passed stays unless something was removed.
  `TextInv`: the buffer is the beginning of the text while nobody edits, and each answer is what was true of it.
  `TransferInv`: the bytes done lie from the start of the call, and the position of the descriptor
  is that of its one sequential thread, whichever way the parts of others interleave.

Only model-checked:

- the two `CallsReturn`, which are liveness properties under fairness;
- `ParsedIsNearest`: the value of decimal text is made by folds over the digits and compared by powers written with `^`, a symbol
  without laws to the provers; and a proof needs that the digits kept reach every midpoint between two doubles, which is a claim about the
  sizes of the binary format (800 digits, `core.c:312`) that the instance checks for its own;
- of `DialMatchesDuration` and `ClocksRunForward` what depends on the search for a sunrise among five
  days: it is checked in skies that change by a few microseconds a day. In the real one half a day's light changes without bound in the last
  seconds before a polar day or night, as the arc cosine does; that, and an equation of time that rises at new year (the
  code's falls), no sky of the instance has. The dials that count from a
  midnight or an epoch, and the stopwatches of equal units, are proved (`MidnightDialsMatchDurations`, `EqualUnitsRunForward`).
  For `standard-12`, `sidereal` and the Great Clock the dials' part of `ClocksRunForward` is for TLC too.

Quotients in `FixedStep` are written as `\div` and
`%`; that the C function computes them is the theorem of `ExactProduct`, applied by
reading. In the same way `PolicyStore` uses `DurableFile`, and `AtomicFile` implements it. The type
invariants and inductive invariants are not
properties of runs: the theorems say more of them than a run could.

## Findings

When `close(directory_fd)` fails in `infiltratr_mkdir_parents` (`posix.c:321`), the number stays in
`directory_fd` and is closed again at 337. On Linux a failed close has freed the number, so the
second close may hit a descriptor another thread has opened since. There the descriptors are `O_PATH` ones (251-276), whose
close writes nothing and hardly fails; builds with `O_SEARCH` or `O_RDONLY` are the exposed ones. `docs/DESIGN.md:28` says that
the project "treats silent truncation or undefined ownership as defects". `posix_files_close`
shows a reader that loses its file that way; `DescriptorsAreOwned` holds in every other case
(`twice` marks this one).

`include/infiltratr/temporal_posix.h:75-76` says "A missing resource is retried at most
once per minute for the same ID so high-volume consumers do not turn absence into
repeated I/O". The provider remembers one missing identifier. A consumer that asks for
two of them in turn overwrites it every time and scans the directory at every call:
`date_provider_retry` shows the shortest case. What the code does guarantee is
`OneConsumerSearchesOnce`, and, for every consumer, `RefusalIsRecent`.

`include/infiltratr/temporal_id.h:22` says "IDs are lowercase ASCII words separated by
single hyphens." `infiltratr_temporal_id_valid` (33-43) refuses a hyphen at either end
only: `policy_ids` saves and loads a policy whose calendar has two in a row.

Noted and not claimed as faults, since nothing in the repository says otherwise: a write
may fail after its file was published; a writer that dies leaves its temporary file; a
removal repeated after a failed sync reports success without one; asking for a missing
calendar unloads the working one; the first save makes its directory without a sync, so
that a power loss may take the saved policy with it, which `LoadIsNotOlder` excepts.

## Not modelled

- Windows and Apple branches: the same protocols with other primitives.
- What is external and appears only as its effect: the file system, `readdir`, `dlopen`,
  the kernel's table of descriptors, the clock.
- Floating point (`interval_due`, quantities, graphics, the formulas of the sky): beyond TLC
  and the provers. The skies of `SolarSky` stand for what the formulas give.
- In `DecimalNumber`: the sign of the number, white space, and that 160 limbs are enough, which
  is a claim about the real sizes. In `BigNumber`: the refusal of a quotient of more than 64
  bits, which no caller comes to. In `ExactIO`: the check at 114, which no admitted
  offset meets.
- Text, tables and formatting without state (UTF-8 and character classes of `core.c`, `escape.c`,
  `token.c`, `i18n.c`, `design.c`, `format.c`, wording of clocks): the
  repository's tests suit them better.
- Path joining, XDG lookup and `infiltratr_first_readable_path`: string handling.
- Build, packaging, continuous integration.

## Plan

Done, in this order of importance: `AtomicFile` over `DurableFile`, `TemporalCatalogue`,
`DateProvider`, `ExactProduct`, `FixedStep`, `PolicyStore` over `DurableFile`, the clocks and
their presentations, the arithmetic modules, the descriptors.

What is left would be, first, conditions on a sky under which the search among five days finds the last sunrise, and with it the rest of
`DialMatchesDuration` and `ClocksRunForward`; version 2 of the policy documents; that the numeric readers end where
the bounded reader does; and `ParsedIsNearest` over powers that are recursive functions, as those of `BigNumber` are.
