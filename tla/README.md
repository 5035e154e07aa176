# A verification of four computer-architecture assignments

The repository holds four programs written for one course. They share no code,
but three of them are concurrent, and two (Tema3 and Tema4) solve the same task
twice. This directory has TLA+ modules that model them, TLC configurations that
check the modules on small instances, and proofs checked by TLAPS.

Run in this directory: `tlc -config X.cfg M` for the runs of PROJECT.json,
`tlapm M.tla` for the modules `*Proofs.tla`.

## The system

### Tema1: a simulated cluster (Python 2)

| part | state | operations |
| --- | --- | --- |
| `checker.py` Checker | banned threads, threads per node, reports | `register_thread`, `add_banned_thread`, `report`, `status` |
| `datastore.py` DataStore | owner node, registered threads, semaphore | `register_thread`, `get_element_from_a`/`_b` |
| `node.py` Node | bounded request queue, table of nodes, wait thread | constructor, `set_nodes`, `compute_matrix_block`, `shutdown` |
| `tester.py` Tester | results, passed tests, result line, timer | `run_test`, `timer_fn`, `start_test`, `start_node` |
| `tester.py` TestGenerator | random generator | `generate_test` |

The tester cuts two matrices into blocks, gives each node a datastore with its
blocks, and starts a thread per task, which calls `compute_matrix_block` on some
node. That call sends one request per element it needs into the bounded queues
of the nodes that store them, then receives the responses from a queue of its
own. Each node has one wait thread that answers requests from its datastore and
ends at a `None` in its queue. A datastore accepts only threads its node
registered, and a limited number of calls at a time; it reports misuse to the
checker and serves the call anyway. A test passes when all blocks are right and
the checker has no report. A Timer thread guards the whole series of runs.

Hard: blocking on bounded queues between threads, responses out of order and
recognised only by a count, registration racing with requests, shutdown by
poison pill, the race between the timer and the last run.

### Tema2: symmetric matrix-vector product (C)

`main.c` generates or loads a symmetric matrix, computes
`y := alpha * A * x + beta * y` with a plain function, an optimised one and a
library, and compares the results by the distance of their bit patterns. A
matrix file is read by `mmio.c`, a vendored library. Sequential; hard are the
in-place update from half of the matrix, the numeric edges of the comparison,
and files that are not what they say: their errors are noticed late or never.

### Tema3 and Tema4: previews of video streams (C, Cell processor)

A PPU program reads one image of each of 16 streams per frame; SPUs scale them
to a quarter of their width and height and store them, by DMA, side by side in
one big image, which the PPU writes to a file. PPU and SPUs talk through
mailboxes (4 entries inbound, 1 outbound) and events.

* Tema3 `ppu/paralel.c`, `spu/paralel_spu.c`: SPU k does stream k; a BEGIN
  message and a FRAME_DONE event per frame. `serial/serial.c` is the same
  without SPUs. `pnm.c` reads and writes the images.
* Tema4 `ppu.c`, `spu/spu.c`: the PPU deals the addresses of the images round
  robin; an SPU takes its share, works it off in one of four modes (simple, two
  lines, double buffering, DMA lists) and sends one event. A zero ends it.

Hard: DMA commands complete in any order and only a wait on their tag tells;
events are counted, not attributed; mailboxes are small; lines are not aligned
as the DMA requires; files come in pieces, end early or cannot be written, and
then the program exits with SPUs at work.

## What makes each part correct

* DataStore and Checker: the semaphore is exact, every illegal access is
  reported, a silent checker means clean registrations once they are checked.
* Cluster: every element reaches the place it was asked for; no request or
  response is lost or doubled; the nodes never give reason for a report;
  shutdown strands nothing; the test ends, and passes.
* TestGenerator: every task lies in the matrix and goes to a node there is.
* run_test: one result line, the right one, and always an end.
* Tema2: the loaded matrix is symmetric, and a well-formed file's; the
  half-matrix pass computes the whole product; the comparison means nearness.
* Tema3, Tema4: each frame's big image is written once, whole (in Tema4's mode
  double but for one line of each thumbnail) and of that frame only, until the
  last frame or an error; no buffer or image is used while a transfer or another
  program still needs it; every transfer is one the hardware accepts; both
  programs scale alike.

## Modules

| module | models | refines / composes |
| --- | --- | --- |
| Checker | `checker.py`, one action per method | |
| DataStore | `datastore.py`, one action per critical section | extends Checker |
| Cluster | `node.py` and `Tester.start_test` | extends DataStore and uses its actions |
| TestRun | what a submitter of tasks is promised | implemented by Cluster, which has the refinement mapping |
| MCCluster | an instance of Cluster | extends Cluster |
| TestGenerator | `TestGenerator`: test files, random tests, tasks | |
| RunTest | `Tester.run_test`, `timer_fn` | extends TestGenerator, whose steps come first |
| MCRunTest | the test files of an instance of RunTest | extends RunTest |
| SpuImage | the four `process_image_*` of Tema4's `spu.c` | |
| Preview | what the serial and both Cell programs promise | implemented by Serial and Paralel (in MCParalel) and by CellPreview |
| Pnm | `pnm.c`: images, their files, `read_pnm`, `write_pnm` | |
| Serial | `serial.c` | extends Pnm and completes its main program |
| Paralel | `paralel.c` and the frame protocol of `paralel_spu.c` | extends Pnm and completes its main program |
| MCParalel | either program of Tema3, the refinement mapping | extends Serial and Paralel |
| CellPreview | `ppu.c` and `main` of `spu.c` | |
| StoreLine | the DMA layout of `paralel_spu.c` | |
| Scale | the arithmetic of scaling, Tema3's against the serial one | |
| LoadMatrix | `load_matrix`, `generate_matrix`, and what `mmio.c` does for them | |
| Dsymv | the products of `main.c` | extends LoadMatrix, whose matrix it multiplies |
| FloatCompare | the comparison of results | |
| DataStoreProofs, ClusterProofs, RunTestProofs | theorems about Tema1 | each extends the module it is about |
| DsymvProofs | theorems about LoadMatrix and Dsymv | extends Dsymv |
| ParalelProofs | theorems about Pnm, Serial and Paralel | extends MCParalel |
| ArithmeticProofs | theorems about StoreLine, Scale and FloatCompare | extends all three |
| SpuImageProofs, CellPreviewProofs | theorems about Tema4 | each extends the module it is about |

Definitions carry the names of the functions and variables they model where
they can; `map` in PROJECT.json gives the lines. Operators introduced by a
comment `Mutant:` stand next to the definition they distort. No specification
uses them: they are put in its place to see that a property notices.

### Tema1

A thread is a program counter. `call[th]` in DataStore says where in a datastore
call thread th is: between the checker's registration and the datastore's,
registered and not yet checked, before the semaphore, or asleep with a unit of
it. `register_thread` has three critical sections, and is three steps
(`BeginRegister`, `FinishRegister`, `CheckRegister`): between the last two a
thread of any node is in a datastore's set while the checker has heard nothing,
and `SilenceMeansClean` leaves out just these threads (`Unchecked`). In DataStore any thread may call any datastore in any node's
name. In Cluster only the nodes' wait threads call, through the same actions.

In Cluster a matrix element is the triple of its matrix, row and column. So a
value that lands in a wrong place is seen whatever the numbers are, and a block
is right when all its factors are (`ResultCorrect`, for `check_result`). A task
is `sent` requests into the order in which the nested loops send them
(`Wanted`); its block is computed in one step, which touches nothing shared.
`set_nodes` for all nodes is one step because no thread looks at the tables
before the loop over the nodes is over. The main thread's `current_thread` and
the tasks' threads are banned in the checker as in the code.

TestGenerator's `params` are those of a line of the file or of the random
generator. Tasks are drawn one after the other; what `randrange` returns for one
does not depend on the others, so only the last task is kept, with the set of
nodes that have one (`assigned`). An exception is `gen = "raised"`, a call of
`os._exit` is `gen = "exit"`. `TasksFit` is what Cluster takes for granted.

RunTest keeps of `start_test` that it returns, having passed or not, or never
does, or raises: where the number of nodes is zero or a task's node is past the
list of nodes (`Raises`). The two reads of `passed_tests` in `timer_fn` are two
steps.

### Tema3 and Tema4

In Pnm a byte of an image is the stream, frame and place it comes from, so a
byte in a wrong place is seen whatever its colour. `main` is the step of the
main program, `io` that of `read_pnm` or `write_pnm`. A file is a record of what
the reader looks at; `Files` has a good one and one for each check the reader
makes, and each time a file is opened it may be any of them. A call of `read` or
`write` takes any part of what is asked for. `Exit` is
`PRINT_ERR_MSG_AND_EXIT`. `Thumbnail` gives the right bytes only for an image
that is there, and whole; the arithmetic is Scale's. Serial and Paralel have
what the two programs do between the reading and the writing: Serial copies the
thumbnails line by line (`create_big_image`), in Paralel each SPU stores its
own, at the addresses of `store_line`, in one step, because `store_line` waits
for all of its transfers and StoreLine looks at them. Memory that is not
allocated is `NoImage`. With fewer usable SPEs than streams, Preview's `served`
are the streams that have one.

CellPreview knows a picture by its frame; memory not allocated, or not filled,
holds 0. Reading or writing of an image is one step, which may end the program:
the functions are those of Pnm. Scaling an image is one step too; SpuImage looks
at it, and shows what mode double leaves behind: the put of an image's last line
but one, its late line, may be pending when the SPU goes on (`pending`,
`Transfer`). The waits for the next image's lines include it, if the images are
all of one height and have two lines to put at least; that of the last image of
a share may be pending when the PPU writes the file (`FrameQuiescent`). Whenever
it is put, the buffer it comes from may have been freed before, so in mode
double Preview is promised of the other lines only (`Sure`). A put is taken for
over when the big image is freed. A failing `spe_event_wait` is counted as the code counts it, and
afterwards the PPU waits for an event that never comes (`WaitsForever`).

In SpuImage `mode` is the mode the program was started in, and `mfc` is the set
of DMA commands issued and not executed. `Transfer` executes any of them at any
time: what it reads or writes is what is there then, for a list command the
list's elements as they are then (`in_list`). The modes differ in how many
scaled lines one get brings the lines of (`Batch`), in what they wait for, and
in which lines they make at all (`Made`); each is the disjunction of its steps.
After `free_align` the buffers may hold anything, and the next image's
allocation may give the same memory another name: after the one mode that leaves
a put pending, `FreeBuffers` lets each buffer become garbage or what the other
one was.

StoreLine has the bytes of the big image, each known by the SPU, line and place
it came from; a line is 16 * x + 4 bytes, as the code requires
(`paralel_spu.c:83-96`), and not longer than the 16 KB the MFC moves at once. The buffer of the scaled line is taken to be as long as
a line; the code allocates less (`paralel_spu.c:226`), see the hazards.

Scale has one channel of one square of 4 by 4 pixels, averaged in place as in
`compute_lines_average`; the overrun of that function's last loop is in it.

### Tema2

LoadMatrix chooses what a read from the file brings when it is read: the
banner's words, the sizes, the elements. Where the program goes on with
variables nobody has set, or writes outside the matrix, it ends in
`load = "undefined"`, and where the loop over the size line never ends
(`mmio.c:208-214`), in `"forever"`. Rows and columns may be any of `Numbers`,
in the matrix or not: the code looks at neither (`mmio.c:77-79`,
`main.c:104-107`). `file` has what the file lists and ends where it ends;
elements read past that are what the arrays held, which may be anything too.
`LoadedAsListed` says what is left: the matrix is symmetric whatever is listed,
since an element that is not in the matrix either leads outside its memory or,
of row 0 and the column after the last (or the reverse), hits the first and the
last place of the diagonal; and it is what the file lists as long as all of that
is in the matrix. Sizes are greater than zero, and so small that no index
overflows; the number of columns a file gives is not looked at by the code.

Dsymv computes with integers, so rounding is left out. FloatCompare takes the
widths of exponent and mantissa as constants, so that all pairs of numbers of a
small format can be tried. Where the difference of two patterns overflows it
wraps; where what comes out is the least integer, `llabs` of it is left open, and
so is `IntDiffs`.

## Runs

| run | bounds | shows |
| --- | --- | --- |
| datastore | 2 datastores, 2 threads, 1 unit | SemaphoreExact, StrayAccessReported, SilenceMeansClean, for any callers in any order |
| cluster | 2 tasks, 4 nodes of one element, queues of 1 | types, DataRight, Conservation, NoReport, BlocksRight, ShutdownClean, NobodyStuck, EveryStepCounts; Cluster implements TestRun, so tests end and pass |
| run_test | 3 runs; test files with 0, 1, 4 or 5 nodes, blocks of 0, 3 or 4; random tests of 4 or 5 tasks | TasksFit, EachNodeHasATask, OneResult, FinishedIsFinal, AlwaysEnds |
| spu_image | 2 images of 17 lines, all four modes | NoDataRace, OthersStored, AllTransferred |
| spu_double_late | 1 image of 2 lines | violated: the PPU is told before the image is stored |
| paralel_full | both programs, 4 streams, 0, 3 or 4 SPUs (6 SPEs are usable as 4), 3 frames of 4 by 4 bytes, mailbox of 2 | ReadWhole, BeginNeverDropped, SPUsInsideFrame, OnlyLastTorn, EventsOwed; Serial and Paralel implement Preview |
| cell_shares | all four modes, 6 streams, 3 SPUs, 2 frames, mailbox of 1, one failing wait | SharesKept, ImagesAlive, FrameQuiescent; CellPreview implements Preview |
| dsymv_half | sizes 2 and 3, elements 1 and 2, files of up to 3 elements with rows and columns from 0 to 4 | LoadedAsListed, PartialProduct |
| dsymv_brute | size 1 | violated: y starts from (1 + beta) * y |
| float_near | 4-bit numbers, arrays of 2 | EqualIffNear |
| store_row | thumbnails 3 to 5, x = 1, two lines | PutsLegal, LinesStored across the end of a row |
| scale_close | all black and white squares | CloseToSerial |

The runs check the type invariants of the modules (`*TypeOK`) as well, that of
DataStore as a part of Cluster's; that of Scale, which is only about bytes, is
left to the proofs.

Why the bounds are enough: with queues and semaphores of one, two tasks already
block each other at every queue, a wait thread already finds requests of both,
and the None of the shutdown meets a queue that can be full. The two tasks
request from three nodes each and share two of them. One of them is off the
diagonal, so an owner cannot have its row and column swapped unseen. Blocks of
one element leave the local indices at zero: that the arithmetic is right for
every size of block is the theorem `DataNeverAstray`. Two frames show everything
that can be left over from one to the next, three that it does not add up. A
mailbox smaller than a share makes the PPU block as it does with sixteen images,
few SPUs and four entries. Images of 4 by 4 bytes give thumbnails of two lines
of two bytes, two rows of them: places, lines and columns can all be mixed up,
and a read or a write can end in the middle of anything. Two images of seventeen
lines pass every reuse of a buffer, are two batches of the DMA list, and leave a
line over for the modes that make two or eight at a time. Four nodes are the
least random grid, five are no square, and blocks of three are too small for a
task when there is one node. Three elements of a file can be for one place, for
a place and its mirror image, and for another, or lie outside the matrix on
either side. Three thumbnails meet at the end of a row, and with two lines each a
line can be overwritten by a neighbour's or by its own successor. Matrices of
size 3 have three mirrored pairs that can all differ. Numbers with two bits of
exponent have denormal, normal and infinite members next to each other.

## Fairness

* Cluster: weak fairness for each thread. Python's interpreter switches between
  runnable threads, and the queues wake their waiters; no step needs strong
  fairness, because a queue has one reader, and the tests of the run
  cluster end although the tasks compete for the queues.
* RunTest: fairness for both threads but not for the end of `start_test`: a node
  under test may hang. Of the generator, fairness for every step but the reading
  of one more line (`GenerateOn`): a file ends.
* Serial: the program is a process the system runs. Paralel, CellPreview: the
  PPU and each SPU are processors of their own. No failure is fair: that a frame
  is written in the end does not rest on a file being good, since an error ends
  the promise, and calls that fail are not forced to. In Paralel a wait for an
  event may fail, so fairness alone would let a wait in vain end in an exit;
  that none is in vain is EventsOwed, which needs no fairness.
* SpuImage: the SPU runs and the MFC executes what it is given.
* The other modules state safety only. All runs check for deadlock.

## Proofs

Every type invariant, safety invariant and action property of the passing runs
is a theorem, for every value of the constants, and so are the steps of the
three refinements. Assumptions: only the `ASSUME`s of the modules, which TLC evaluates
in the runs. Cluster's `NoneAssumption` says that None is neither a request nor
an element.

Few of the invariants are inductive as they stand. The strengthened ones are the
definitions called `*Inv` at the head of each module (TLC has seen them hold on
the runs' instances); their conjuncts called `*Place` say where each process is,
and what it has there, at each of its steps.

* DataStoreProofs. `SemaphoresExact` needs the types of `call` and a lemma on
  what one thread's move does to the set of sleeping calls and its cardinality;
  Threads must be finite. `StoreTypeCorrect` needs it in turn: the semaphore is
  within its bounds because of the calls that sleep. `StrayAccess` is inductive
  once strengthened by what registrations never take back: the owner and the
  threads of a datastore only grow, and messages are never withdrawn.
  `SilenceIsClean` needs what a thread is between its two registrations
  (`HalfRegistered`): the checker knows it already, the datastore not yet; a
  thread that fails the check after them is reported by that very step.
* ClusterProofs. The types, `DataRight`, `StoreDisciplined` and `NoReport` are
  proved together, as one inductive invariant `IInv`. `NoReport` alone is not
  inductive: a report is avoided because the thread has registered, which is
  known because of the wait thread's step, which is what `StoreDisciplined`
  says; the semaphore is never exhausted because only one thread uses it. The
  arithmetic of rows, columns and owners (an element a task wants is in the
  store of the node it asks) is lemmas of its own. On top of it, `RunInv`
  follows the requests: `Conservation` is a task's count of open requests,
  `Covered` says that each element it has asked for is in its block or on its
  way (in a queue, in a wait thread, in a response), `Answered` that no response
  is None. When the count is zero nothing is on its way any more, so everything
  is in the block, whatever the order was; that is `BlocksAlwaysRight`.
  `ShutdownLeavesNothing` has the same count: with every task done no queue
  holds a request, so each has only the None put last (`ShutPlace`).
  `StepsOfTestRun` maps every step to one of TestRun or a stutter: a task's last
  step delivers its block, and the verdict counts the tasks that are done.
  `NobodyEverStuck` says that before the end some thread's guard holds (the
  predicates `*CanStep`; TLC compared them with ENABLED of the threads' steps in
  all states of the instance). It needs `MainPlace`, where the main thread's loops
  leave the threads and the queues: a task that waits for a response has a
  request in some queue or thread (`Conservation`), and a full queue has a wait
  thread that is not over. `EveryStepTellsOff` gives each step a price: requests
  to send, to answer and to receive, and the steps of each thread to its next
  answer, are finitely many naturals, and every step lessens them.
* RunTestProofs. `GenInv` bounds the generator's numbers: a task's last row and
  column lie in the matrix because of the ranges a random test is drawn from
  (`RandomDrawn`), and each node has a task because of those served in turn so
  far (`ServedInTurn`), where n is the integer square root of the number of
  nodes. `RunInv` has who holds the lock, and that finished_output is set
  exactly when one line is written (`LockHeld`); so there is one line at most.
  `LineOwed` says that a thread that is over without it has left the line to
  the other one, so the process cannot be over without it once the timer is
  started.
* DsymvProofs. `LoadInv` reads a file one element at a time, those in the arrays
  being the file's as far as it reaches (`FileRead`), and then enters them. That
  the matrix stays symmetric rests on a fact about indices (`BothIndexed`): if
  both size * r + c and size * c + r are places of the matrix, for any integers
  r and c, then r and c are in it or the two places are the corners of the
  diagonal. While all elements are well listed each place has the last one
  listed for it or its mirror place.
  `HalfIsEnough` says of the pass over half of the matrix, at each of its steps,
  that y[k] has the products of the first `Used(k)` columns of row k and accum
  those of the line in work; at the end these are all. A row's sum is a
  recursive function (`Dot`); that it is defined and numeric for every length
  is proved by induction over a set, since the library's induction theorems
  cannot be instantiated (see below).
* ParalelProofs. `ParalelInv` covers both programs of Tema3. Its part for the
  files, `FileInv`, says how much of an image or a result is read or written at
  each call, so that whatever the pieces were an image is whole when its count
  is used up. For the SPUs, `ParalelPlace` makes the PPU's anonymous count of
  events the number of SPUs whose message has been read: only then can no SPU
  be left at work. `PreviewInv` adds the bytes: thumbnails made, stored and
  written are those of this frame. It rests on the layout of the big image
  (`AddressParts`, `AddressesApart`): the address of a byte gives back the
  stream, line and place it is for, so no store touches another's bytes, and the
  serial program's loops, the SPUs' addresses and the rows and columns of the
  result file agree, for any sizes that divide evenly. `StepsOfBothPrograms`
  follows: each frame's file is written whole and right, or the program fails.
  `EventsAlwaysOwed`: while the PPU waits, the SPUs that have an event to give are
  the complement of those counted (`Counted`), so there are as many as it still
  waits for. With `EveryStepTellsOff`, where frames, stages, images, parts of a
  file and bytes are counted in the order of a dictionary, it follows that neither
  program spins or waits in vain.
* ArithmeticProofs. The four ways of cutting a line tile it, and every put is
  legal, for every x, any SPUs and any number of lines: every put pending is a
  piece of its SPU's line. `StoreInv` adds, byte for byte, that a line under way
  is stored or still pending (`HalfStored`); with no two bytes of thumbnails at
  one address (`BytesApart`) a line stored stays. Of Scale, for any sixteen
  bytes the results differ by at most one: the invariant says what each line of
  the chunk holds after each step; the rest is the arithmetic of four roundings.
  `EqualMeansNear` is about numbers of any widths of exponent and mantissa; its
  invariant is only that all pairs passed so far were judged equal. The powers of two are a recursive function, the order of
  the patterns after the code's reordering is that of the numbers, and the count
  of representable numbers between two of them is the difference of their
  patterns, by a bijection with an interval; where that difference overflows, the
  wrapped one is shown to be large as well. `Comparable` leaves out only pairs
  whose difference is exactly the least integer, for which `llabs` has no answer.
* SpuImageProofs. `ImageInv` says for each mode which gets and puts can be
  pending at each step, for which line, from or to which buffer
  (`GetsUnderWay`, `PutsUnderWay`), and what a buffer holds when none is. That
  the buffers of mode double alternate is the reason that one wait per line is
  enough there, and that a put of the line before the last may be pending when
  all is over.
* CellPreviewProofs. `CellInv` says for each SPU how many of the images dealt to
  it (`Dealt`) are in its mailbox or taken (`SPUPlaces`), that they are its own
  (`OwnImages`), and that an image dealt is either still to be scaled or in its
  place (`ImagesPlaced`). A pending put is of the image scaled last
  (`InOrder`, `PutOfLast`). `EventsCounted` adds up: the events counted, the SPUs
  with something left to do and the event a failed call has eaten are together
  the number of SPUs. So when the count is full no SPU is at work, and no call
  has failed (after a failed one the count never fills): the frame is quiescent
  and every image in place (`FramesQuiescent`); `StepsOfPreview` follows.
  `NobodyEverStuck` has the same reason for the events; and a mailbox is full only
  of an SPU that is taking its share, however many entries it has. Only the wait
  after a failed call can be for ever. `EveryStepTellsOff` counts as in Paralel.
  These two are stated in the module of the proofs; their guards have been
  compared with ENABLED there, too.

Only model-checked:

* Liveness (AlwaysEnds, AllTransferred, and the liveness of KeepsPromise and
  WritesPreview): the prover has no ENABLED, so no use for fairness. Of the
  refinements everything else is proved. For Cluster, Serial, Paralel and
  CellPreview little is missing: that there is a step to take, and that each
  leaves less to do, are theorems, so every run ends whatever the schedule is (in
  CellPreview, unless a wait has failed); only the conclusion from these two, by
  induction over what is left, is not made in the prover.
* The runs that expect a violation: a counterexample is one behaviour.

Induction over data is out of the prover's reach where it takes an operator as a
parameter, as the library's induction theorems do. Where an induction over the
numbers was needed (Dsymv's sums) it is one over the set of the numbers that
lack the property, which has a least member.

## Where the code and its documents disagree

1. Double buffering does not wait for the last put but one (`spu.c:282`, against
   the PPU's `ppu.c:282`): run spu_double_late.
2. The optimised product scales y by 1 + beta (`main.c:291`, against 221 and 277):
   run dsymv_brute.

Seen beside these, and not claims of a run: `timer_fn` may write a Timeout line
with 100% (`tester.py:85-88`, against 409); the last row and column of the
product are never asked for (`tester.py:417`); with fewer than sixteen usable
SPEs Tema3's big image has empty places (`paralel.c:160`, against
`paralel.h:37-38`); after a failing `spe_event_wait` Tema4 waits for ever
(`ppu.c:285`); the loop over the size line stays at a word (`mmio.c:211`);
`load_matrix` ignores the symmetry a file declares, whether its elements are in
the matrix, and `main` its result (`main.c:90-108, 340`); `res <= 0` can only be zero, so a size that is negative
is taken for a large one (`pnm.c:62`);
a NaN compares as equal to itself (`main.c:192`, against 181-182); the
comparison of numbers whose patterns differ by the least integer depends on the
build (`main.c:192`); the sizes of the buffers at `paralel_spu.c:226` and
`spu.c:43-44, 309-310`; the list overrun at `spu.c:95`; `argc < 2 && argc > 3`
at `main.c:331`; and the division by an unchecked number of SPUs at
`ppu.c:221`. Most are listed as hazards.

## Not modelled

* Option parsing, timing, printing, the scripts: no state that others depend on.
* The parts of `mmio.c` that the program does not call.
* Images of one frame with different sizes: all three programs take the first
  one's size for all (`serial.c:226`, `paralel.c:82`, `ppu.c:267`) and index past
  the others. Sizes whose product overflows, or that are no multiples of what
  the code divides by, but for the lines left over in SpuImage.
* What lies behind the buffers: in modes 2lines and dmalist lines and list
  elements outside their allocation (`spu.c:43-44, 95, 309-310`), and the line
  buffer of `paralel_spu.c:226`. The models take that memory to belong to nobody.
* Failures of the Cell library's calls other than `spe_event_wait`, and a number
  of SPUs that the command line should not give (`ppu.c:221` divides by it).
* A task's thread that ends with an exception (`tester.py:189`): the tasks of a
  random test or of a square grid raise none.
* Floating-point rounding.

## Plan

Done, in this order: DataStore with Checker, Cluster against TestRun, RunTest,
the two Cell programs against Preview, the DMA modules, the numeric modules, the
first theorems; then the modes 2lines and dmalist, TestGenerator before RunTest,
LoadMatrix before Dsymv, the files of Tema3 with the serial program, and the
failures: of files, of writes, of event waits, of start_test.

Then the proofs: the invariants of Cluster, DataStore, RunTest, SpuImage,
CellPreview, Paralel with Pnm and Serial, StoreLine, LoadMatrix and Dsymv, the steps of
TestRun and Preview, EqualIffNear, and the progress of Cluster and of the Cell
programs.

Next: that Paralel and the modules
StoreLine and Scale fit together (Paralel's one step of storing an image is the
end of StoreLine's, for the sizes StoreLine takes).

Then, extending the model: the rounds of `start_test` in RunTest composed with
TestRun, so that a passed run means TestRun's `Judge`; images of several sizes.
