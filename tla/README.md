# ECSE427OS: verification project

The repository holds three programs that share no code:

| program | source | what runs |
|---|---|---|
| print spooler | `src/Print Spooler/` (`printer.c`, `client.c`, `common.h`) | one printer process, any number of client processes, POSIX shared memory, three semaphores |
| shell | `src/simple shell/assignment1.c` | one shell process and the children it forks |
| file system | `src/file system/filesystem/` (`sfs_api.c`, `bitmap.c`, `disk_emu.c`) | one sequential program on an emulated disk |

Each has its own modules. Every definition is translated from the C code;
comments, `README.txt` and the `ReadMe.txt` files are only quoted where a run
compares them with what the code does.

## 1. Inventory

### 1.1 Print spooler

*State.* `struct Shared` in shared memory: the semaphores `mutex`, `empty`,
`full`, the ring indices `clientindex` and `printerindex`, `size`, and `arr[]`
(the IDs in the first half, the pages in the second). Each client has
`size`, `waitflag` and `temp`; the printer has `position`, `jobID`, `jobpages`.

*Operations.* Printer: create and size the object, `init_shared_memory()`, then
for ever `take_a_job()`, `print_a_msg()`, `go_sleep()`; `detectctrl()` on
SIGINT. Client: open the object, copy `size`, `put_a_job()`, exit.

*Interaction.* Shared memory and semaphores only. A client waits for `empty`,
then for `mutex`, stores a job, posts `mutex` and `full`. The printer waits for
`full` and `mutex`, reads a job, posts `mutex`, prints, moves `printerindex`
**without** holding `mutex`, and posts `empty`.

*Hard behaviours.* Every interleaving of the clients; the two accesses to the
ring outside `mutex`; clients that arrive while the printer initialises the
object; processes killed at any point; a printer restarted over an old object.

*Correct when:* one process at a time is in a critical section; no slot is lost
or invented; no stored job is overwritten, mixed with another one or printed
twice; a slot is not reused while it is printed; every job is printed in the
end; users see a bounded FIFO queue.

### 1.2 Shell

*State.* A history of ten commands with their numbers (`history[]`,
`counter`, `commandposition`), a table of thirty background jobs
(`bgjobinfo[]`, `availableposition`), `errorcode`, and the forked processes.

*Operations.* `getcmd()`, `strargs()`, `runhistory()` (a number re-runs a
command), `fork()` and `execvp()`, `redirectioncmd()`, a pipe in which the child
says whether `execvp()` failed, `waitpid()` for a foreground child, and the
built-in commands `exit`, `cd`, `pwd`, `jobs` (with `freejobs()`), `fg`,
`history`.

*Interaction.* `fork()`, `waitpid()` and the pipe. The children end at any time.

*Hard behaviours.* Children that end between any two steps of the shell;
`waitpid()` with process 0 or -1, which takes any child; the pipe protocol of a
failing child; ten entries for the numbers of a growing history, one of which
is the number just typed; a full job table.

*Correct when:* a number finds the command it was given to; a failed command is
not re-run; the error flag is that of the right child; the prompt comes back,
and only when the foreground process has ended; `jobs` shows running jobs.

### 1.3 File system

*State.* In memory: the inode table `table[]`, the root directory `root[]`, the
descriptors `fdt[]`, `free_bit_map[]`, `nextfile`. On the emulated disk: the
superblock (block 0), copies of table, bitmap and root (blocks 1 to 3), data.

*Operations.* `mksfs(1)` and `mksfs(0)`, `sfs_fopen`, `sfs_fclose`, `sfs_fread`,
`sfs_fwrite`, `sfs_fseek`, `sfs_remove`, `sfs_getnextfilename`; below them
`get_index`, `rm_index`, `force_set_index` of `bitmap.c` and `read_blocks`,
`write_blocks` of `disk_emu.c`.

*Interaction.* Plain calls; the descriptor names the inode, the inode names the
blocks, the bitmap says which blocks are free, and each call saves what it
believes to have changed. `disk_emu.c` keeps the blocks in a file, through a stdio
stream with a buffer of its own.

*Hard behaviours.* Long sequences of legal calls: writes that begin or end on a
block boundary, that go from direct to indirect blocks, writes over old data, removal
and re-creation, running out of blocks, inodes or descriptors, and loading from the disk
what was not saved; arrays of block numbers on the stack that nobody sets; a program
that ends between or inside two calls, with blocks in its buffer.

*Correct when:* a file holds what was last written at each position; no block
has two owners; names, inodes and descriptors correspond; what is on the disk is
what is in memory; the bitmap is a set of free blocks; the emulated disk keeps every
block it has accepted.

## 2. Modules

| module | models | composed with |
|---|---|---|
| `PrintQueue` | what users of the spooler are promised: a bounded FIFO queue | abstract, implemented by `Spooler` |
| `Spooler` | printer loop and `put_a_job()`, one shared access per action | |
| `SpoolerCrash` | `Spooler` with clients that are killed | extends `Spooler` |
| `SpoolerStart` | creation and initialisation of the object, SIGINT, restart, early clients | extends `Spooler` |
| `Shell` | the shell, its children, pipes and the system calls it uses | |
| `BlockSet` | a set of free blocks that gives out the lowest | abstract, implemented by `FreeBitmap` |
| `FreeBitmap` | `bitmap.c`, bytes and bits | |
| `BlockStore` | what a file system expects of its disk: blocks keep what was put there | abstract, implemented by `DiskEmu` |
| `DiskEmu` | `disk_emu.c`, the disk file and the buffer of its stream | |
| `Sfs` | `sfs_api.c`: directory, inodes, descriptors, direct and indirect blocks | uses the bitmap as the set `BlockSet` says it is, and blocks as `BlockStore` says |
| `MCBlockLayer` | the program that calls `bitmap.c` and `disk_emu.c` in any order | extends `FreeBitmap` and `DiskEmu` |
| `SpoolerProof`, `PrintQueueProof`, `SpoolerCrashProof`, `SpoolerStartProof`, `ShellProof`, `BlockLayerProof`, `SfsProof`, `SfsDataProof` | theorems (4) | extend what they are about |
| other `MC...` | constants for TLC | |

Definitions have the names of the C code where TLA+ allows it. Operators that
change one detail of the definition that follows them (`WaitMutexSkipped`,
`PostFullSkipped`, `NextPositionUnwrapped`, `OldCellUnread`, ...) are plausible
bugs. They are used by no specification; `PROJECT.json` lists for each property
one of them that the property rejects.

### 2.1 Spooler

One action is one access to shared memory or one semaphore operation; program
counters `cpc[c]` and `ppc` stand for the line a process is about to execute.
`sem_wait` is an action with guard `> 0`, `sem_post` always possible: POSIX
semaphores do not queue their waiters, and neither does the model.
`sem_getvalue()` is an action of its own before the `sem_wait(&empty)` it is
meant to predict. Printing appends to `printout`; the time spent in `sleep()` is
the time until the next action. Operators `Stored` and `Allocated` count, from
the program counters and `full`, the slots with a job and those being filled;
`Accounted` is the slots that the semaphores and the processes account for together.

`RefinesPrintQueue` maps the shared memory to a queue: a job is in it from the
client's `sem_post(&mutex)` until the printer moves `printerindex`, the queue is
the ring from `printerindex` on, and the job at its head is on paper while the
printer is about to move `printerindex`.

`SpoolerCrash` adds `KillClient(c)` at any point. Its units of the semaphores are
gone, as `client.c` has no handler that gives them back.

`SpoolerStart` adds the printer's way to its loop, word by word through `arr[]`,
SIGINT before the handler is set (the default action) and after it
(`detectctrl()` unlinks the name), and clients that open the object at any
time. `MaxStarts` bounds how often a printer is started. A client that has
mapped an object which the printer has not yet given a length ends with SIGBUS.
`tickets` is observed: the clients in the order in which they move `clientindex`. With
it `LateJobsIntact` can tell whose job a slot or a printed job is without looking at the
words, which are integers that users type (`client.c:47-48`) and may be equal.

### 2.2 Shell

The shell is one process whose `pc` names the part of `main()` it is in; the
children are records in `proc`. `ReadLine` is `getcmd()`, the clearing and
storing of the entry and the choice of the branch. The numbers and the words of
a line are members of small sets; whether `execvp()` finds a program is
membership in `Executables`. `NotInHistory`, `FailedBefore` and `RunAgain` are
the three outcomes of `runhistory()`; `Fork` or `ForkFails`, then `Register` (the
background branch) or `WaitForeground`. A child writes to its pipe and executes
its program (`ChildExec`), and ends (`ChildExit`); `freejobs()` is one action
per entry, because children end while it runs. The pipe of each line is new, so
its content is a field of the child. `waitpid()` is modelled as it is used:
with a process number, 0 or -1, with and without WNOHANG.

When `freejobs()` finds no free entry it has no `return`, so `JobsDone` chooses
any position. Values outside the table are left out.

A failed `fork()` is process -1 to the shell: `Register` stores it as a job, and
`listed` may have it.

Observed only: `log` (which command was stored under a number), `listed` and
`alive` (what `jobs` has shown, and what ran when it began).

### 2.3 File system

Every call is one action: the program is sequential. A block is an array of `BlockSize`
cells; a cell is both a unit of data and what one block number takes, because an indirect
block is an array of block numbers, and `sfs_remove()` reads even the superblock as
one.

`sfs_fwrite()` has seven branches that differ in the loops they run. `WriteOf` says what a call
writes: `isfirst` is the test of `data_ptrs[0]` (line 436), `first` and `last` are the blocks
(`currentblk` and `endblk`), `from` and `taken` the cells it takes from the buffer. `PutBlock` is one
round of a loop: `BlockFor` and `Allocates` choose the block (a first write allocates every one,
a later one those that are 0 and not its first), `CellsFor` is the temporary block, of which only the first block
of a later write is read before (`OldCell`), `CountFor` what is counted when `write_blocks()`
has accepted it. `Loop` is the states after each round, as a function of the block. `Written` puts the loops together:
the direct blocks, then `Opened`, which is where each branch gets its array of indirect pointers from
(`NewIndirect`, `ArrayRead`, `ArrayUnread`), then the blocks behind. `Numbers` puts the direct and the indirect
block numbers of a file in one array, the one the loops run over. `StoreWrite` is the end of each branch;
`TableSaved` says when the inode table goes to the disk.

*Descriptors.* Callers pass those that `sfs_fopen()` has given them, also after they have closed
them or removed the file. Only `sfs_fread()` looks whether a descriptor is open (`FreadClosed`);
`Fwrite` and `Fseek` are guarded by `HasInode` alone and write and seek through closed ones, as the code
does. `sfs_remove()` leaves a descriptor with inode 0, the directory's, whose first block is
block 3: a write through it goes over the saved directory (`Overwritten`), after which what
`mksfs(0)` reads are no names and `Reopen` gives up.

*Arrays on the stack.* `sfs_fread()`, `sfs_fwrite()` and `sfs_remove()` have local arrays
for the numbers of an indirect block, and in several branches use elements that they have neither
read nor set. `OnStack` chooses what is there: one of the numbers of `Residue` in
every element, or (`Left`) what the last call that had such an array left in its own. (1 to 3 are not among
them: the model keeps the saved tables apart from the other blocks.) `stray`
becomes true when such numbers are used as those of a file's blocks. `DataKept`, `FreadReturns`, `BlocksOwned` and
`RemoveFrees` are stated up to that write (`~stray`) and say nothing after it; `StrayByCrossing` says which writes it
can be, and the run `SfsCrossing` shows what happens after it.

`undefined` becomes true where the code executes other undefined behaviour (a
negative length for `memcpy`, a descriptor on an inode behind the table, a block
behind the array of indirect pointers, a bit far outside the bitmap); nothing is modelled after
it. `content` and `wiped` are observed: what was written to each inode, and where a write that
ends before the end of the file has put zeros in the rest of its last block. The properties
of the data are relative to them: a wiped cell is to hold 0, and a cell whose block a full disk has refused is
in no block, so that only `FreadReturns` speaks of it (it reads as 0 while the number of its block is known).

`sfs_fread()`, `sfs_fwrite()`, `sfs_fseek()` and the saving of table and bitmap were also
compared with the compiled program on random sequences of calls; there were no
differences. That includes `mksfs(0)`, which reads blocks of 1024 bytes into `sb` and
`free_bit_map`, over the variables behind them: what is harmless there depends on their layout,
and `Reopen` models the layout of gcc, in which only a changed superblock does harm. It also
includes the `memset` of twice the length of `write_temp` in the indirect branches: in the
repository's own build every `write_temp` lies in a larger region of the stack frame that
nothing else uses, so it is left out. That build is also where the array of the
call before was seen to be reused (`Left`).

`FreeBitmap` has each byte as the function of its bits. `get_index()` does not
stop at the end of the array; `GetIndexOverflow` is the step in which it leaves
it. `BlockSet` has no such step: it leaves `free` and `last` unchanged.

`DiskEmu` separates the disk file (`file`) from what is only in the buffer of the stream
(`buffer`). `write_blocks()` is `WriteBlocks` up to its loop and one `WriteBlock` for each round,
because the program may be killed between two of them: `Kill` is possible in every
state, loses the buffer and keeps the file. `init_disk()` opens a second stream on the file
without closing the first. `init_fresh_disk()` writes its zeros through the buffer; how many of
them have left it is chosen by `end`. `mksfs()` writes the superblock before anything else, which
is why only `WriteBlocks` follows the step `"fresh"`.

`BlockStore` is the promise: `store` is changed by `Put` only, one block at a time, and
`Get` answers with it. A program that is killed changes nothing, except that a disk which
nobody has used since it was created may lose its end (`LoseEnd`). The mapping `Seen` reads a
block from the buffer if it is there and from the file otherwise.

## 3. Runs

All bounds are CONSTANTs of the configurations.

### 3.1 Runs that pass

| run | checks | shows |
|---|---|---|
| `Spooler` | `TypeOK`, `MutualExclusion`, `TokenConservation`, `RingConsistent`, `StoredJobsWhole`, `PrintedOnce`, `SlotKeptWhilePrinting`, `RefinesPrintQueue`, `EveryJobPrinted` | the ring is safe although `printerindex` moves outside `mutex`; the spooler is a bounded FIFO queue and no client starves |
| `SpoolerCrash` | `OneSlotPerDeath`, `PrintedOnce` | a killed client costs at most one slot and corrupts nothing that is printed |
| `SpoolerStart` | `AtMostOneInside`, `StartConservation`, `LateJobsIntact` | with one printer, clients that come too early break neither the semaphores nor the jobs of those that come later, each of which is printed once, intact and in its turn. IDs and page counts are the same small integers |
| `Shell` | `TypeOK`, `HistoryNumbers`, `DisplayedLatest`, `RerunSameWords`, `NoFailedRerun`, `ErrorFlagSound`, `ForegroundDone`, `ListedWereRunning`, `PromptReturns` | numbers keep their entries through refusals and re-runs and take the words and the `&` of their commands, the flags are those of the right child, the shell waits for the right child, never hangs, and shows no job that had ended; the one other entry it can show is the -1 of a failed `fork()`, and that only while a background process runs |
| `SfsData` | `TypeOK`, `DataKept`, `FreadReturns`, `BlocksOwned`, `StrayByCrossing` | data and block ownership through all sequences of seven calls, through open and closed descriptors, over direct and indirect blocks, on a disk that becomes full, until a write uses an array that nobody has read; and which writes do |
| `SfsRemove` | `DirectoryConsistent`, `DescriptorsListed`, `RemoveFrees` | names, inodes and descriptors correspond through removal, re-creation and exhaustion, no descriptor that may still be written through refers to a removed file, and, until a write uses an array that nobody has read, no block of a removed file is lost |
| `SfsReopen` | `SavedFiles` | what has been written to files is on the disk after every call |
| `BlockLayer` | `TypeOK`, `DiskTypeOK`, `RefinesBlockSet`, `RefinesBlockStore` | bytes and bits implement a set of free blocks; a file under a buffer implements a store of blocks, with the program killed at any point |

`RemoveFrees` is about every block of a file, the indirect one included. It holds although
the loop of `sfs_remove()` takes more numbers than there are indirect blocks: those it takes too
many are 0.

### 3.2 Runs that find a difference between code and documentation

| run | property | the code |
|---|---|---|
| `SpoolerRestart` | `AtMostOneInside` | a printer restarted over an existing object resets `mutex` under a client, and two clients share the critical section (`printer.c:62`; `client.c:58` says that one process at a time proceeds) |
| `ShellLostJobs` | `JobsComplete` | two background jobs share an entry unless `jobs` is typed in between (`assignment1.c:338`; the `ReadMe.txt` says that `jobs` lists all of them) |
| `SfsCrossing` | `ReadsBack` | a write that goes on from the direct to the indirect blocks takes their numbers from an array it has not read, in the repository's own build that of another file, and writes over that file's data (`sfs_api.c:683`; `sfs_test2.c:208` checks that a read returns what was written). The compiled program does the same |
| `SfsRemoveFile` | `RemoveDefined` | removing a file of one block takes the superblock for block numbers and indexes the bitmap with the magic number (`sfs_api.c:807`; `sfs_api.c:798` says that the file's data is deleted) |

Other places where the code does not do what a comment says are part of the models,
and the properties of the passing runs are stated around them:

* `client.c:52`: a client whose `sem_getvalue()` saw a free slot may still sleep in `sem_wait()`,
  and prints the message of one that did not (`GetEmpty`, `WaitEmpty`).
* `client.c:90`: a client that copied `size` before it was set stores its pages over its
  ID; `LateJobsIntact` is about the jobs of the other clients.
* `printer.c:64`: the loop that clears `arr[]` may wipe the job of a client that came before it was
  done; `LateJobsIntact` is about the jobs of those that come after.
* `assignment1.c:177`: number `counter-10` is accepted although its entry was just
  overwritten; `RerunSameWords` says that it takes no words at all.
* `assignment1.c:309`: the history does not keep the redirection, so the number of `ls > out` runs `ls out`; and whether a
  line is built in is decided before its number is looked up (line 156), so the number of `history` forks a child that cannot execute it.
  `RerunSameWords` is about the words and the `&` only.
* `assignment1.c:317`: a failed `fork()` in the background registers process -1 as a job, and `jobs` shows it as running while another
  job runs; `ListedWereRunning` says that it shows nothing else that did not run.
* `assignment1.c:262`: a redirected child that works sends the `errorcode` it has inherited;
  `ErrorFlagSound` leaves that case open.
* `assignment1.c:90`: `freejobs()` returns nothing when the table is full (`JobsDone`).
* `sfs_api.c:221`: the inode of a new file is not saved, and is given out again after `mksfs(0)`;
  `SavedFiles` is about files that were written to.
* `sfs_api.c:230`: when inodes are used up, `sfs_fopen()` opens a descriptor on an inode behind the
  table; `UseWithoutInode` is where the program uses it and ends the run, `DirectoryConsistent` is about listed files.
* `sfs_api.c:580`: a file grows though the disk is full; `DataKept` and `FreadReturns` say that the cells
  that are on the disk stay right, and nothing of the size.
* `sfs_api.c:418`: `sfs_fwrite()` and `sfs_fseek()` accept closed descriptors; `DescriptorsListed` says that these
  are never those of a removed file, or of a later one with its inode.
* `sfs_api.c:737`: a file whose last block is the first indirect one gets no indirect block, takes the
  number of its block from an unset array and stores the array in block 0; the properties of the data end with such a
  write (`stray`).
* `sfs_api.c:821`: removing an empty file erases block 0 and marks it free; `BlocksOwned` is checked without
  removal, `RemoveFrees` with it.

### 3.3 Bounds, and why they are enough

* *Spooler*: four clients, two slots. The ring fills, wraps twice, and two clients
  wait while two jobs are stored; one waits for `mutex` while another one holds it
  and the printer is inside `go_sleep()`. Each client submits one job and exits, as
  in the code. What holds for every number of clients and slots is proved (4).
  No symmetry is used: the clients ask for different numbers of pages.
* *SpoolerStart*: three clients, two slots, one printer start; two for `SpoolerRestart`.
* *Shell*: two history entries for ten, two job entries for thirty, four lines, three
  processes (`ShellLostJobs`: three entries, five lines). Four lines overwrite both history entries, with
  numbers that are accepted, refused and just overwritten; three background processes are more
  than the table has entries. A fourth process is the point from which `fork()` only fails. What holds
  for every length is proved (4).
* *Sfs*: blocks of three cells, two direct pointers, three inodes (one of them the root directory's),
  directory entries and descriptors, two names, which are symmetric. Seven calls: two create and open
  both files, which leaves five for data; eight in `SfsRemove`, where the inodes run out.
  * `SfsData`: lengths 2, 3 and 7, positions 0 and 7, nine blocks. The lengths end before and on
    block boundaries, and 7 is one more than the direct blocks hold, so that one write reaches the indirect
    blocks and the next begins there. Of the nine blocks five hold data, so the disk becomes full, also between an
    indirect block and the blocks it names.
  * `SfsRemove`: lengths 2 and 9, so that a file has an indirect block with two numbers; `SfsReopen`:
    lengths 2 and 7. Their fourteen blocks are more than most sequences use, and fewer than the bitmap has
    bits (24), as in the code.
  * `Residue` is `Left` alone or `Left` and 0. `SfsCrossing` uses `Left` alone, what the repository's own build does.
* *BlockLayer*: three bytes of two bits, all 64 bitmaps; a disk of three blocks with two
  values, calls of one and two blocks that begin at the first block, at the last, and behind it.

`CHECK_DEADLOCK FALSE` stands where the system stops by itself: the printer
waits for jobs for ever once the clients have exited, the shell exits, the calls
are used up, or the bitmap is followed no further.

### 3.4 Fairness

* `Spooler!FairSpec`: weak fairness of each client and of the printer. The operating system
  runs every process that can run; a process blocked in `sem_wait()` is woken when the
  semaphore stays positive. Nothing is assumed about who gets a unit when several
  wait (that would be strong fairness). This is enough because each client submits one job.
* `Shell!FairSpec`: weak fairness of the shell outside the prompt and of every child.
  Children are scheduled, and the programs they execute end, which is what the user
  of a foreground command waits for. Nothing is assumed about the user.
* The file system has no liveness property: every call returns.

## 4. Proofs

Eight modules hold theorems. Their statements are those the runs check, without the bounds.

### 4.1 `SpoolerProof`: any finite set of clients, any number of slots

Assumptions: `ClientsAssumption` (the clients are a finite set), `SlotsAssumption` (at least
one slot), `PagesAssumption` (page counts are integers). No more is assumed; in particular clients may
have the same page counts.

| theorem | states |
|---|---|
| `TypeCorrect` | `Spec => []TypeOK` |
| `MutexCorrect` | `Spec => []MutualExclusion` |
| `TokensCorrect` | `Spec => []TokenConservation` |
| `RingCorrect` | `Spec => []RingConsistent` |
| `StoredJobsCorrect` | `Spec => []StoredJobsWhole` |
| `PrintedOnceCorrect` | `Spec => []PrintedOnce` |
| `SlotKeptCorrect` | `Spec => SlotKeptWhilePrinting` |

The inductive invariant is `Inv == TypesAndMutex /\ TokenConservation /\ RingInv`.

* *Types and mutual exclusion* need each other: `mutex` stays below 2 because only the process
  inside posts it, and that there is one such process follows from the value of `mutex`.
* *`TokenConservation`* is a sum of cardinalities. `NumberAtMove` says how the number of clients at
  some program counters changes when one client moves; every step of a client or of the printer moves one
  unit from one summand to another.
* *`RingInv`* is `RingConsistent`, `LocalsInv` and `JobsInv`. `LocalsInv` says what the locals hold
  between two accesses (`temp` is the slot after the stored ones, `position` is `printerindex` while the
  printer has a slot). `JobsInv` is `StoredJobsWhole` and `PrintedOnce` with the client each job belongs to
  being past its stores, which makes the next job different from all of them.
* `printerindex` moves outside `mutex`, possibly while a client is between its two stores. That the client's
  slot is not the printer's follows from `TokenConservation`: less than `Slots` slots are allocated when
  a client advances `clientindex` (`AllocatedBelow`), and the ring positions of two different slots
  differ (`SlotInjective`).

`InvInit` and `InvStep` are the two halves of the induction, `PrinterRingStep` and `ClientRingStep` the
cases of the second. `SlotKeptCorrect` is an action property from the same invariant.

### 4.2 `PrintQueueProof`: the spooler implements the queue

`QueueSafetyCorrect` is the safety part of `RefinesPrintQueue`: the initial state maps to the
initial state of `PrintQueue`, every step to one of its steps or to none. Same assumptions as 4.1.
The invariant is `QueueInv == Inv /\ LastInv`; `LastInv` says that the job of a client about to post
`mutex` is the last of the stored ones, which is what makes that post the abstract `Submit`. There are four kinds of steps:
`SubmitStep` (the client's `sem_post(&mutex)` appends), `StartStep` (the printer begins with the head),
`FinishStep` (`printerindex` moves and the head is gone), and `QueueStutters` for all others, the client's
two stores among them: they change a slot that is not yet in the queue.

### 4.3 `SpoolerCrashProof`: any clients, any number of which die

`OneSlotPerDeathCorrect` is `CrashSpec => []OneSlotPerDeath`. The invariant is `CrashInv ==
CountersInv /\ OneSlotPerDeath`, the first part being types only; mutual exclusion is not needed. `DeathCosts` is the one new step: wherever the client dies, it takes
at most one unit with it. `AccountedStep` of `SpoolerProof` covers all others: they leave `Accounted` as it is.

### 4.4 `SpoolerStartProof`: clients that come before the printer is ready

`AtMostOneInsideCorrect`, `StartConservationCorrect` and `LateJobsIntactCorrect` are about `StartSpec` for any clients
and slots, under `MaxStarts <= 1`: one printer. With a second printer over the same object already the first is false, which is the run `SpoolerRestart`.
`StartInv` follows the initialisation in its order: until `sem_init(&empty)` all clients are stopped before
their `sem_wait(&empty)`, and until `sem_init(&mutex)` nobody is inside. With the two in another order the
invariant would not hold.

`LateJobsIntactCorrect` assumes no more: IDs and page counts are arbitrary. A client that read `size` before it was set stores
its pages over its ID (`client.c:65-66`), so words in the ring prove nothing of whose job they are; `tickets` does.
The theorem is about the clients that open the object after `init_shared_memory()`. The early ones' own jobs may be
wiped or torn, and it does not cover them. The invariant is `LateInv`:

* `TicketInv`: every client that has moved `clientindex` has exactly one ticket.
* `PrintedIntact`: what is printed for a late client is its job. That stays when the printer has stopped (`StoppedStaysIntact`),
  after which nothing is printed. The rest, `AliveInv`, is about a printer that has not stopped.
* `EarlyInv`: how far clients can have come in each phase. Both indices are 0 until somebody can get inside, so setting them
  to 0 loses nothing; `size` is set before a late client can read it.
* `Places`: `clientindex` is `Taken` slots from `printerindex`, and the locals point where they
  should. `Jobs` and `Taken` are `Stored` and `Allocated` without the slot that these count for a printer on its way to the loop.
* `InTurn`: the tickets are those of the jobs that `printerindex` has passed, then of those in the ring, slot by slot, then of the
  one being stored; and where such a ticket is a late client's, the words are its own. An early client stores only at its own
  slot or, when it has `size` 0, twice into the same word of it; whatever that does, no other slot changes (`ClientWrites`).

### 4.5 `ShellProof`: any lengths of the history and the job table, any lines

Assumptions: `SizesAssumption` (at least one entry of each) and `LinesAssumption` (a line is a command with a number and
flags). Theorems: `TypeCorrect`, `HistoryNumbersCorrect`, `DisplayedLatestCorrect`, `RerunSameWordsCorrect`,
`NoFailedRerunCorrect`, `ErrorFlagCorrect`, `ForegroundDoneCorrect`, `ListedWereRunningCorrect`: every safety property of the
run. `RerunSameWords` is about words and `&` only: nothing else of a command comes back with its number (3.2). `ListedWereRunning` includes the process -1 of a failed `fork()`. The invariant
`ShellInv` has four parts:

* `Types`.
* `HistoryInv`: command `n` is in entry `(n - 1) % HistorySize` (`AtPosition`, `Numbered`). `Kept` says that while a line is
  run the last `HistorySize` commands are all there; at the prompt the oldest may be missing, because a refused number
  has erased it, and the next line takes its place.
* `ProcInv`: while the shell waits for or registers a process, it is the one it has forked for this line, or `fork()`
  has failed (`PidInv`); a child's pipe says whether its program was found (`Pipes`), its number is one that was
  given out (`Number`), and the flag in its history entry is its own (`Flag`).
* `JobsInv`: the entries refer to background children or to -1 (`Registered`); while `freejobs()` runs, what still lives and
  what the polled entries say is running lived when it began (`FreeingInv`), where -1 counts as running while any
  background child does (`RanInBackground`), as it does to `waitpid()`.

### 4.6 `BlockLayerProof`, the bitmap: any number of bytes of any width

Assumption: `SizeAssumption` (both are positive). `TypeCorrect` is `Spec => []TypeOK`;
`RefinesBlockSetCorrect` is `Spec => RefinesBlockSet`, that is, the initial bytes are the set of all blocks,
and every step of the bytes is a step of `BlockSet` or leaves it unchanged. The lemmas are about division:
an index is its byte times `Width` plus its bit (`ByteAndBitOfIndex`, `IndexOfByteAndBit`), the order of
indices is that of bytes, then bits (`IndexOrder`), and setting a bit changes one index (`OtherBitsStay`).
`GetIndexIsGet` puts them together: the first bit of the first byte that is not 0 is the lowest free block.

### 4.7 `BlockLayerProof`, the disk: any size, any contents, any calls

Assumption: `DiskAssumption`. `DiskTypeCorrect` is `DiskSpec => []DiskTypeOK`, `RefinesBlockStoreCorrect` is
`DiskSpec => RefinesBlockStore`. The invariant is `BufferFlushed`: between two rounds of a write, and between calls, no block
is in the buffer only. It is `fflush()` in the loop that keeps it, and with it a `Kill` is a stuttering
step of the store. The exception is a disk just created, whose buffer holds exactly its end.

### 4.8 `SfsProof`: the directory, the inodes and their copies on the disk

Assumption: `SfsAssumption`; any number of inodes, any names, any disk it allows. `DirectoryConsistentCorrect` and `DescriptorsListedCorrect`
are about `RemoveSpec`, the calls of one process after `mksfs(1)`. The invariant is `DirInv == Shape /\ Linked /\ Room`.

* `Linked` says which inodes a descriptor, open or closed, may have: that of a listed file, 0 (its file was removed, and it is closed),
  none (inodes had run out), or it was never used; and that a file has exactly one.
* `Room` is why `sfs_fopen()` is right: its loop goes on filling entries while it finds no descriptor, so a directory
  with a free inode and no free descriptor would get the same name several times. That never happens, because
  unused inodes are never more than unused descriptors: both are used up one by one and neither is given back.
* `CreatedIs` turns the nested loops of `sfs_fopen()` into two cases: one entry gets one inode, or nothing happens.
* Reading and writing leave all this alone (`DirectorySame`): only which fields the result of a write
  is assigned to matters.

With `mksfs(0)` in between, `DirInv` is false: the descriptors are kept and the directory is not.

`SavedFilesCorrect` is `ReopenSpec => []SavedFiles`, with `mksfs(0)` and `mksfs(1)` between any two calls. It needs types and
itself only (`Typed`, `SavedFiles`): whichever way a write goes, it changes the inode in memory and on the disk, or neither. `Typed` includes `Rooted`,
that without `sfs_remove()` no descriptor has inode 0, so that no write goes over the saved directory.

`TypeOKCorrect` is `DataSpec => []TypeOK`, for the calls of one process that removes nothing. Its invariant `Sound` is `Typed`, `SavedFiles`, `DirInv` and
`Positioned`: the pointers of a descriptor lie inside its file (`Cursors`), a file without a first block is empty and
untouched (`Untouched`), and no size reaches the end of the array of indirect pointers (`Bounded`). That a
pointer stays inside its file when the disk is full, or when an array that nobody has read is used, rests on the count of the cells of a
write: it is at most what was asked for.

### 4.9 `SfsDataProof`: any disk, any files, reads and writes of any length

Assumption: `SfsAssumption`. The theorems are about `DataSpec`: files are opened, closed, read, written and sought, in any order and
with any lengths. Three of them hold until a write uses an array of block numbers that nobody has read or set (`stray`), and say
nothing after it: `SfsCrossing` is the same specification, and shows that data is lost then. The fourth says which writes those are.

| theorem | states |
|---|---|
| `BlocksOwnedCorrect` | `DataSpec => []BlocksOwned` |
| `DataKeptCorrect` | `DataSpec => []DataKept` |
| `FreadReturnsCorrect` | `DataSpec => []FreadReturns` |
| `StrayByCrossingCorrect` | `DataSpec => StrayByCrossing` |

`DataKept` is about the cells that lie in a block of the disk, wiped ones being 0. `FreadReturns` is about all positions but those whose
block number would be in an indirect block that a full disk has refused. `StrayByCrossing` names the writes after which the three
end: those that begin in the direct blocks and end behind them, and those to a file whose indirect block was refused; `WrittenUnread` is its
case analysis, over the branches of `Opened`.

They follow from one inductive invariant, `Intact == Sound /\ Observed /\ Content`. `Sound` (4.8) does not depend on `stray`.

* `Content` is what holds until an array that nobody has read is used: `Owning`, a file has exactly the blocks up to its
  end, or the disk has refused one; `Distinct`, no two places have the same block; `FreeAreZero`, a free block that is on the
  disk is full of zeros; and `Kept`, `DataKept` without its guard. `FreeAreZero` is in no property. It is why a new
  indirect block, which `sfs_fwrite()` reads instead of clearing (line 715), names no blocks.

A write is followed round by round. `Round` says what the first `j` rounds have done: `Placed`, each place up to `j` has its old block
or one that was free; `Apart`, no two of them are the same, and none is marked free or is the indirect block; `Holds`, the blocks up to
`j` hold the cells of the buffer and all others are as they were; `Counted`, the count is that of the cells when no block was refused. `Promised` is what
the loop has to find when it begins (`e` is the numbers the file had before the call). That every round keeps `Round` (`PutRound`) is an
induction over the blocks of a write. It is carried by `UpTo`, a statement about a set that contains one number and with each number
the next one, itself proved from the least element of a set (`LeastNat`), because the library's induction theorem takes an operator. Between the loop over direct
blocks and the one behind them, `OpenedRound` shows that the array read from an indirect block keeps the promise, case by case of `Opened`.

`StoredDirect` and `StoredBehind` give both branches of `StoreWrite` one conclusion, `Result`: the blocks of the file after the call are
`Separate`, `Filled` and `Complete`. From it, `OwningFwrite`, `DistinctFwrite`, `FreeFwrite` and `KeptFwrite` conclude the four parts of
`Content`. For the other calls: `ContentNew` is `sfs_fopen()` of a new file, whose inode nobody has used, and `FreadReads` says that
`sfs_fread()` follows the same block numbers as `BlocksOf`, so that `FreadReturns` is `Kept` at the positions read.

### 4.10 Only model-checked

* `EveryJobPrinted` and `PromptReturns`, and with the first the liveness part of `RefinesPrintQueue`: liveness under
  fairness is out of the prover's reach.
* `PrintedOnce` with killed clients, for which `Inv` does not hold (a dead client leaves a stored job without its unit of `full`).
* `RemoveFrees`. It is about `RemoveSpec`, where `Content` is no invariant: removing an empty file gives back
  block 0, which the next write takes. That no other block is lost then is true of the bounds of the run; the proof would need the
  invariant that such a file has and others keep.

## 5. Not modelled

* The test programs `sfs_test.c`, `sfs_test2.c`, `jit_test.c`, `test.c`: they are callers of the interfaces. Most of
  their sequences of calls are among those of the runs, reading and closing a closed descriptor included. Not among
  them are `sfs_getnextfilename()` and `sfs_remove()` after `mksfs(0)` (`sfs_test2.c:317`, 382, 420): no run has these together (5.1).
* `sfs_getfilesize()` and the results of the calls; descriptors that `sfs_fopen()` has never given, or not since
  the last `mksfs(1)`; names longer than `MAXFILENAME`, which are refused before anything is changed;
  `root[i].filename = name`, which keeps the caller's pointer: callers of the model
  do not reuse the memory of a name.
* The file system in a second process. `mksfs(0)` is only modelled in the process that ran `mksfs(1)`,
  which keeps its descriptors: what `root[]` has on the disk are pointers to names, and they mean nothing
  in another process, so what such a process would see is not defined by the code. For the same reason a program that is
  killed inside a call of `sfs_api.c` is followed on the disk only (`DiskEmu`), not through the directory.
* `init_disk()` without a file: `mksfs()` does not look at the result and its first read ends the program. In `DiskEmu`
  nothing can be read or written then.
* The delays of the disk, which are random and change nothing, and its failure probability, which is set and never used.
* The oversized `memset` of `write_temp` (2.3).
* Splitting of a command line, `cd` and `pwd` (they change no state of the shell but
  its directory), blank lines, more than nineteen words.
* Reuse of process numbers, and the number of open file descriptors of the shell.
* Wording of messages, except where a run compares a message with what happened.

### 5.1 Hazards without a property

`PROJECT.json` lists each with its line and the reason. Of three kinds:

* What the code does is modelled, and nothing in the repository says what should happen: the job of a client that comes before
  `arr[]` is cleared, SIGINT while jobs are waiting, the redirection and the dispatch of a command that is run again, the flag of a
  redirected command that works, a full job table,
  `sfs_getnextfilename()` on a directory with gaps, an empty file that loses its inode at `mksfs(0)`, and a removed one that is back then (`sfs_api.c:784`).
* The step is modelled, and the program is followed no further because what comes next depends on the layout of its memory: a descriptor on
  an inode behind the table, `get_index()` past the end of the bitmap, the overruns of `sb` and `free_bit_map` in `mksfs(0)`.
* Not modelled: the size of a client's mapping, the shell's file descriptors, blank lines.

## 6. Plan

Done, in this order: `Spooler` with its runs, `SpoolerProof`, `PrintQueue`,
`SpoolerCrash`, `SpoolerStart`, `Shell`, `Sfs`, `FreeBitmap` with `BlockSet` and its proof; then
the indirect blocks of `Sfs`, `DiskEmu` with `BlockStore`, and the proofs of `Shell`, of the disk, of the queue, of
killed clients, of the start and of the directory; then the loops of `sfs_fwrite()` as functions of their rounds, and
the proofs about the inodes, the blocks and the data of files.

What is left, the most important first:

1. `PrintedOnce` for killed clients, from an invariant that says which slots the dead have left.
2. `RemoveFrees` for any disk, with an invariant for files that own block 0.
3. `Sfs` over `FreeBitmap` and `DiskEmu` in one module, with both abstract specifications replaced by the
   detailed ones and the calls cut into their block accesses.
