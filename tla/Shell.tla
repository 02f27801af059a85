------------------------------- MODULE Shell -------------------------------
(***************************************************************************)
(* The shell of "simple shell/assignment1.c": its history, its table of    *)
(* background jobs, and the child processes it forks, waits for and hears  *)
(* from through a pipe.  The shell is one process; the children run and    *)
(* end between any two of its steps.                                       *)
(***************************************************************************)
EXTENDS Integers

CONSTANTS
  HistorySize,   \* the length of history[], 10 in the code
  JobSlots,      \* the length of bgjobinfo[], 30 in the code
  Executables,   \* the words execvp() finds a program for
  Lines,         \* the lines the user may type, parsed
  MaxLines,      \* bound: how many lines are typed
  MaxForks       \* bound: how many processes are forked

ASSUME SizesAssumption == /\ HistorySize \in Nat \ {0}
                          /\ JobSlots \in Nat \ {0}
                          /\ {MaxLines, MaxForks} \subseteq Nat

ASSUME LinesAssumption ==
  \A l \in Lines : /\ l.args.arg \in Int
                   /\ {l.bg, l.redirect} \subseteq {0, 1}

VARIABLES
  counter, commandposition, history,    \* the history of commands
  availableposition, bgjobinfo,         \* the background jobs
  errorcode, ifredirection,             \* globals and locals of main()
  ifhistory, pid,
  pc, slot, typed,                      \* where the shell is; loop index
  proc,                                 \* the forked processes
  listed, alive, log                    \* observed: the output of jobs, what
                                        \* ran when it began, the commands
                                        \* that were stored under a number

past     == <<counter, commandposition, history, log>>
jobtable == <<availableposition, bgjobinfo, slot, listed, alive>>
input    == <<ifredirection, ifhistory, typed>>
vars     == <<past, jobtable, input, errorcode, pid, pc, proc>>

PIDs      == 1 .. MaxForks
Positions == 0 .. HistorySize - 1
Jobs      == 0 .. JobSlots - 1
Builtins  == {"exit", "jobs", "fg", "history"}

(* args[] of a command: its first word and, for a history number or fg, a  *)
(* number.  NoArgs is an array of null pointers.                           *)
NoArgs  == [word |-> "", arg |-> 0]
NoLine  == [args |-> NoArgs, bg |-> 0]
Cleared == [args |-> NoArgs, errorflag |-> 0, numofcmd |-> 0, ifbg |-> 0]

Unused == [state |-> "unused", args |-> NoArgs, number |-> 0, bg |-> 0,
           redirect |-> 0, errorcode |-> 0, pipe |-> -1]

Init == /\ counter = 0 /\ commandposition = 0
        /\ history = [i \in Positions |-> Cleared]
        /\ availableposition = 0
        /\ bgjobinfo = [i \in Jobs |-> [processID |-> 0, status |-> -1,
                                        numofcmd |-> 0, available |-> 1]]
        /\ errorcode = 0 /\ ifredirection = 0 /\ ifhistory = 0 /\ pid = 0
        /\ pc = "prompt" /\ slot = 0 /\ typed = 0
        /\ proc = [p \in PIDs |-> Unused]
        /\ listed = {} /\ alive = {}
        /\ log = [n \in 1 .. MaxLines |-> NoLine]

-----------------------------------------------------------------------------
(* waitpid().  Its first argument is a process, or 0 or -1 for any child.  *)

Ended(p)      == proc[p].state = "zombie"
Children      == {p \in PIDs : proc[p].state \in {"forked", "running",
                                                  "zombie"}}
WaitedFor(p)  == IF p \in {0, -1} THEN Children ELSE {p} \cap Children
Reap(p)       == proc' = [proc EXCEPT ![p].state = "reaped"]

(* With WNOHANG: the value returned, and at most one child reaped.         *)
PollResults(p) ==
  IF WaitedFor(p) = {} THEN {-1}
  ELSE IF \E q \in WaitedFor(p) : Ended(q) THEN {q \in WaitedFor(p) : Ended(q)}
  ELSE {0}

Poll(result) == IF result > 0 THEN Reap(result) ELSE UNCHANGED proc

(* Without: no step until a child can be reaped or there is none.          *)
WaitFor(p) == \/ WaitedFor(p) = {} /\ UNCHANGED proc
              \/ \E q \in WaitedFor(p) : Ended(q) /\ Reap(q)

-----------------------------------------------------------------------------
(* Reading a line and looking a number up in the history.                  *)

\* commandposition computed after getcmd() has counted the command.
NextPositionCountedFirst == (counter + 1) % HistorySize
\* The history as an array that only grows.
NextPositionUnwrapped    == counter
NextPosition             == counter % HistorySize

ReadLine(l) ==
  /\ pc = "prompt" /\ typed < MaxLines
  /\ typed' = typed + 1
  /\ counter' = counter + 1
  /\ commandposition' = NextPosition
  /\ history' = [history EXCEPT ![NextPosition] =
                   [args |-> l.args, errorflag |-> 0,
                    numofcmd |-> counter + 1, ifbg |-> l.bg]]
  /\ log' = [log EXCEPT ![counter + 1] = [args |-> l.args, bg |-> l.bg]]
  /\ ifredirection' = l.redirect
  /\ ifhistory' = IF l.args.word = "number" THEN l.args.arg ELSE 0
  /\ pc' = IF l.args.word = "number" THEN "number"
           ELSE IF l.args.word \in Builtins THEN l.args.word ELSE "fork"
  /\ UNCHANGED <<jobtable, errorcode, pid, proc>>

(* runhistory().                                                           *)
originindex == (ifhistory - 1) % HistorySize
InHistory   == /\ ifhistory < counter
               /\ ifhistory >= counter - HistorySize
               /\ ifhistory >= 1

\* The number of a refused line is used up.
ForgetKeepsCounter ==
  /\ history' = [history EXCEPT ![commandposition] = Cleared]
  /\ log' = [log EXCEPT ![counter] = NoLine]
  /\ pc' = "prompt"
  /\ UNCHANGED <<counter, commandposition, jobtable, input, errorcode, pid,
                 proc>>

(* Nothing is run, and the number typed does not count as a command.       *)
Forget == /\ history' = [history EXCEPT ![commandposition] = Cleared]
          /\ counter' = counter - 1
          /\ log' = [log EXCEPT ![counter] = NoLine]
          /\ pc' = "prompt"
          /\ UNCHANGED <<commandposition, jobtable, input, errorcode, pid,
                         proc>>

NotInHistory == pc = "number" /\ ~InHistory /\ Forget

FailedBefore == /\ pc = "number" /\ InHistory
                /\ history[originindex].errorflag = 1
                /\ Forget

(* The entry of the number typed is cleared before the other one is read:  *)
(* they are the same entry when the number is counter - HistorySize.       *)
\* The history is indexed from 1.
OriginNextIndex ==
  [history EXCEPT ![commandposition] = Cleared][ifhistory % HistorySize]
Origin == [history EXCEPT ![commandposition] = Cleared][originindex]

RunAgain ==
  /\ pc = "number" /\ InHistory
  /\ history[originindex].errorflag = 0
  /\ history' = [history EXCEPT ![commandposition] =
                   [args |-> Origin.args, errorflag |-> 0,
                    numofcmd |-> counter, ifbg |-> Origin.ifbg]]
  /\ log' = [log EXCEPT ![counter] =
               [args |-> Origin.args, bg |-> Origin.ifbg]]
  /\ pc' = "fork"
  /\ UNCHANGED <<counter, commandposition, jobtable, input, errorcode, pid,
                 proc>>

-----------------------------------------------------------------------------
(* fork() and what parent and child do after it.                           *)

Current == history[commandposition]

Fork ==
  /\ pc = "fork"
  /\ \E p \in PIDs :
       /\ \A q \in PIDs : proc[q].state = "unused" <=> q >= p
       /\ pid' = p
       /\ proc' = [proc EXCEPT ![p] =
                     [state |-> "forked", args |-> Current.args,
                      number |-> counter, bg |-> Current.ifbg,
                      redirect |-> ifredirection, errorcode |-> errorcode,
                      pipe |-> -1]]
  /\ pc' = IF Current.ifbg = 1 THEN "register" ELSE "wait"
  /\ UNCHANGED <<past, jobtable, input, errorcode>>

(* The result of fork() is not compared with -1: the shell goes on as the  *)
(* parent of a process -1.                                                 *)
ForkFails == /\ pc = "fork"
             /\ pid' = -1
             /\ pc' = IF Current.ifbg = 1 THEN "register" ELSE "wait"
             /\ UNCHANGED <<past, jobtable, input, errorcode, proc>>

Register ==
  /\ pc = "register"
  /\ \E result \in PollResults(pid) :
       /\ Poll(result)
       /\ bgjobinfo' = [bgjobinfo EXCEPT ![availableposition] =
                          [processID |-> pid, status |-> result,
                           numofcmd |-> counter, available |-> 0]]
  /\ pc' = "prompt"
  /\ UNCHANGED <<past, availableposition, slot, listed, alive, input,
                 errorcode, pid>>

(* read() leaves errorcode alone when the pipe is closed and empty.        *)
ReadPipe(p) == IF p = -1 \/ proc[p].pipe = -1 THEN errorcode ELSE proc[p].pipe

\* Any child that ends first is taken for the foreground process.
ForegroundAny == -1
Foreground    == pid

WaitForeground ==
  /\ pc = "wait"
  /\ WaitFor(Foreground)
  /\ errorcode' = ReadPipe(pid)
  /\ history' = [history EXCEPT ![commandposition].errorflag = errorcode']
  /\ pc' = "prompt"
  /\ UNCHANGED <<counter, commandposition, log, jobtable, input, pid>>

(* The child writes to the pipe before execvp(): 0, or with a redirection  *)
(* the errorcode it has inherited.  When execvp() fails it takes that out, *)
(* writes 1 and exits.  A null pointer as the program kills the child in   *)
(* execvp().                                                               *)
Found(args) == args.word \in Executables

\* The failing child does not take the first value out of the pipe.
AnswerAppended(p) == IF proc[p].redirect = 1 THEN proc[p].errorcode ELSE 0
Answer(p) == IF ~Found(proc[p].args) /\ proc[p].args # NoArgs THEN 1
             ELSE IF proc[p].redirect = 1 THEN proc[p].errorcode ELSE 0

\* The failing child reads a pipe nobody has written to, and waits for ever.
ChildExecReadsFirst(p) ==
  /\ proc[p].state = "forked" /\ Found(proc[p].args)
  /\ proc' = [proc EXCEPT ![p].state = "running", ![p].pipe = 0]
  /\ UNCHANGED <<past, jobtable, input, errorcode, pid, pc>>

ChildExec(p) ==
  /\ proc[p].state = "forked"
  /\ proc' = [proc EXCEPT
       ![p].state = IF Found(proc[p].args) THEN "running" ELSE "zombie",
       ![p].pipe = Answer(p)]
  /\ UNCHANGED <<past, jobtable, input, errorcode, pid, pc>>

ChildExit(p) == /\ proc[p].state = "running"
                /\ proc' = [proc EXCEPT ![p].state = "zombie"]
                /\ UNCHANGED <<past, jobtable, input, errorcode, pid, pc>>

-----------------------------------------------------------------------------
(* The built-in commands.                                                  *)

Exit == /\ pc = "exit"
        /\ pc' = "exited"
        /\ UNCHANGED <<past, jobtable, input, errorcode, pid, proc>>

(* getline() has nothing to read: exit(-1).                                *)
EndOfInput == /\ pc = "prompt"
              /\ pc' = "exited"
              /\ UNCHANGED <<past, jobtable, input, errorcode, pid, proc>>

(* displayhistorycmd() changes nothing.                                    *)
DisplayHistory == /\ pc = "history"
                  /\ pc' = "prompt"
                  /\ UNCHANGED <<past, jobtable, input, errorcode, pid, proc>>

Fg == /\ pc = "fg"
      /\ IF Current.args.arg = 0 THEN UNCHANGED proc
                                 ELSE WaitFor(Current.args.arg)
      /\ pc' = "prompt"
      /\ UNCHANGED <<past, jobtable, input, errorcode, pid>>

(* jobs: freejobs() polls every entry, those never used with process 0.    *)
JobsStart == /\ pc = "jobs"
             /\ pc' = "freejobs" /\ slot' = 0
             /\ listed' = {} /\ alive' = {p \in Children : ~Ended(p)}
             /\ UNCHANGED <<past, availableposition, bgjobinfo, input,
                            errorcode, pid, proc>>

\* Only a job that freejobs() reaps itself is taken out of the table.
FreeJobReapedOnly ==
  /\ pc = "freejobs" /\ slot < JobSlots
  /\ slot' = slot + 1
  /\ \E result \in PollResults(bgjobinfo[slot].processID) :
       /\ Poll(result)
       /\ bgjobinfo' = [bgjobinfo EXCEPT ![slot] =
            IF result > 0 /\ @.available = 0
              THEN [@ EXCEPT !.available = 1, !.status = -1]
              ELSE @]
  /\ UNCHANGED <<past, availableposition, listed, alive, input, errorcode,
                 pid, pc>>

FreeJob ==
  /\ pc = "freejobs" /\ slot < JobSlots
  /\ slot' = slot + 1
  /\ \E result \in PollResults(bgjobinfo[slot].processID) :
       /\ Poll(result)
       /\ bgjobinfo' = [bgjobinfo EXCEPT ![slot] =
            IF result # 0 /\ @.available = 0
              THEN [@ EXCEPT !.available = 1, !.status = -1]
              ELSE [@ EXCEPT !.status = result]]
  /\ UNCHANGED <<past, availableposition, listed, alive, input, errorcode,
                 pid, pc>>

(* freejobs() returns the first free position.  When there is none it ends *)
(* without a return statement; its value is then some position, those that *)
(* are not in the table left out.                                          *)
AvailableJobs == {i \in Jobs : bgjobinfo[i].available = 1}

JobsDone ==
  /\ pc = "freejobs" /\ slot = JobSlots
  /\ \E i \in Jobs :
       /\ AvailableJobs # {} => /\ i \in AvailableJobs
                                /\ \A j \in AvailableJobs : i <= j
       /\ availableposition' = i
  /\ listed' = {bgjobinfo[i].processID :
                  i \in {j \in Jobs : /\ bgjobinfo[j].available = 0
                                      /\ bgjobinfo[j].status = 0}}
  /\ pc' = "prompt"
  /\ UNCHANGED <<past, bgjobinfo, slot, alive, input, errorcode, pid, proc>>

ShellStep == \/ \E l \in Lines : ReadLine(l)
             \/ NotInHistory \/ FailedBefore \/ RunAgain
             \/ Fork \/ ForkFails \/ Register \/ WaitForeground
             \/ Exit \/ EndOfInput \/ DisplayHistory \/ Fg
             \/ JobsStart \/ FreeJob \/ JobsDone

ChildStep(p) == ChildExec(p) \/ ChildExit(p)

Next == ShellStep \/ \E p \in PIDs : ChildStep(p)

Spec == Init /\ [][Next]_vars

(* The shell and its children are scheduled, and the programs end.  Whether *)
(* the user types another line is up to the user.                          *)
FairSpec == /\ Spec
            /\ WF_vars(pc # "prompt" /\ ShellStep)
            /\ \A p \in PIDs : WF_vars(ChildStep(p))

-----------------------------------------------------------------------------
(* Properties.                                                             *)

Words == {"", "number"} \union Builtins \union Executables
           \union {l.args.word : l \in Lines}
Entry(p) == history[(proc[p].number - 1) % HistorySize]

(* Every variable keeps its range: commandposition stays inside history[], *)
(* availableposition inside bgjobinfo[], and errorcode is a flag.          *)
TypeOK ==
  /\ counter \in 0 .. MaxLines
  /\ commandposition \in Positions /\ DOMAIN history = Positions
  /\ \A i \in Positions : /\ history[i].args.word \in Words
                          /\ history[i].errorflag \in {0, 1}
                          /\ history[i].numofcmd \in 0 .. counter
                          /\ history[i].ifbg \in {0, 1}
  /\ availableposition \in Jobs /\ DOMAIN bgjobinfo = Jobs
  /\ \A i \in Jobs : /\ bgjobinfo[i].processID \in PIDs \union {-1, 0}
                     /\ bgjobinfo[i].status \in PIDs \union {-1, 0}
                     /\ bgjobinfo[i].available \in {0, 1}
  /\ {errorcode, ifredirection} \subseteq {0, 1}
  /\ pid \in PIDs \union {-1, 0} /\ slot \in 0 .. JobSlots
  /\ pc \in {"prompt", "number", "fork", "register", "wait", "freejobs",
             "exited"} \union Builtins

(* At the prompt, a stored command lies where runhistory() looks for its   *)
(* number, and no number is stored that is older than the last             *)
(* HistorySize: counting a refused number back and clearing its entry      *)
(* never displaces the others.                                             *)
HistoryNumbers ==
  pc = "prompt" =>
    \A i \in Positions :
      history[i].numofcmd # 0 =>
        /\ (history[i].numofcmd - 1) % HistorySize = i
        /\ history[i].numofcmd > counter - HistorySize
        /\ history[i].args = log[history[i].numofcmd].args
        /\ history[i].ifbg = log[history[i].numofcmd].bg

(* history shows the latest commands, as many as were typed or            *)
(* HistorySize: the entry a refused number has erased on its way is the one *)
(* the next command takes, so nothing that should be shown is missing.     *)
DisplayedLatest ==
  pc = "history" =>
    \A n \in 1 .. counter :
      n > counter - HistorySize =>
        history[(n - 1) % HistorySize].numofcmd = n

(* Typing one of the numbers that are still stored takes the words and the *)
(* & of the command that was given this number, whatever was typed,        *)
(* refused or re-run since.  The oldest number that runhistory() accepts   *)
(* is one whose entry the line just typed has taken: it takes no words at  *)
(* all, and those of no other command.  Words and & are all that a number  *)
(* brings back: the redirection is that of the line with the number, so    *)
(* `ls > out` is run again as `ls out`, and a built-in command is forked.  *)
RerunSameWords ==
  (pc = "fork" /\ ifhistory # 0) =>
    LET chosen == IF ifhistory > counter - HistorySize THEN log[ifhistory]
                                                       ELSE NoLine
    IN Current.args = chosen.args /\ Current.ifbg = chosen.bg

(* A command whose exec failed in the foreground is not run again by its   *)
(* number: runhistory() refuses what "produced one error before".          *)
NoFailedRerun ==
  (/\ pc = "fork" /\ ifhistory # 0
   /\ ifhistory > counter - HistorySize) =>
    \A p \in PIDs :
      (/\ proc[p].state = "reaped" /\ proc[p].number = ifhistory
       /\ proc[p].bg = 0 /\ proc[p].args # NoArgs) => Found(proc[p].args)

(* The errorflag of a foreground command is set when its exec failed, and  *)
(* only then unless its output was redirected: the value that is read from *)
(* the pipe is this child's, not a stale one.  A redirected child that     *)
(* works sends the errorcode it has inherited.                             *)
ErrorFlagSound ==
  pc = "prompt" =>
    \A p \in PIDs :
      (/\ proc[p].state = "reaped" /\ proc[p].bg = 0
       /\ proc[p].args # NoArgs /\ Entry(p).numofcmd = proc[p].number) =>
         IF Found(proc[p].args)
           THEN proc[p].redirect = 0 => Entry(p).errorflag = 0
           ELSE Entry(p).errorflag = 1

(* The prompt comes back only when every foreground process has ended and  *)
(* is reaped, whichever background process ends meanwhile.                 *)
ForegroundDone ==
  pc = "prompt" => \A p \in Children : proc[p].bg = 1

(* jobs shows only background processes that still ran when it began, fg   *)
(* or another poll having reaped none of them.  The one other entry it can *)
(* show is that of a failed fork(), process -1, and that only while some   *)
(* background process runs: waitpid() takes -1 for any child.              *)
ListedWereRunning ==
  \A p \in listed :
    IF p \in PIDs THEN p \in alive /\ proc[p].bg = 1
    ELSE p = -1 /\ \E q \in alive : proc[q].bg = 1

(* The shell never hangs: after every line it comes back to the prompt or  *)
(* exits, as waiting for a child, or for its answer in the pipe, ends.     *)
PromptReturns == (pc # "prompt") ~> (pc \in {"prompt", "exited"})

(* ReadMe.txt: jobs lists "all the jobs that are running in the background *)
(* at any given time".                                                     *)
JobsComplete ==
  [][JobsDone => \A p \in Children :
                   (proc[p].state = "running" /\ proc[p].bg = 1)
                     => p \in listed']_vars
=============================================================================
