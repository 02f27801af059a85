----------------------------- MODULE ShellProof -----------------------------
(***************************************************************************)
(* Proofs about Shell.tla for a history and a job table of any length, any *)
(* lines and any number of lines and processes.                            *)
(***************************************************************************)
EXTENDS Shell, TLAPS

USE SizesAssumption, LinesAssumption

-----------------------------------------------------------------------------
(* Types.                                                                  *)

Args       == {NoArgs} \union {l.args : l \in Lines}
Commands   == [args : Args, errorflag : {0, 1}, numofcmd : Nat, ifbg : {0, 1}]
Logged     == [args : Args, bg : {0, 1}]
Results    == PIDs \union {-1, 0}
JobEntries == [processID : Results, status : Results, numofcmd : Nat,
               available : {0, 1}]
States     == {"unused", "forked", "running", "zombie", "reaped"}
Processes  == [state : States, args : Args, number : Nat, bg : {0, 1},
               redirect : {0, 1}, errorcode : {0, 1}, pipe : {-1, 0, 1}]
Labels     == {"prompt", "number", "fork", "register", "wait", "freejobs",
               "exited"} \union Builtins

Types ==
  /\ counter \in Nat /\ typed \in Nat /\ counter <= typed /\ typed <= MaxLines
  /\ commandposition \in Positions
  /\ history \in [Positions -> Commands]
  /\ log \in [1 .. MaxLines -> Logged]
  /\ availableposition \in Jobs
  /\ bgjobinfo \in [Jobs -> JobEntries]
  /\ errorcode \in {0, 1} /\ ifredirection \in {0, 1}
  /\ ifhistory \in Int
  /\ pid \in Results /\ (pc \in {"wait", "register"} => pid # 0)
  /\ slot \in 0 .. JobSlots
  /\ pc \in Labels
  /\ pc \notin {"prompt", "exited"} => counter >= 1
  /\ proc \in [PIDs -> Processes]

LEMMA ArgsType == \A a \in Args : a.arg \in Int
<1>1. NoArgs.arg \in Int
  BY DEF NoArgs
<1>2. \A l \in Lines : l.args.arg \in Int
  BY LinesAssumption, Zenon
<1>3. QED BY <1>1, <1>2, Zenon DEF Args

LEMMA NotARecord == NoArgs \in Args /\ NoLine \in Logged
  BY DEF Args, NoLine, Logged

LEMMA Remainder == \A n \in Int : n % HistorySize \in Positions
  BY DEF Positions

(* At most one child is reaped, and nothing else happens to it.            *)
LEMMA ReapType ==
  ASSUME proc \in [PIDs -> Processes], NEW p \in PIDs, Reap(p)
  PROVE  proc' \in [PIDs -> Processes]
  BY DEF Reap, Processes, States

LEMMA WaitedForPIDs == \A p \in Results : WaitedFor(p) \subseteq PIDs
  BY DEF WaitedFor, Children

LEMMA PollType ==
  ASSUME proc \in [PIDs -> Processes], NEW p \in Results,
         NEW result \in PollResults(p), Poll(result)
  PROVE  result \in Results /\ proc' \in [PIDs -> Processes]
<1>1. result \in Results
  BY WaitedForPIDs DEF PollResults, Results
<1>2. result > 0 => result \in PIDs
  BY <1>1 DEF Results, PIDs
<1>3. QED BY <1>1, <1>2, ReapType DEF Poll

LEMMA WaitForType ==
  ASSUME proc \in [PIDs -> Processes], NEW p, WaitFor(p)
  PROVE  proc' \in [PIDs -> Processes]
<1>1. WaitedFor(p) \subseteq PIDs
  BY DEF WaitedFor, Children
<1>2. QED BY <1>1, ReapType DEF WaitFor

LEMMA ChildStepType ==
  ASSUME proc \in [PIDs -> Processes], NEW p \in PIDs, ChildStep(p)
  PROVE  proc' \in [PIDs -> Processes]
<1>1. proc[p] \in Processes /\ Answer(p) \in {-1, 0, 1}
  BY DEF Answer, Processes
<1>2. CASE ChildExec(p)
  <2>1. PICK state \in States :
          proc' = [proc EXCEPT ![p].state = state, ![p].pipe = Answer(p)]
    BY <1>2 DEF ChildExec, States
  <2>2. QED BY <1>1, <2>1 DEF Processes
<1>3. CASE ChildExit(p)
  BY <1>3 DEF ChildExit, Processes, States
<1>4. QED BY <1>2, <1>3 DEF ChildStep

LEMMA TypesInit == Init => Types
<1>1. SUFFICES ASSUME Init PROVE Types
  OBVIOUS
<1>2. Cleared \in Commands /\ NoArgs \in Args /\ NoLine \in Logged
  BY NotARecord DEF Cleared, Commands
<1>3. Unused \in Processes
  BY <1>2 DEF Unused, Processes, States
<1>4. [processID |-> 0, status |-> -1, numofcmd |-> 0, available |-> 1]
        \in JobEntries
  BY DEF JobEntries, Results
<1>5. QED BY <1>1, <1>2, <1>3, <1>4
          DEF Init, Types, Results, Labels, Positions, Jobs

LEMMA TypesStep == Types /\ [Next]_vars => Types'
<1>1. SUFFICES ASSUME Types, [Next]_vars PROVE Types'
  OBVIOUS
<1> USE DEF Types
<1>2. ASSUME NEW l \in Lines, ReadLine(l) PROVE Types'
  <2>1. NextPosition \in Positions
    <3>1. counter \in Int
      BY <1>1
    <3>2. QED BY <3>1, Remainder, Zenon DEF NextPosition
  <2>2. l.args \in Args /\ l.args.arg \in Int /\ l.bg \in {0, 1}
        /\ l.redirect \in {0, 1}
    BY DEF Args
  <2>3. counter + 1 \in 1 .. MaxLines
    BY <1>1, <1>2 DEF ReadLine
  <2>4. history' \in [Positions -> Commands]
    BY <1>1, <1>2, <2>1, <2>2, <2>3 DEF ReadLine, Commands
  <2>5. log' \in [1 .. MaxLines -> Logged]
    BY <1>1, <1>2, <2>2, <2>3 DEF ReadLine, Logged
  <2>6. pc' \in Labels \ {"wait", "register"}
    BY <1>2 DEF ReadLine, Labels, Builtins
  <2>7. QED BY <1>1, <1>2, <2>1, <2>2, <2>3, <2>4, <2>5, <2>6
            DEF ReadLine, jobtable
<1>3. ASSUME Forget, pc = "number" PROVE Types'
  <2>1. history' \in [Positions -> Commands]
    BY <1>1, <1>3, NotARecord DEF Forget, Cleared, Commands
  <2>2. log' \in [1 .. MaxLines -> Logged]
    BY <1>1, <1>3, NotARecord DEF Forget
  <2>3. QED BY <1>1, <1>3, <2>1, <2>2 DEF Forget, jobtable, input, Labels
<1>4. ASSUME RunAgain PROVE Types'
  <2>1. originindex \in Positions
    <3>1. ifhistory - 1 \in Int
      BY <1>1
    <3>2. QED BY <3>1, Remainder, Zenon DEF originindex
  <2>2. Origin \in Commands
    BY <1>1, <2>1, NotARecord DEF Origin, Cleared, Commands
  <2>3. history' \in [Positions -> Commands]
    BY <1>1, <1>4, <2>2 DEF RunAgain, Commands
  <2>4. log' \in [1 .. MaxLines -> Logged]
    BY <1>1, <1>4, <2>2 DEF RunAgain, Commands, Logged
  <2>5. QED BY <1>1, <1>4, <2>3, <2>4 DEF RunAgain, jobtable, input, Labels
<1>5. ASSUME Fork PROVE Types'
  <2>1. Current \in Commands
    BY <1>1 DEF Current
  <2>2. PICK p \in PIDs :
          /\ pid' = p
          /\ proc' = [proc EXCEPT ![p] =
               [state |-> "forked", args |-> Current.args,
                number |-> counter, bg |-> Current.ifbg,
                redirect |-> ifredirection, errorcode |-> errorcode,
                pipe |-> -1]]
    BY <1>5 DEF Fork
  <2>3. proc' \in [PIDs -> Processes]
    BY <1>1, <2>1, <2>2 DEF Processes, States, Commands
  <2>4. pid' \in Results /\ pid' # 0
    BY <2>2 DEF Results, PIDs
  <2>5. QED BY <1>1, <1>5, <2>3, <2>4 DEF Fork, past, jobtable, input, Labels
<1>6. ASSUME ForkFails PROVE Types'
  BY <1>1, <1>6 DEF ForkFails, past, jobtable, input, Labels, Results
<1>7. ASSUME Register PROVE Types'
  <2>1. PICK result \in PollResults(pid) :
          /\ Poll(result)
          /\ bgjobinfo' = [bgjobinfo EXCEPT ![availableposition] =
               [processID |-> pid, status |-> result,
                numofcmd |-> counter, available |-> 0]]
    BY <1>7 DEF Register
  <2>2. result \in Results /\ proc' \in [PIDs -> Processes]
    BY <1>1, <2>1, PollType
  <2>3. bgjobinfo' \in [Jobs -> JobEntries]
    BY <1>1, <2>1, <2>2 DEF JobEntries
  <2>4. QED BY <1>1, <1>7, <2>2, <2>3 DEF Register, past, input, Labels
<1>8. ASSUME WaitForeground PROVE Types'
  <2>1. proc' \in [PIDs -> Processes]
    BY <1>1, <1>8, WaitForType DEF WaitForeground
  <2>2. errorcode' \in {0, 1}
    BY <1>1, <1>8 DEF WaitForeground, ReadPipe, Results, Processes
  <2>3. history' \in [Positions -> Commands]
    BY <1>1, <1>8, <2>2 DEF WaitForeground, Commands
  <2>4. QED BY <1>1, <1>8, <2>1, <2>2, <2>3
            DEF WaitForeground, jobtable, input, Labels
<1>9. ASSUME Exit \/ EndOfInput \/ DisplayHistory PROVE Types'
  BY <1>1, <1>9
     DEF Exit, EndOfInput, DisplayHistory, past, jobtable, input, Labels
<1>10. ASSUME Fg PROVE Types'
  <2>1. proc' \in [PIDs -> Processes]
    BY <1>1, <1>10, WaitForType DEF Fg
  <2>2. QED BY <1>1, <1>10, <2>1 DEF Fg, past, jobtable, input, Labels
<1>11. ASSUME JobsStart PROVE Types'
  BY <1>1, <1>11 DEF JobsStart, past, input, Labels
<1>12. ASSUME FreeJob PROVE Types'
  <2>1. slot \in Jobs /\ slot' \in 0 .. JobSlots
    BY <1>1, <1>12 DEF FreeJob, Jobs
  <2>2. bgjobinfo[slot].processID \in Results
    BY <1>1, <2>1 DEF JobEntries
  <2>3. PICK result \in PollResults(bgjobinfo[slot].processID) :
          /\ Poll(result)
          /\ bgjobinfo' = [bgjobinfo EXCEPT ![slot] =
               IF result # 0 /\ @.available = 0
                 THEN [@ EXCEPT !.available = 1, !.status = -1]
                 ELSE [@ EXCEPT !.status = result]]
    BY <1>12 DEF FreeJob
  <2>4. result \in Results /\ proc' \in [PIDs -> Processes]
    BY <1>1, <2>2, <2>3, PollType
  <2>5. bgjobinfo' \in [Jobs -> JobEntries]
    <3>1. bgjobinfo[slot] \in JobEntries
      BY <1>1, <2>1
    <3>2. [bgjobinfo[slot] EXCEPT !.available = 1, !.status = -1]
            \in JobEntries
      BY <3>1 DEF JobEntries, Results
    <3>3. [bgjobinfo[slot] EXCEPT !.status = result] \in JobEntries
      BY <3>1, <2>4 DEF JobEntries
    <3>4. QED BY <1>1, <2>1, <2>3, <3>2, <3>3
  <2>6. QED BY <1>1, <1>12, <2>1, <2>4, <2>5 DEF FreeJob, past, input, Labels
<1>13. ASSUME JobsDone PROVE Types'
  BY <1>1, <1>13 DEF JobsDone, past, input, Labels
<1>14. ASSUME NEW p \in PIDs, ChildStep(p) PROVE Types'
  <2>1. proc' \in [PIDs -> Processes]
    BY <1>1, <1>14, ChildStepType
  <2>2. QED BY <1>1, <1>14, <2>1
            DEF ChildStep, ChildExec, ChildExit, past, jobtable, input
<1>15. ASSUME UNCHANGED vars PROVE Types'
  BY <1>1, <1>15 DEF vars, past, jobtable, input
<1>16. QED
  BY <1>1, <1>2, <1>3, <1>4, <1>5, <1>6, <1>7, <1>8, <1>9, <1>10, <1>11,
     <1>12, <1>13, <1>14, <1>15
     DEF Next, ShellStep, NotInHistory, FailedBefore

LEMMA TypesInvariant == Spec => []Types
BY TypesInit, TypesStep, PTL DEF Spec

-----------------------------------------------------------------------------
(* The history.                                                            *)

Place(n) == (n - 1) % HistorySize

AtPosition ==
  pc \notin {"prompt", "exited"} => commandposition = Place(counter)

(* HistoryNumbers between any two steps.                                   *)
Numbered ==
  \A i \in Positions :
    history[i].numofcmd # 0 =>
      /\ Place(history[i].numofcmd) = i
      /\ history[i].numofcmd > counter - HistorySize
      /\ history[i].numofcmd <= counter
      /\ history[i].args = log[history[i].numofcmd].args
      /\ history[i].ifbg = log[history[i].numofcmd].bg

(* While a line is run the last HistorySize commands are all there.  At    *)
(* the prompt the oldest may be missing: a refused number has erased it,   *)
(* and the next line takes its place.                                      *)
Oldest == IF pc \in {"prompt", "exited"} THEN counter + 2 - HistorySize
                                         ELSE counter + 1 - HistorySize
Kept   == \A n \in 1 .. counter :
            n >= Oldest => history[Place(n)].numofcmd = n

HistoryInv == AtPosition /\ Numbered /\ Kept /\ RerunSameWords

LEMMA PlaceType == \A n \in Int : Place(n) \in Positions
  BY DEF Place, Positions

LEMMA PlaceNext ==
  ASSUME NEW n \in Int
  PROVE  Place(n + 1) = n % HistorySize
<1>1. n + 1 - 1 = n
  OBVIOUS
<1>2. QED BY <1>1 DEF Place

LEMMA PlaceRound ==
  ASSUME NEW n \in Int
  PROVE  Place(n - HistorySize) = Place(n)
<1> DEFINE q == (n - 1) \div HistorySize
           r == (n - 1) % HistorySize
<1>1. /\ q \in Int /\ r \in 0 .. HistorySize - 1
      /\ n - 1 = HistorySize * q + r
  OBVIOUS
<1> HIDE DEF q, r
<1>2. n - HistorySize - 1 = HistorySize * (q - 1) + r /\ q - 1 \in Int
  BY <1>1
<1>3. (HistorySize * (q - 1) + r) % HistorySize = r
  BY <1>1, <1>2
<1>4. QED BY <1>2, <1>3 DEF Place, r

LEMMA PlaceInjective ==
  ASSUME NEW m \in Int, NEW n \in Int, m < n, n - m < HistorySize
  PROVE  Place(m) # Place(n)
<1> DEFINE p == (m - 1) \div HistorySize
           q == (n - 1) \div HistorySize
<1>1. /\ p \in Int /\ q \in Int
      /\ m - 1 = HistorySize * p + Place(m)
      /\ n - 1 = HistorySize * q + Place(n)
  BY DEF Place
<1>2. Place(m) \in Int /\ Place(n) \in Int
  BY PlaceType DEF Positions
<1>3. SUFFICES ASSUME Place(m) = Place(n) PROVE FALSE
  OBVIOUS
<1> HIDE DEF p, q
<1>4. n - m = HistorySize * (q - p)
  BY <1>1, <1>2, <1>3
<1>5. \A k \in Int : /\ k >= 1 => HistorySize * k >= HistorySize
                     /\ k <= 0 => HistorySize * k <= 0
  OBVIOUS
<1>6. q - p \in Int /\ (q - p >= 1 \/ q - p <= 0)
  BY <1>1
<1>7. QED BY <1>4, <1>5, <1>6

LEMMA HistoryInit == Init => HistoryInv
<1>1. SUFFICES ASSUME Init PROVE HistoryInv
  OBVIOUS
<1>2. AtPosition /\ RerunSameWords
  BY <1>1 DEF Init, AtPosition, RerunSameWords
<1>3. Numbered
  BY <1>1 DEF Init, Numbered, Cleared
<1>4. Kept
  BY <1>1 DEF Init, Kept
<1>5. QED BY <1>2, <1>3, <1>4 DEF HistoryInv

(* A step that leaves numbers and commands alone.                          *)
LEMMA HistoryFrame ==
  ASSUME Types, HistoryInv,
         UNCHANGED <<counter, commandposition, log, ifhistory>>,
         \A i \in Positions : /\ history'[i].numofcmd = history[i].numofcmd
                              /\ history'[i].args = history[i].args
                              /\ history'[i].ifbg = history[i].ifbg,
         pc' # pc => /\ pc' # "fork"
                     /\ pc' \in {"prompt", "exited"}
                          \/ pc \notin {"prompt", "exited"}
  PROVE  HistoryInv'
<1>1. counter \in Int /\ counter' = counter /\ commandposition \in Positions
  BY DEF Types
<1>2. AtPosition'
  BY <1>1 DEF HistoryInv, AtPosition, Place
<1>3. Numbered'
  BY <1>1 DEF HistoryInv, Numbered, Place
<1>4. Kept'
  <2>1. Oldest' >= Oldest /\ Oldest \in Int /\ Oldest' \in Int
    BY <1>1 DEF Oldest
  <2>2. ASSUME NEW n \in 1 .. counter, n >= Oldest'
        PROVE  history'[Place(n)].numofcmd = n
    <3>1. Place(n) \in Positions
      BY PlaceType
    <3>2. history[Place(n)].numofcmd = n
      BY <1>1, <2>1, <2>2 DEF HistoryInv, Kept
    <3>3. QED BY <3>1, <3>2
  <2>3. QED BY <1>1, <2>2 DEF Kept, Place
<1>5. RerunSameWords'
  BY <1>1 DEF HistoryInv, RerunSameWords, Current
<1>6. QED BY <1>2, <1>3, <1>4, <1>5 DEF HistoryInv

(* A new line takes the place of the oldest.                               *)
LEMMA HistoryReadLine ==
  ASSUME Types, HistoryInv, NEW l \in Lines, ReadLine(l)
  PROVE  HistoryInv'
<1>1. /\ counter \in Nat /\ counter' = counter + 1 /\ pc = "prompt"
      /\ counter + 1 \in 1 .. MaxLines
      /\ commandposition' = Place(counter')
      /\ NextPosition = Place(counter') /\ NextPosition \in Positions
  <2>1. counter \in Nat /\ counter \in Int
    BY DEF Types
  <2>2. NextPosition = Place(counter + 1)
    BY <2>1, PlaceNext, Zenon DEF NextPosition
  <2>3. NextPosition \in Positions
    BY <2>1, Remainder, Zenon DEF NextPosition
  <2>4. QED BY <2>1, <2>2, <2>3 DEF Types, ReadLine
<1>2. history' = [history EXCEPT ![Place(counter')] =
                    [args |-> l.args, errorflag |-> 0,
                     numofcmd |-> counter + 1, ifbg |-> l.bg]]
  BY <1>1 DEF ReadLine
<1>3. history \in [Positions -> Commands] /\ log \in [1 .. MaxLines -> Logged]
  BY DEF Types
<1>4. log' = [log EXCEPT ![counter + 1] =
                [args |-> l.args, bg |-> l.bg]]
  BY DEF ReadLine
<1>5. AtPosition'
  BY <1>1 DEF AtPosition, Place
<1>6. Numbered'
  <2>1. SUFFICES ASSUME NEW i \in Positions, history'[i].numofcmd # 0
                 PROVE  /\ Place(history'[i].numofcmd) = i
                        /\ history'[i].numofcmd > counter' - HistorySize
                        /\ history'[i].numofcmd <= counter'
                        /\ history'[i].args = log'[history'[i].numofcmd].args
                        /\ history'[i].ifbg = log'[history'[i].numofcmd].bg
    BY DEF Numbered, Place
  <2>2. CASE i = Place(counter')
    <3>1. /\ history'[i].numofcmd = counter + 1
          /\ history'[i].args = l.args /\ history'[i].ifbg = l.bg
      BY <1>1, <1>2, <1>3, <2>2
    <3>2. log'[counter + 1].args = l.args /\ log'[counter + 1].bg = l.bg
      BY <1>1, <1>3, <1>4
    <3>3. QED BY <1>1, <2>2, <3>1, <3>2
  <2>3. CASE i # Place(counter')
    <3>1. history'[i] = history[i]
      BY <1>1, <1>2, <1>3, <2>3
    <3>2. /\ Place(history[i].numofcmd) = i
          /\ history[i].numofcmd > counter - HistorySize
          /\ history[i].numofcmd <= counter
          /\ history[i].args = log[history[i].numofcmd].args
          /\ history[i].ifbg = log[history[i].numofcmd].bg
      BY <2>1, <3>1 DEF HistoryInv, Numbered
    <3>3. history[i].numofcmd \in Nat
      BY <1>3 DEF Commands
    <3>4. history[i].numofcmd # counter' - HistorySize
      BY <1>1, <2>3, <3>2, PlaceRound
    <3>5. log'[history[i].numofcmd] = log[history[i].numofcmd]
      BY <1>1, <1>3, <1>4, <2>1, <3>1, <3>2, <3>3
    <3>6. QED BY <1>1, <3>1, <3>2, <3>3, <3>4, <3>5
  <2>4. QED BY <2>2, <2>3
<1>7. Kept'
  <2>1. SUFFICES ASSUME NEW n \in 1 .. counter', n >= Oldest'
                 PROVE  history'[Place(n)].numofcmd = n
    BY DEF Kept, Place
  <2>2. pc' \notin {"prompt", "exited"}
    BY DEF ReadLine, Builtins
  <2>3. Oldest' = counter + 2 - HistorySize /\ Oldest = Oldest'
    BY <1>1, <2>2 DEF Oldest
  <2>4. CASE n = counter'
    BY <1>1, <1>2, <1>3, <2>4
  <2>5. CASE n # counter'
    <3>1. n \in 1 .. counter /\ history[Place(n)].numofcmd = n
      BY <1>1, <2>1, <2>3, <2>5 DEF HistoryInv, Kept
    <3>2. Place(n) # Place(counter')
      BY <1>1, <2>1, <2>3, <3>1, PlaceInjective
    <3>3. Place(n) \in Positions
      BY PlaceType
    <3>4. QED BY <1>2, <1>3, <3>1, <3>2, <3>3
  <2>6. QED BY <2>4, <2>5
<1>8. RerunSameWords'
  BY DEF ReadLine, RerunSameWords
<1>9. QED BY <1>5, <1>6, <1>7, <1>8 DEF HistoryInv

(* A refused number is counted back, and its entry is cleared.             *)
LEMMA HistoryForget ==
  ASSUME Types, HistoryInv, Forget, pc = "number"
  PROVE  HistoryInv'
<1>1. /\ counter \in Nat \ {0} /\ counter' = counter - 1
      /\ commandposition = Place(counter) /\ commandposition \in Positions
      /\ pc' = "prompt" /\ counter <= MaxLines /\ MaxLines \in Nat
  BY DEF Types, HistoryInv, AtPosition, Forget
<1>2. history \in [Positions -> Commands] /\ log \in [1 .. MaxLines -> Logged]
  BY DEF Types
<1>3. /\ history' = [history EXCEPT ![commandposition] = Cleared]
      /\ log' = [log EXCEPT ![counter] = NoLine]
  BY DEF Forget
<1>4. Numbered'
  <2>1. SUFFICES ASSUME NEW i \in Positions, history'[i].numofcmd # 0
                 PROVE  /\ Place(history'[i].numofcmd) = i
                        /\ history'[i].numofcmd > counter' - HistorySize
                        /\ history'[i].numofcmd <= counter'
                        /\ history'[i].args = log'[history'[i].numofcmd].args
                        /\ history'[i].ifbg = log'[history'[i].numofcmd].bg
    BY DEF Numbered, Place
  <2>2. i # commandposition /\ history'[i] = history[i]
    BY <1>1, <1>2, <1>3, <2>1 DEF Cleared
  <2>3. /\ Place(history[i].numofcmd) = i
        /\ history[i].numofcmd > counter - HistorySize
        /\ history[i].numofcmd <= counter
        /\ history[i].args = log[history[i].numofcmd].args
        /\ history[i].ifbg = log[history[i].numofcmd].bg
    BY <2>1, <2>2 DEF HistoryInv, Numbered
  <2>4. history[i].numofcmd \in Nat /\ history[i].numofcmd # counter
    BY <1>1, <1>2, <2>2, <2>3 DEF Commands
  <2>5. log'[history[i].numofcmd] = log[history[i].numofcmd]
    BY <1>1, <1>2, <1>3, <2>1, <2>2, <2>3, <2>4
  <2>6. QED BY <1>1, <2>2, <2>3, <2>4, <2>5
<1>5. Kept'
  <2>1. SUFFICES ASSUME NEW n \in 1 .. counter', n >= Oldest'
                 PROVE  history'[Place(n)].numofcmd = n
    BY DEF Kept, Place
  <2>2. Oldest' = counter + 1 - HistorySize /\ Oldest = Oldest'
    BY <1>1 DEF Oldest
  <2>3. n \in 1 .. counter /\ n < counter /\ history[Place(n)].numofcmd = n
    BY <1>1, <2>1, <2>2 DEF HistoryInv, Kept
  <2>4. Place(n) # Place(counter) /\ Place(n) \in Positions
    BY <1>1, <2>1, <2>2, <2>3, PlaceInjective, PlaceType
  <2>5. QED BY <1>1, <1>2, <1>3, <2>3, <2>4
<1>6. AtPosition' /\ RerunSameWords'
  BY <1>1 DEF AtPosition, RerunSameWords
<1>7. QED BY <1>4, <1>5, <1>6 DEF HistoryInv

(* The entry of a number that is run again.                                *)
LEMMA OriginOfNumber ==
  ASSUME Types, HistoryInv, pc = "number", InHistory
  PROVE  /\ ifhistory \in 1 .. counter - 1
         /\ originindex = Place(ifhistory) /\ originindex \in Positions
         /\ ifhistory > counter - HistorySize =>
              /\ originindex # commandposition
              /\ history[originindex].numofcmd = ifhistory
         /\ ifhistory <= counter - HistorySize =>
              originindex = commandposition
<1>1. /\ counter \in Nat \ {0} /\ commandposition = Place(counter)
      /\ ifhistory \in 1 .. counter - 1
      /\ ifhistory >= counter - HistorySize
  BY DEF Types, HistoryInv, AtPosition, InHistory
<1>2. originindex = Place(ifhistory) /\ originindex \in Positions
  BY <1>1, PlaceType DEF originindex, Place
<1>3. CASE ifhistory > counter - HistorySize
  <2>1. Place(ifhistory) # Place(counter)
    BY <1>1, <1>3, PlaceInjective
  <2>2. history[Place(ifhistory)].numofcmd = ifhistory
    BY <1>1, <1>3 DEF HistoryInv, Kept, Oldest
  <2>3. QED BY <1>1, <1>2, <1>3, <2>1, <2>2
<1>4. CASE ifhistory <= counter - HistorySize
  <2>1. ifhistory = counter - HistorySize
    BY <1>1, <1>4
  <2>2. Place(ifhistory) = Place(counter)
    BY <1>1, <2>1, PlaceRound
  <2>3. QED BY <1>1, <1>2, <1>4, <2>2
<1>5. QED BY <1>1, <1>3, <1>4

LEMMA HistoryRunAgain ==
  ASSUME Types, HistoryInv, RunAgain
  PROVE  HistoryInv'
<1>1. /\ counter \in Nat \ {0} /\ counter' = counter /\ pc = "number"
      /\ pc' = "fork" /\ commandposition' = commandposition
      /\ commandposition = Place(counter) /\ commandposition \in Positions
      /\ counter <= MaxLines /\ MaxLines \in Nat /\ ifhistory' = ifhistory
  BY DEF Types, HistoryInv, AtPosition, RunAgain, input
<1>2. history \in [Positions -> Commands] /\ log \in [1 .. MaxLines -> Logged]
  BY DEF Types
<1>3. /\ history' = [history EXCEPT ![commandposition] =
                       [args |-> Origin.args, errorflag |-> 0,
                        numofcmd |-> counter, ifbg |-> Origin.ifbg]]
      /\ log' = [log EXCEPT ![counter] =
                   [args |-> Origin.args, bg |-> Origin.ifbg]]
  BY DEF RunAgain
<1>4. history[commandposition].numofcmd = counter
  BY <1>1 DEF HistoryInv, Kept, Oldest
<1>5. \A i \in Positions : history'[i].numofcmd = history[i].numofcmd
  BY <1>1, <1>2, <1>3, <1>4
<1>6. AtPosition'
  BY <1>1 DEF AtPosition, Place
<1>7. Numbered'
  <2>1. SUFFICES ASSUME NEW i \in Positions, history'[i].numofcmd # 0
                 PROVE  /\ Place(history'[i].numofcmd) = i
                        /\ history'[i].numofcmd > counter' - HistorySize
                        /\ history'[i].numofcmd <= counter'
                        /\ history'[i].args = log'[history'[i].numofcmd].args
                        /\ history'[i].ifbg = log'[history'[i].numofcmd].bg
    BY DEF Numbered, Place
  <2>2. /\ Place(history[i].numofcmd) = i
        /\ history[i].numofcmd > counter - HistorySize
        /\ history[i].numofcmd <= counter
        /\ history[i].args = log[history[i].numofcmd].args
        /\ history[i].ifbg = log[history[i].numofcmd].bg
    BY <1>5, <2>1 DEF HistoryInv, Numbered
  <2>3. history[i].numofcmd \in 1 .. MaxLines
    BY <1>1, <1>2, <1>5, <2>1, <2>2 DEF Commands
  <2>4. /\ history'[i].args = log'[history[i].numofcmd].args
        /\ history'[i].ifbg = log'[history[i].numofcmd].bg
    <3>1. CASE i = commandposition
      BY <1>1, <1>2, <1>3, <1>4, <3>1
    <3>2. CASE i # commandposition
      <4>1. history[i].numofcmd # counter
        BY <1>1, <2>2, <3>2
      <4>2. QED BY <1>1, <1>2, <1>3, <2>2, <2>3, <3>2, <4>1
    <3>3. QED BY <3>1, <3>2
  <2>5. QED BY <1>1, <1>5, <2>2, <2>4
<1>8. Kept'
  <2>1. Oldest' = Oldest
    BY <1>1 DEF Oldest
  <2>2. ASSUME NEW n \in 1 .. counter, n >= Oldest
        PROVE  history'[Place(n)].numofcmd = n
    BY <1>5, <2>2, PlaceType DEF HistoryInv, Kept
  <2>3. QED BY <1>1, <2>1, <2>2 DEF Kept, Place
<1>9. RerunSameWords'
  <2>1. InHistory
    BY DEF RunAgain
  <2>2. /\ ifhistory \in 1 .. counter - 1 /\ originindex \in Positions
        /\ originindex = Place(ifhistory)
        /\ ifhistory > counter - HistorySize =>
             /\ originindex # commandposition
             /\ history[originindex].numofcmd = ifhistory
        /\ ifhistory <= counter - HistorySize => originindex = commandposition
    BY <1>1, <2>1, OriginOfNumber
  <2>3. Current'.args = Origin.args /\ Current'.ifbg = Origin.ifbg
    BY <1>1, <1>2, <1>3 DEF Current
  <2>4. CASE ifhistory > counter - HistorySize
    <3>1. Origin = history[originindex]
      BY <1>2, <2>2, <2>4 DEF Origin
    <3>2. /\ history[originindex].args = log[ifhistory].args
          /\ history[originindex].ifbg = log[ifhistory].bg
      BY <2>2, <2>4 DEF HistoryInv, Numbered
    <3>3. log'[ifhistory] = log[ifhistory]
      BY <1>1, <1>2, <1>3, <2>2
    <3>4. QED BY <1>1, <2>3, <2>4, <3>1, <3>2, <3>3 DEF RerunSameWords
  <2>5. CASE ifhistory <= counter - HistorySize
    <3>1. Origin = Cleared
      BY <1>1, <1>2, <2>2, <2>5 DEF Origin
    <3>2. Current'.args = NoLine.args /\ Current'.ifbg = NoLine.bg
      BY <2>3, <3>1 DEF Cleared, NoLine
    <3>3. ~(ifhistory > counter - HistorySize)
      BY <1>1, <2>2, <2>5
    <3>4. QED BY <1>1, <3>2, <3>3 DEF RerunSameWords
  <2>6. QED BY <1>1, <2>2, <2>4, <2>5
<1>10. QED BY <1>6, <1>7, <1>8, <1>9 DEF HistoryInv

LEMMA HistoryStep == Types /\ HistoryInv /\ [Next]_vars => HistoryInv'
<1>1. SUFFICES ASSUME Types, HistoryInv, [Next]_vars PROVE HistoryInv'
  OBVIOUS
<1>2. CASE \E l \in Lines : ReadLine(l)
  BY <1>1, <1>2, HistoryReadLine
<1>3. CASE NotInHistory \/ FailedBefore
  BY <1>1, <1>3, HistoryForget DEF NotInHistory, FailedBefore
<1>4. CASE RunAgain
  BY <1>1, <1>4, HistoryRunAgain
<1>5. CASE WaitForeground
  <2>1. /\ UNCHANGED <<counter, commandposition, log, ifhistory>>
        /\ history' = [history EXCEPT ![commandposition].errorflag = errorcode']
        /\ pc = "wait" /\ pc' = "prompt"
    BY <1>5 DEF WaitForeground, input
  <2>2. \A i \in Positions : /\ history'[i].numofcmd = history[i].numofcmd
                             /\ history'[i].args = history[i].args
                             /\ history'[i].ifbg = history[i].ifbg
    BY <1>1, <2>1 DEF Types, Commands
  <2>3. QED BY <1>1, <2>1, <2>2, HistoryFrame
<1>6. ASSUME UNCHANGED past, UNCHANGED ifhistory,
             pc' # pc => /\ pc' # "fork"
                         /\ pc' \in {"prompt", "exited"}
                              \/ pc \notin {"prompt", "exited"}
      PROVE  HistoryInv'
  BY <1>1, <1>6, HistoryFrame DEF past
<1>7. CASE Fork \/ ForkFails \/ Register \/ Exit \/ EndOfInput
             \/ DisplayHistory \/ Fg \/ JobsStart \/ FreeJob \/ JobsDone
  BY <1>6, <1>7
     DEF Fork, ForkFails, Register, Exit, EndOfInput, DisplayHistory, Fg,
         JobsStart, FreeJob, JobsDone, input
<1>8. CASE \E p \in PIDs : ChildStep(p)
  BY <1>6, <1>8 DEF ChildStep, ChildExec, ChildExit, input
<1>9. CASE UNCHANGED vars
  BY <1>6, <1>9 DEF vars, input
<1>10. QED
  BY <1>1, <1>2, <1>3, <1>4, <1>5, <1>7, <1>8, <1>9 DEF Next, ShellStep

LEMMA HistoryInvariant == Spec => [](Types /\ HistoryInv)
BY TypesInit, TypesStep, HistoryInit, HistoryStep, PTL DEF Spec

-----------------------------------------------------------------------------
(* The children.  Only the process the shell waits for can be a foreground *)
(* process, the number of a child is that of no later line, and the entry  *)
(* of a foreground command has the answer of its own child.                *)

AtPrompt == {"prompt", "exited"}
AfterFork == {"wait", "register"}

Pipes(p) == proc[p].state \in {"running", "zombie", "reaped"}
              => proc[p].pipe = Answer(p)
Number(p) == proc[p].state # "unused"
               => /\ proc[p].number \in 1 .. counter
                  /\ proc[p].number = counter
                       => pc \in AtPrompt \/ (pc \in AfterFork /\ p = pid)
Background(p) == p \in Children /\ proc[p].bg = 0 => pc = "wait" /\ p = pid
Flag(p) == (/\ proc[p].state = "reaped" /\ proc[p].bg = 0
            /\ Entry(p).numofcmd = proc[p].number)
             => Entry(p).errorflag = Answer(p)
ChildInv(p) == Pipes(p) /\ Number(p) /\ Background(p) /\ Flag(p)

PidInv == pc \in AfterFork =>
            \/ pid = -1
            \/ /\ pid \in Children /\ proc[pid].number = counter
               /\ proc[pid].bg = IF pc = "wait" THEN 0 ELSE 1

ProcInv == (\A p \in PIDs : ChildInv(p)) /\ PidInv /\ NoFailedRerun

LEMMA ProcInit == Init => ProcInv
  BY DEF Init, ProcInv, ChildInv, Pipes, Number, Background, Flag, Children,
         PidInv, AfterFork, NoFailedRerun, Unused

(* What waitpid() does to the processes.                                   *)
OneReaped == UNCHANGED proc \/ \E q \in Children : Ended(q) /\ Reap(q)

LEMMA PollReaps ==
  ASSUME Types, NEW p \in Results, NEW result \in PollResults(p), Poll(result)
  PROVE  OneReaped
<1>1. \A q \in PIDs : q > 0
  BY DEF PIDs
<1>2. WaitedFor(p) \subseteq Children
  BY DEF WaitedFor
<1>3. CASE result > 0
  <2>1. result \in Children /\ Ended(result)
    BY <1>2, <1>3 DEF PollResults
  <2>2. QED BY <1>3, <2>1 DEF Poll, OneReaped
<1>4. CASE ~(result > 0)
  BY <1>4 DEF Poll, OneReaped
<1>5. QED BY <1>3, <1>4

LEMMA WaitForReaps == \A p : WaitFor(p) => OneReaped
  BY DEF WaitFor, WaitedFor, OneReaped

LEMMA OneReapedKeeps ==
  ASSUME Types, OneReaped, NEW p \in PIDs
  PROVE  /\ proc'[p].args = proc[p].args /\ proc'[p].number = proc[p].number
         /\ proc'[p].bg = proc[p].bg /\ proc'[p].pipe = proc[p].pipe
         /\ proc'[p].redirect = proc[p].redirect
         /\ proc'[p].errorcode = proc[p].errorcode
         /\ \/ proc'[p].state = proc[p].state
            \/ proc[p].state = "zombie" /\ proc'[p].state = "reaped"
  BY DEF Types, Processes, OneReaped, Reap, Children, Ended

(* A step of the shell at or to the prompt, or inside a built-in command.  *)
LEMMA ProcFrame ==
  ASSUME Types, ProcInv, OneReaped,
         UNCHANGED <<counter, history, pid>>,
         pc # "wait", pc' # "fork",
         \/ pc' \in AtPrompt
         \/ /\ pc \notin AtPrompt /\ pc \notin AfterFork
            /\ pc' \notin AfterFork
  PROVE  ProcInv'
<1>1. ASSUME NEW p \in PIDs PROVE ChildInv(p)'
  <2>1. ChildInv(p)
    BY DEF ProcInv
  <2>2. /\ proc'[p].args = proc[p].args /\ proc'[p].number = proc[p].number
        /\ proc'[p].bg = proc[p].bg /\ proc'[p].pipe = proc[p].pipe
        /\ proc'[p].redirect = proc[p].redirect
        /\ proc'[p].errorcode = proc[p].errorcode
        /\ \/ proc'[p].state = proc[p].state
           \/ proc[p].state = "zombie" /\ proc'[p].state = "reaped"
    BY OneReapedKeeps
  <2>3. Answer(p)' = Answer(p)
    BY <2>2 DEF Answer, Found
  <2>4. Pipes(p)'
    BY <2>1, <2>2, <2>3 DEF ChildInv, Pipes
  <2>5. Number(p)'
    BY <2>1, <2>2 DEF ChildInv, Number, AtPrompt, AfterFork
  <2>6. Background(p)'
    BY <2>1, <2>2 DEF ChildInv, Background, Children
  <2>7. Entry(p)' = Entry(p)
    BY <2>2 DEF Entry
  <2>8. Flag(p)'
    BY <2>1, <2>2, <2>3, <2>7 DEF ChildInv, Flag, Background, Children, Types,
                                  Processes
  <2>9. QED BY <2>4, <2>5, <2>6, <2>8 DEF ChildInv
<1>2. PidInv' /\ NoFailedRerun'
  BY DEF PidInv, NoFailedRerun, AtPrompt, AfterFork
<1>3. QED BY <1>1, <1>2 DEF ProcInv

LEMMA ProcReadLine ==
  ASSUME Types, ProcInv, NEW l \in Lines, ReadLine(l)
  PROVE  ProcInv'
<1>1. /\ counter \in Nat /\ counter' = counter + 1 /\ pc = "prompt"
      /\ pc' \notin AtPrompt /\ pc' \notin AfterFork
      /\ pc' = "fork" => ifhistory' = 0
      /\ proc' = proc /\ pid' = pid
  BY DEF Types, ReadLine, AtPrompt, AfterFork, Builtins
<1>2. history \in [Positions -> Commands]
      /\ history' = [history EXCEPT ![NextPosition] =
                       [args |-> l.args, errorflag |-> 0,
                        numofcmd |-> counter + 1, ifbg |-> l.bg]]
  BY DEF Types, ReadLine
<1>3. ASSUME NEW p \in PIDs PROVE ChildInv(p)'
  <2>1. ChildInv(p)
    BY DEF ProcInv
  <2>2. Answer(p)' = Answer(p)
    BY <1>1 DEF Answer, Found
  <2>3. Pipes(p)' /\ Number(p)' /\ Background(p)'
    BY <1>1, <2>1, <2>2
       DEF ChildInv, Pipes, Number, Background, Children, AtPrompt
  <2>4. Flag(p)'
    <3>1. SUFFICES ASSUME proc[p].state = "reaped", proc[p].bg = 0,
                          Entry(p)'.numofcmd = proc[p].number
                   PROVE  Entry(p)'.errorflag = Answer(p)
      BY <1>1, <2>2 DEF Flag
    <3>2. proc[p].number \in 1 .. counter
      BY <2>1, <3>1 DEF ChildInv, Number
    <3>3. Place(proc[p].number) \in Positions
      BY <3>2, PlaceType
    <3>4. /\ Entry(p) = history[Place(proc[p].number)]
          /\ Entry(p)' = history'[Place(proc[p].number)]
      BY <1>1 DEF Entry, Place
    <3>5. Place(proc[p].number) # NextPosition
      BY <1>1, <1>2, <3>1, <3>2, <3>3, <3>4
    <3>6. Entry(p)' = Entry(p)
      BY <1>2, <3>3, <3>4, <3>5
    <3>7. QED BY <2>1, <3>1, <3>6 DEF ChildInv, Flag
  <2>5. QED BY <2>3, <2>4 DEF ChildInv
<1>4. PidInv' /\ NoFailedRerun'
  BY <1>1 DEF PidInv, NoFailedRerun
<1>5. QED BY <1>3, <1>4 DEF ProcInv

(* Clearing or overwriting the entry of the line that is being read.       *)
LEMMA ProcNumberLine ==
  ASSUME Types, ProcInv, HistoryInv, pc = "number", UNCHANGED <<proc, pid>>,
         counter' \in {counter, counter - 1},
         pc' \in AtPrompt \/ (pc' = "fork" /\ counter' = counter),
         NEW entry, history' = [history EXCEPT ![commandposition] = entry],
         entry.numofcmd \in {0, counter}
  PROVE  \A p \in PIDs : ChildInv(p)'
<1>1. SUFFICES ASSUME NEW p \in PIDs PROVE ChildInv(p)'
  OBVIOUS
<1>2. ChildInv(p) /\ counter \in Nat
  BY DEF ProcInv, Types
<1>3. Answer(p)' = Answer(p)
  BY DEF Answer, Found
<1>4. proc[p].state # "unused" => /\ proc[p].number \in 1 .. counter
                                  /\ proc[p].number # counter
  BY <1>2 DEF ChildInv, Number, AtPrompt, AfterFork
<1>5. Number(p)'
  BY <1>2, <1>4 DEF Number
<1>6. Pipes(p)' /\ Background(p)'
  BY <1>2, <1>3 DEF ChildInv, Pipes, Background, Children
<1>7. Flag(p)'
  <2>1. SUFFICES ASSUME proc[p].state = "reaped", proc[p].bg = 0,
                        Entry(p)'.numofcmd = proc[p].number
                 PROVE  Entry(p)'.errorflag = Answer(p)
    BY <1>3 DEF Flag
  <2>2. Place(proc[p].number) \in Positions
    BY <1>4, <2>1, PlaceType
  <2>3. /\ Entry(p) = history[Place(proc[p].number)]
        /\ Entry(p)' = history'[Place(proc[p].number)]
    BY DEF Entry, Place
  <2>4. history \in [Positions -> Commands]
    BY DEF Types
  <2>5. Place(proc[p].number) # commandposition
    BY <1>4, <2>1, <2>2, <2>3, <2>4
  <2>6. Entry(p)' = Entry(p)
    BY <2>2, <2>3, <2>4, <2>5
  <2>7. QED BY <1>2, <2>1, <2>6 DEF ChildInv, Flag
<1>8. QED BY <1>5, <1>6, <1>7 DEF ChildInv

LEMMA ProcForget ==
  ASSUME Types, ProcInv, HistoryInv, Forget, pc = "number"
  PROVE  ProcInv'
<1>1. /\ history' = [history EXCEPT ![commandposition] = Cleared]
      /\ counter' = counter - 1 /\ pc' = "prompt" /\ UNCHANGED <<proc, pid>>
  BY DEF Forget
<1>2. Cleared.numofcmd \in {0, counter} /\ pc' \in AtPrompt
      /\ counter' \in {counter, counter - 1}
  BY <1>1 DEF Cleared, AtPrompt
<1>3. \A p \in PIDs : ChildInv(p)'
  <2>1. PICK entry : entry = Cleared
    OBVIOUS
  <2>2. /\ history' = [history EXCEPT ![commandposition] = entry]
        /\ entry.numofcmd \in {0, counter}
    BY <1>1, <1>2, <2>1
  <2>3. UNCHANGED <<proc, pid>>
    BY <1>1
  <2>4. pc' \in AtPrompt \/ (pc' = "fork" /\ counter' = counter)
    BY <1>2
  <2>5. QED BY <1>2, <2>2, <2>3, <2>4, ProcNumberLine
<1>4. PidInv' /\ NoFailedRerun'
  BY <1>1 DEF PidInv, NoFailedRerun, AfterFork
<1>5. QED BY <1>3, <1>4 DEF ProcInv

LEMMA ProcRunAgain ==
  ASSUME Types, ProcInv, HistoryInv, RunAgain
  PROVE  ProcInv'
<1> DEFINE entry == [args |-> Origin.args, errorflag |-> 0,
                     numofcmd |-> counter, ifbg |-> Origin.ifbg]
<1>1. /\ history' = [history EXCEPT ![commandposition] = entry]
      /\ counter' = counter /\ pc = "number" /\ pc' = "fork"
      /\ ifhistory' = ifhistory /\ UNCHANGED <<proc, pid>>
      /\ InHistory /\ history[originindex].errorflag = 0
  BY DEF RunAgain, input
<1>2. entry.numofcmd = counter
  OBVIOUS
<1>3. \A p \in PIDs : ChildInv(p)'
  <2> HIDE DEF entry
  <2> QED BY <1>1, <1>2, ProcNumberLine
<1>4. PidInv'
  BY <1>1 DEF PidInv, AfterFork
<1>5. NoFailedRerun'
  <2>1. SUFFICES ASSUME ifhistory > counter - HistorySize, NEW p \in PIDs,
                        proc[p].state = "reaped", proc[p].number = ifhistory,
                        proc[p].bg = 0, proc[p].args # NoArgs
                 PROVE  Found(proc[p].args)
    BY <1>1 DEF NoFailedRerun, Found
  <2>2. /\ originindex = Place(ifhistory)
        /\ history[originindex].numofcmd = ifhistory
    BY <1>1, <2>1, OriginOfNumber
  <2>3. Entry(p) = history[originindex]
    BY <2>1, <2>2 DEF Entry, Place
  <2>4. Answer(p) = 0
    BY <1>1, <2>1, <2>2, <2>3 DEF ProcInv, ChildInv, Flag
  <2>5. QED BY <2>1, <2>4 DEF Answer
<1>6. QED BY <1>3, <1>4, <1>5 DEF ProcInv

LEMMA ProcFork ==
  ASSUME Types, ProcInv, Fork
  PROVE  ProcInv'
<1>1. /\ counter \in Nat \ {0} /\ counter' = counter /\ pc = "fork"
      /\ Current \in Commands
      /\ pc' = IF Current.ifbg = 1 THEN "register" ELSE "wait"
      /\ history' = history
  BY DEF Types, Fork, past, Current
<1>2. PICK c \in PIDs :
        /\ \A q \in PIDs : proc[q].state = "unused" <=> q >= c
        /\ pid' = c
        /\ proc' = [proc EXCEPT ![c] =
             [state |-> "forked", args |-> Current.args, number |-> counter,
              bg |-> Current.ifbg, redirect |-> ifredirection,
              errorcode |-> errorcode, pipe |-> -1]]
  BY DEF Fork
<1>3. Current.ifbg \in {0, 1} /\ proc \in [PIDs -> Processes]
  BY <1>1 DEF Commands, Types
<1>4. /\ proc'[c].state = "forked" /\ proc'[c].number = counter
      /\ proc'[c].bg = Current.ifbg
  BY <1>2, <1>3
<1>5. ASSUME NEW p \in PIDs PROVE ChildInv(p)'
  <2>1. ChildInv(p)
    BY DEF ProcInv
  <2>2. CASE p = c
    BY <1>1, <1>2, <1>3, <1>4, <2>2
       DEF ChildInv, Pipes, Number, Background, Flag, Children, AfterFork
  <2>3. CASE p # c
    <3>1. proc'[p] = proc[p]
      BY <1>2, <1>3, <2>3
    <3>2. Answer(p)' = Answer(p) /\ Entry(p)' = Entry(p)
      BY <1>1, <3>1 DEF Answer, Found, Entry
    <3>3. Pipes(p)' /\ Flag(p)'
      BY <2>1, <3>1, <3>2 DEF ChildInv, Pipes, Flag
    <3>4. Number(p)' /\ Background(p)'
      BY <1>1, <2>1, <3>1
         DEF ChildInv, Number, Background, Children, AtPrompt, AfterFork
    <3>5. QED BY <3>3, <3>4 DEF ChildInv
  <2>4. QED BY <2>2, <2>3
<1>6. PidInv'
  BY <1>1, <1>2, <1>3, <1>4 DEF PidInv, Children
<1>7. NoFailedRerun'
  BY <1>1 DEF NoFailedRerun
<1>8. QED BY <1>5, <1>6, <1>7 DEF ProcInv

LEMMA ProcForkFails ==
  ASSUME Types, ProcInv, ForkFails
  PROVE  ProcInv'
<1>1. /\ counter' = counter /\ history' = history /\ proc' = proc
      /\ pc = "fork" /\ pc' \in AfterFork /\ pid' = -1
  BY DEF ForkFails, past, AfterFork
<1>2. ASSUME NEW p \in PIDs PROVE ChildInv(p)'
  <2>1. ChildInv(p)
    BY DEF ProcInv
  <2>2. Answer(p)' = Answer(p) /\ Entry(p)' = Entry(p)
    BY <1>1 DEF Answer, Found, Entry
  <2>3. QED BY <1>1, <2>1, <2>2
            DEF ChildInv, Pipes, Number, Background, Flag, Children, AtPrompt,
                AfterFork
<1>3. PidInv'
  BY <1>1 DEF PidInv, AfterFork
<1>4. NoFailedRerun'
  BY <1>1 DEF NoFailedRerun, AfterFork
<1>5. QED BY <1>2, <1>3, <1>4 DEF ProcInv

(* The shell has read the answer of the child it has waited for, and of no *)
(* other: that child ends, and its answer goes to the entry of its line.   *)
LEMMA ProcWaitForeground ==
  ASSUME Types, ProcInv, HistoryInv, WaitForeground
  PROVE  ProcInv'
<1>1. /\ pc = "wait" /\ pc' = "prompt" /\ UNCHANGED <<counter, pid>>
      /\ WaitFor(pid) /\ errorcode' = ReadPipe(pid)
      /\ history' = [history EXCEPT ![commandposition].errorflag = errorcode']
  BY DEF WaitForeground, Foreground, input
<1>2. /\ history \in [Positions -> Commands] /\ pid \in Results
      /\ commandposition = Place(counter) /\ commandposition \in Positions
      /\ counter \in Nat /\ proc \in [PIDs -> Processes]
  BY <1>1 DEF Types, HistoryInv, AtPosition
<1>3. OneReaped
  BY <1>1, WaitForReaps
<1>4. CASE pid = -1
  <2>1. ASSUME NEW p \in PIDs PROVE ChildInv(p)'
    <3>1. ChildInv(p) /\ p # pid
      BY <1>4 DEF ProcInv, PIDs
    <3>2. /\ proc'[p].args = proc[p].args /\ proc'[p].number = proc[p].number
          /\ proc'[p].bg = proc[p].bg /\ proc'[p].pipe = proc[p].pipe
          /\ proc'[p].redirect = proc[p].redirect
          /\ proc'[p].errorcode = proc[p].errorcode
          /\ \/ proc'[p].state = proc[p].state
             \/ proc[p].state = "zombie" /\ proc'[p].state = "reaped"
      BY <1>3, OneReapedKeeps
    <3>3. Answer(p)' = Answer(p)
      BY <3>2 DEF Answer, Found
    <3>4. Pipes(p)' /\ Number(p)' /\ Background(p)'
      BY <1>1, <3>1, <3>2, <3>3
         DEF ChildInv, Pipes, Number, Background, Children, AtPrompt
    <3>5. Flag(p)'
      <4>1. SUFFICES ASSUME proc'[p].state = "reaped", proc[p].bg = 0,
                            Entry(p)'.numofcmd = proc[p].number
                     PROVE  Entry(p)'.errorflag = Answer(p)
        BY <3>2, <3>3 DEF Flag
      <4>2. proc[p].number \in 1 .. counter /\ proc[p].number # counter
        BY <1>1, <3>1, <3>2, <4>1 DEF ChildInv, Number, AtPrompt
      <4>3. /\ Entry(p) = history[Place(proc[p].number)]
            /\ Entry(p)' = history'[Place(proc[p].number)]
            /\ Place(proc[p].number) \in Positions
        BY <3>2, <4>2, PlaceType DEF Entry, Place
      <4>4. Entry(p).numofcmd = proc[p].number
        BY <1>1, <1>2, <4>1, <4>3 DEF Commands
      <4>5. history[commandposition].numofcmd = counter
        BY <1>1, <1>2, PlaceType DEF HistoryInv, Kept, Oldest, Types
      <4>6. Entry(p)' = Entry(p)
        BY <1>1, <1>2, <4>2, <4>3, <4>4, <4>5
      <4>7. proc[p].state = "reaped"
        BY <3>1, <3>2, <4>1 DEF ChildInv, Background, Children
      <4>8. QED BY <3>1, <4>1, <4>4, <4>6, <4>7 DEF ChildInv, Flag
    <3>6. QED BY <3>4, <3>5 DEF ChildInv
  <2>2. QED BY <1>1, <2>1 DEF ProcInv, PidInv, NoFailedRerun, AfterFork
<1>5. CASE pid # -1
  <2>1. /\ pid \in PIDs /\ pid \in Children /\ proc[pid].number = counter
        /\ proc[pid].bg = 0
    BY <1>1, <1>5 DEF ProcInv, PidInv, AfterFork, Children
  <2>2. WaitedFor(pid) = {pid}
    <3>1. pid \notin {0, -1}
      BY <2>1 DEF PIDs
    <3>2. QED BY <2>1, <3>1 DEF WaitedFor
  <2>3. proc[pid].state = "zombie" /\ Reap(pid)
    BY <1>1, <2>2 DEF WaitFor, Ended
  <2>4. errorcode' = Answer(pid)
    <3>1. proc[pid].pipe = Answer(pid)
      BY <2>1, <2>3 DEF ProcInv, ChildInv, Pipes
    <3>2. Answer(pid) # -1
      BY <1>2, <2>1 DEF Answer, Types, Processes
    <3>3. QED BY <1>1, <1>5, <3>1, <3>2 DEF ReadPipe
  <2>5. ASSUME NEW p \in PIDs PROVE ChildInv(p)'
    <3>1. ChildInv(p)
      BY DEF ProcInv
    <3>2. /\ proc'[p].args = proc[p].args /\ proc'[p].number = proc[p].number
          /\ proc'[p].bg = proc[p].bg /\ proc'[p].pipe = proc[p].pipe
          /\ proc'[p].redirect = proc[p].redirect
          /\ proc'[p].errorcode = proc[p].errorcode
          /\ \/ proc'[p].state = proc[p].state
             \/ proc[p].state = "zombie" /\ proc'[p].state = "reaped"
      BY <1>3, OneReapedKeeps
    <3>3. Answer(p)' = Answer(p)
      BY <3>2 DEF Answer, Found
    <3>4. Pipes(p)' /\ Number(p)'
      BY <1>1, <3>1, <3>2, <3>3 DEF ChildInv, Pipes, Number, AtPrompt
    <3>5. Background(p)'
      <4>1. CASE p = pid
        BY <1>2, <2>1, <2>3, <4>1 DEF Background, Children, Reap, Processes
      <4>2. CASE p # pid
        BY <3>1, <3>2, <4>2 DEF ChildInv, Background, Children
      <4>3. QED BY <4>1, <4>2
    <3>6. Flag(p)'
      <4>1. SUFFICES ASSUME proc'[p].state = "reaped", proc[p].bg = 0,
                            Entry(p)'.numofcmd = proc[p].number
                     PROVE  Entry(p)'.errorflag = Answer(p)
        BY <3>2, <3>3 DEF Flag
      <4>2. proc[p].number \in 1 .. counter
        BY <3>1, <3>2, <4>1 DEF ChildInv, Number
      <4>3. /\ Entry(p) = history[Place(proc[p].number)]
            /\ Entry(p)' = history'[Place(proc[p].number)]
            /\ Place(proc[p].number) \in Positions
        BY <3>2, <4>2, PlaceType DEF Entry, Place
      <4>4. CASE p = pid
        BY <1>1, <1>2, <2>1, <2>4, <4>3, <4>4 DEF Commands
      <4>5. CASE p # pid
        <5>1. proc[p].number # counter
          BY <1>1, <3>1, <3>2, <4>1, <4>5 DEF ChildInv, Number, AtPrompt
        <5>2. Entry(p).numofcmd = proc[p].number
          BY <1>1, <1>2, <4>1, <4>3 DEF Commands
        <5>3. history[commandposition].numofcmd = counter
          BY <1>1, <1>2, PlaceType DEF HistoryInv, Kept, Oldest, Types
        <5>4. Entry(p)' = Entry(p)
          BY <1>1, <1>2, <4>3, <5>1, <5>2, <5>3
        <5>5. proc[p].state = "reaped"
          BY <3>1, <3>2, <4>1, <4>5 DEF ChildInv, Background, Children
        <5>6. QED BY <3>1, <4>1, <5>2, <5>4, <5>5 DEF ChildInv, Flag
      <4>6. QED BY <4>4, <4>5
    <3>7. QED BY <3>4, <3>5, <3>6 DEF ChildInv
  <2>6. QED BY <1>1, <2>5 DEF ProcInv, PidInv, NoFailedRerun, AfterFork
<1>6. QED BY <1>4, <1>5

LEMMA ProcChildStep ==
  ASSUME Types, ProcInv, NEW c \in PIDs, ChildStep(c)
  PROVE  ProcInv'
<1>1. UNCHANGED <<history, counter, pid, pc, ifhistory, log>>
  BY DEF ChildStep, ChildExec, ChildExit, past, input
<1>2. \A p \in PIDs \ {c} : proc'[p] = proc[p]
  BY DEF ChildStep, ChildExec, ChildExit, Types
<1>3. /\ proc'[c].args = proc[c].args /\ proc'[c].number = proc[c].number
      /\ proc'[c].bg = proc[c].bg /\ proc'[c].redirect = proc[c].redirect
      /\ proc'[c].errorcode = proc[c].errorcode
      /\ proc[c].state \in {"forked", "running"}
      /\ proc'[c].state \in {"running", "zombie"}
      /\ proc[c].state = "forked" => proc'[c].pipe = Answer(c)
      /\ proc[c].state = "running" => proc'[c].pipe = proc[c].pipe
  <2>1. proc[c] \in Processes /\ proc \in [PIDs -> Processes]
    BY DEF Types
  <2>2. CASE ChildExec(c)
    <3>1. PICK state \in {"running", "zombie"} :
            proc' = [proc EXCEPT ![c].state = state, ![c].pipe = Answer(c)]
      BY <2>2 DEF ChildExec
    <3>2. QED BY <2>1, <2>2, <3>1 DEF ChildExec, Processes
  <2>3. CASE ChildExit(c)
    BY <2>1, <2>3 DEF ChildExit, Processes
  <2>4. QED BY <2>2, <2>3 DEF ChildStep
<1>4. ASSUME NEW p \in PIDs PROVE ChildInv(p)'
  <2>1. ChildInv(p)
    BY DEF ProcInv
  <2>2. Answer(p)' = Answer(p) /\ Entry(p)' = Entry(p)
    BY <1>1, <1>2, <1>3 DEF Answer, Found, Entry
  <2>3. QED BY <1>1, <1>2, <1>3, <2>1, <2>2
            DEF ChildInv, Pipes, Number, Background, Flag, Children
<1>5. PidInv'
  <2>1. SUFFICES ASSUME pc \in AfterFork, pid # -1
                 PROVE  /\ pid \in Children' /\ proc'[pid].number = counter
                        /\ proc'[pid].bg = IF pc = "wait" THEN 0 ELSE 1
    BY <1>1 DEF PidInv, AfterFork
  <2>2. /\ pid \in Children /\ proc[pid].number = counter
        /\ proc[pid].bg = IF pc = "wait" THEN 0 ELSE 1
    BY <2>1 DEF ProcInv, PidInv
  <2>3. CASE pid = c
    BY <1>3, <2>2, <2>3 DEF Children
  <2>4. CASE pid # c
    BY <1>2, <2>2, <2>4 DEF Children
  <2>5. QED BY <2>3, <2>4
<1>6. NoFailedRerun'
  BY <1>1, <1>2, <1>3 DEF ProcInv, NoFailedRerun, Found
<1>7. QED BY <1>4, <1>5, <1>6 DEF ProcInv

LEMMA ProcStep == Types /\ HistoryInv /\ ProcInv /\ [Next]_vars => ProcInv'
<1>1. SUFFICES ASSUME Types, HistoryInv, ProcInv, [Next]_vars PROVE ProcInv'
  OBVIOUS
<1>2. CASE \E l \in Lines : ReadLine(l)
  BY <1>1, <1>2, ProcReadLine
<1>3. CASE NotInHistory \/ FailedBefore
  BY <1>1, <1>3, ProcForget DEF NotInHistory, FailedBefore
<1>4. CASE RunAgain
  BY <1>1, <1>4, ProcRunAgain
<1>5. CASE Fork
  BY <1>1, <1>5, ProcFork
<1>6. CASE ForkFails
  BY <1>1, <1>6, ProcForkFails
<1>7. CASE WaitForeground
  BY <1>1, <1>7, ProcWaitForeground
<1>8. CASE \E p \in PIDs : ChildStep(p)
  BY <1>1, <1>8, ProcChildStep
<1>9. CASE Exit \/ EndOfInput \/ DisplayHistory \/ JobsStart \/ JobsDone
  BY <1>1, <1>9, ProcFrame
     DEF Exit, EndOfInput, DisplayHistory, JobsStart, JobsDone, past,
         AtPrompt, AfterFork, OneReaped
<1>10. CASE Fg
  <2>1. OneReaped
    BY <1>10, WaitForReaps DEF Fg, OneReaped
  <2>2. /\ UNCHANGED <<counter, history, pid>>
        /\ pc = "fg" /\ pc' = "prompt" /\ pc' \in AtPrompt
    BY <1>10 DEF Fg, past, AtPrompt
  <2>3. QED BY <1>1, <2>1, <2>2, ProcFrame DEF AtPrompt, AfterFork
<1>11. CASE Register
  <2>1. OneReaped
    BY <1>1, <1>11, PollReaps DEF Register, Types
  <2>2. UNCHANGED <<counter, history, pid>>
    BY <1>11 DEF Register, past
  <2>3. pc # "wait" /\ pc' # "fork" /\ pc' \in AtPrompt
    BY <1>11 DEF Register, AtPrompt
  <2>4. QED BY <1>1, <2>1, <2>2, <2>3, ProcFrame
<1>12. CASE FreeJob
  <2>1. slot \in Jobs /\ bgjobinfo[slot].processID \in Results
    BY <1>1, <1>12 DEF FreeJob, Types, Jobs, JobEntries
  <2>2. OneReaped
    BY <1>1, <1>12, <2>1, PollReaps DEF FreeJob
  <2>3. QED BY <1>1, <1>12, <2>2, ProcFrame
            DEF FreeJob, past, AtPrompt, AfterFork
<1>13. CASE UNCHANGED vars
  <2>1. UNCHANGED <<proc, history, counter, pid, pc, ifhistory, log>>
    BY <1>13 DEF vars, past, input
  <2>2. ASSUME NEW p \in PIDs PROVE ChildInv(p)'
    <3>1. ChildInv(p) /\ Answer(p)' = Answer(p) /\ Entry(p)' = Entry(p)
      BY <1>1, <2>1 DEF ProcInv, Answer, Found, Entry
    <3>2. QED BY <2>1, <3>1
              DEF ChildInv, Pipes, Number, Background, Flag, Children
  <2>3. PidInv' /\ NoFailedRerun'
    BY <1>1, <2>1 DEF ProcInv, PidInv, NoFailedRerun, Children, Found
  <2>4. QED BY <2>2, <2>3 DEF ProcInv
<1>14. QED
  BY <1>1, <1>2, <1>3, <1>4, <1>5, <1>6, <1>7, <1>8, <1>9, <1>10, <1>11,
     <1>12, <1>13 DEF Next, ShellStep

LEMMA ProcInvariant == Spec => [](Types /\ HistoryInv /\ ProcInv)
BY HistoryInvariant, ProcInit, ProcStep, PTL DEF Spec

-----------------------------------------------------------------------------
(* The table of background jobs.                                           *)

WasBackground(p) == proc[p].state # "unused" /\ proc[p].bg = 1
Living == {p \in Children : ~Ended(p)}

(* A process ID in an entry that jobs may show: that of a job, or the -1   *)
(* of a failed fork() while a job runs.                                    *)
RanInBackground(p) == IF p \in PIDs THEN p \in alive
                                   ELSE p = -1 /\ alive # {}

(* While freejobs() runs: what still lives lived when it began, and so did *)
(* what its entries say is running.                                        *)
FreeingInv ==
  pc = "freejobs" =>
    /\ Living \subseteq alive
    /\ \A i \in Jobs :
         (/\ i < slot /\ bgjobinfo[i].available = 0
          /\ bgjobinfo[i].status = 0)
           => RanInBackground(bgjobinfo[i].processID)

(* Only an entry never used has process 0.                                 *)
Registered(i) ==
  /\ bgjobinfo[i].processID \in PIDs => WasBackground(bgjobinfo[i].processID)
  /\ bgjobinfo[i].available = 0 => bgjobinfo[i].processID # 0

JobsInv ==
  /\ \A i \in Jobs : Registered(i)
  /\ alive \subseteq PIDs /\ \A p \in alive : WasBackground(p)
  /\ \A p \in listed : RanInBackground(p)
  /\ FreeingInv

LEMMA JobsInit == Init => JobsInv
<1>1. SUFFICES ASSUME Init PROVE JobsInv
  OBVIOUS
<1>2. 0 \notin PIDs
  BY DEF PIDs
<1>3. QED BY <1>1, <1>2 DEF Init, JobsInv, FreeingInv, Registered

LEMMA OneReapedLiving ==
  ASSUME Types, OneReaped
  PROVE  /\ Living' \subseteq Living
         /\ \A p \in PIDs : WasBackground(p) => WasBackground(p)'
<1>1. \A p \in PIDs : /\ proc'[p].bg = proc[p].bg
                      /\ \/ proc'[p].state = proc[p].state
                         \/ /\ proc[p].state = "zombie"
                            /\ proc'[p].state = "reaped"
  BY OneReapedKeeps
<1>2. QED BY <1>1 DEF Living, Children, Ended, WasBackground

LEMMA ChildStepLiving ==
  ASSUME Types, NEW c \in PIDs, ChildStep(c)
  PROVE  /\ Living' \subseteq Living
         /\ \A p \in PIDs : WasBackground(p) => WasBackground(p)'
<1>1. \A p \in PIDs \ {c} : proc'[p] = proc[p]
  BY DEF ChildStep, ChildExec, ChildExit, Types
<1>2. /\ proc'[c].bg = proc[c].bg
      /\ proc[c].state \in {"forked", "running"}
      /\ proc'[c].state \in {"running", "zombie"}
  <2>1. proc[c] \in Processes /\ proc \in [PIDs -> Processes]
    BY DEF Types
  <2>2. CASE ChildExec(c)
    <3>1. PICK state \in {"running", "zombie"} :
            proc' = [proc EXCEPT ![c].state = state, ![c].pipe = Answer(c)]
      BY <2>2 DEF ChildExec
    <3>2. QED BY <2>1, <2>2, <3>1 DEF ChildExec, Processes
  <2>3. CASE ChildExit(c)
    BY <2>1, <2>3 DEF ChildExit, Processes
  <2>4. QED BY <2>2, <2>3 DEF ChildStep
<1>3. QED BY <1>1, <1>2 DEF Living, Children, Ended, WasBackground

LEMMA ForkKeepsBackground ==
  ASSUME Types, Fork
  PROVE  \A p \in PIDs : WasBackground(p) => WasBackground(p)'
<1>1. PICK c \in PIDs :
        /\ \A q \in PIDs : proc[q].state = "unused" <=> q >= c
        /\ proc' = [proc EXCEPT ![c] =
             [state |-> "forked", args |-> Current.args, number |-> counter,
              bg |-> Current.ifbg, redirect |-> ifredirection,
              errorcode |-> errorcode, pipe |-> -1]]
  BY DEF Fork
<1>2. proc[c].state = "unused"
  BY <1>1 DEF PIDs
<1>3. \A p \in PIDs \ {c} : proc'[p] = proc[p]
  BY <1>1 DEF Types
<1>4. QED BY <1>2, <1>3 DEF WasBackground

LEMMA JobsFrame ==
  ASSUME Types, JobsInv, UNCHANGED <<bgjobinfo, slot, listed, alive>>,
         \A p \in PIDs : WasBackground(p) => WasBackground(p)',
         pc' = "freejobs" => pc = "freejobs" /\ Living' \subseteq Living
  PROVE  JobsInv'
<1>1. \A i \in Jobs : Registered(i)'
  BY DEF JobsInv, Registered, WasBackground
<1>2. /\ alive' \subseteq PIDs /\ \A p \in alive' : WasBackground(p)'
      /\ \A p \in listed' : RanInBackground(p)'
  BY DEF JobsInv, RanInBackground
<1>3. FreeingInv'
  BY DEF JobsInv, FreeingInv, RanInBackground
<1>4. QED BY <1>1, <1>2, <1>3 DEF JobsInv

LEMMA JobsRegister ==
  ASSUME Types, ProcInv, JobsInv, Register
  PROVE  JobsInv'
<1>1. PICK result \in PollResults(pid) :
        /\ Poll(result)
        /\ bgjobinfo' = [bgjobinfo EXCEPT ![availableposition] =
             [processID |-> pid, status |-> result,
              numofcmd |-> counter, available |-> 0]]
  BY DEF Register
<1>2. /\ pc = "register" /\ pc' = "prompt" /\ UNCHANGED <<listed, alive>>
      /\ availableposition \in Jobs /\ pid \in Results /\ pid # 0
      /\ bgjobinfo \in [Jobs -> JobEntries]
  BY DEF Register, Types
<1>3. \A p \in PIDs : WasBackground(p) => WasBackground(p)'
  BY <1>1, <1>2, PollReaps, OneReapedLiving
<1>4. pid \in PIDs => WasBackground(pid)
  BY <1>2 DEF ProcInv, PidInv, AfterFork, Children, WasBackground, PIDs
<1>5. ASSUME NEW i \in Jobs PROVE Registered(i)'
  <2>1. CASE i = availableposition
    <3>1. bgjobinfo'[i].processID = pid
      BY <1>1, <1>2, <2>1
    <3>2. pid \in PIDs => proc'[pid].state # "unused" /\ proc'[pid].bg = 1
      BY <1>3, <1>4 DEF WasBackground
    <3>3. QED BY <1>2, <3>1, <3>2 DEF Registered, WasBackground
  <2>2. CASE i # availableposition
    <3>1. bgjobinfo'[i] = bgjobinfo[i]
      BY <1>1, <1>2, <2>2
    <3>2. Registered(i)
      BY DEF JobsInv
    <3>3. QED BY <1>3, <3>1, <3>2 DEF Registered, WasBackground
  <2>3. QED BY <2>1, <2>2
<1>6. /\ alive' \subseteq PIDs /\ \A p \in alive' : WasBackground(p)'
      /\ \A p \in listed' : RanInBackground(p)'
  BY <1>2, <1>3 DEF JobsInv, RanInBackground
<1>7. FreeingInv'
  BY <1>2 DEF FreeingInv
<1>8. QED BY <1>5, <1>6, <1>7 DEF JobsInv

(* An entry that is still taken after it was polled has a process that     *)
(* lives.                                                                  *)
LEMMA JobsFreeJob ==
  ASSUME Types, JobsInv, FreeJob
  PROVE  JobsInv'
<1>1. /\ slot \in Jobs /\ slot' = slot + 1 /\ pc = "freejobs"
      /\ UNCHANGED <<listed, alive>>
      /\ bgjobinfo \in [Jobs -> JobEntries]
  BY DEF FreeJob, Types, Jobs
<1>2. PICK result \in PollResults(bgjobinfo[slot].processID) :
        /\ Poll(result)
        /\ bgjobinfo' = [bgjobinfo EXCEPT ![slot] =
             IF result # 0 /\ @.available = 0
               THEN [@ EXCEPT !.available = 1, !.status = -1]
               ELSE [@ EXCEPT !.status = result]]
  BY DEF FreeJob
<1>3. bgjobinfo[slot] \in JobEntries /\ bgjobinfo[slot].processID \in Results
  BY <1>1 DEF JobEntries
<1>4. /\ Living' \subseteq Living
      /\ \A p \in PIDs : WasBackground(p) => WasBackground(p)'
  BY <1>2, <1>3, PollReaps, OneReapedLiving
<1>5. \A i \in Jobs : /\ bgjobinfo'[i].processID = bgjobinfo[i].processID
                      /\ bgjobinfo'[i].available = 0
                           => bgjobinfo[i].available = 0
                      /\ i # slot => bgjobinfo'[i] = bgjobinfo[i]
  BY <1>1, <1>2, <1>3 DEF JobEntries
<1>6. \A i \in Jobs : Registered(i)'
  BY <1>4, <1>5 DEF JobsInv, Registered, WasBackground
<1>7. /\ alive' \subseteq PIDs /\ \A p \in alive' : WasBackground(p)'
      /\ \A p \in listed' : RanInBackground(p)'
  BY <1>1, <1>4 DEF JobsInv, RanInBackground
<1>8. Living \subseteq alive
  BY <1>1 DEF JobsInv, FreeingInv
<1>9. ASSUME bgjobinfo'[slot].available = 0, bgjobinfo'[slot].status = 0
      PROVE  RanInBackground(bgjobinfo[slot].processID)
  <2> DEFINE p == bgjobinfo[slot].processID
  <2>1. result = 0
    BY <1>1, <1>2, <1>3, <1>9 DEF JobEntries
  <2>2. p \in PIDs \union {-1} /\ p # 0 /\ -1 \notin PIDs
    BY <1>1, <1>3, <1>5, <1>9 DEF JobsInv, Registered, Results, PIDs
  <2>3. WaitedFor(p) = IF p = -1 THEN Children ELSE {p} \cap Children
    BY <2>2 DEF WaitedFor
  <2>4. WaitedFor(p) # {} /\ WaitedFor(p) \subseteq Living
    <3>1. \A q \in PIDs : q # 0
      BY DEF PIDs
    <3>2. 0 \in PollResults(p)
      BY <1>2, <2>1
    <3>3. /\ WaitedFor(p) # {} /\ \A q \in WaitedFor(p) : ~Ended(q)
      BY <2>3, <3>1, <3>2 DEF PollResults, Children
    <3>4. QED BY <2>3, <3>3 DEF Living
  <2>5. alive # {} /\ (p \in PIDs => p \in alive)
    BY <1>8, <2>2, <2>3, <2>4
  <2>6. QED BY <2>2, <2>5 DEF RanInBackground
<1>10. FreeingInv'
  <2>1. Living' \subseteq alive'
    BY <1>1, <1>4, <1>8
  <2>2. ASSUME NEW i \in Jobs, i < slot', bgjobinfo'[i].available = 0,
               bgjobinfo'[i].status = 0
        PROVE  RanInBackground(bgjobinfo'[i].processID)
    <3>1. CASE i = slot
      BY <1>5, <1>9, <2>2, <3>1
    <3>2. CASE i # slot
      <4>1. i < slot /\ bgjobinfo'[i] = bgjobinfo[i]
        BY <1>1, <1>5, <2>2, <3>2 DEF Jobs
      <4>2. QED BY <1>1, <2>2, <4>1 DEF JobsInv, FreeingInv
    <3>3. QED BY <3>1, <3>2
  <2>3. QED BY <1>1, <2>1, <2>2 DEF FreeingInv, RanInBackground
<1>11. QED BY <1>6, <1>7, <1>10 DEF JobsInv

LEMMA JobsStep == Types /\ ProcInv /\ JobsInv /\ [Next]_vars => JobsInv'
<1>1. SUFFICES ASSUME Types, ProcInv, JobsInv, [Next]_vars PROVE JobsInv'
  OBVIOUS
<1>2. ASSUME UNCHANGED proc
      PROVE  /\ Living' \subseteq Living
             /\ \A p \in PIDs : WasBackground(p) => WasBackground(p)'
  BY <1>1, <1>2, OneReapedLiving DEF OneReaped
<1>3. CASE \/ \E l \in Lines : ReadLine(l)
           \/ NotInHistory \/ FailedBefore \/ RunAgain
           \/ ForkFails \/ Exit \/ EndOfInput \/ DisplayHistory
  <2>1. /\ UNCHANGED <<bgjobinfo, slot, listed, alive>> /\ UNCHANGED proc
        /\ pc' # "freejobs"
    BY <1>3 DEF ReadLine, NotInHistory, FailedBefore, Forget, RunAgain,
                ForkFails, Exit, EndOfInput, DisplayHistory, jobtable, Builtins
  <2>2. QED BY <1>1, <1>2, <2>1, JobsFrame
<1>4. CASE Fork
  <2>1. UNCHANGED <<bgjobinfo, slot, listed, alive>> /\ pc' # "freejobs"
    BY <1>4 DEF Fork, jobtable
  <2>2. QED BY <1>1, <1>4, <2>1, ForkKeepsBackground, JobsFrame
<1>5. CASE Register
  BY <1>1, <1>5, JobsRegister
<1>6. CASE WaitForeground \/ Fg
  <2>1. UNCHANGED <<bgjobinfo, slot, listed, alive>> /\ pc' # "freejobs"
    BY <1>6 DEF WaitForeground, Fg, jobtable
  <2>2. OneReaped
    BY <1>6, WaitForReaps DEF WaitForeground, Fg, OneReaped
  <2>3. QED BY <1>1, <2>1, <2>2, OneReapedLiving, JobsFrame
<1>7. CASE JobsStart
  <2>1. /\ slot' = 0 /\ listed' = {} /\ alive' = Living /\ pc = "jobs"
        /\ UNCHANGED <<bgjobinfo, proc>>
    BY <1>7 DEF JobsStart, Living
  <2>2. Living' \subseteq Living
    BY <1>2, <2>1
  <2>3. FreeingInv'
    BY <2>1, <2>2 DEF FreeingInv, Jobs
  <2>4. alive' \subseteq PIDs /\ \A p \in alive' : WasBackground(p)'
    <3>1. ASSUME NEW p \in Living
          PROVE  p \in PIDs /\ WasBackground(p)
      <4>1. /\ p \in PIDs /\ p \in Children
            /\ proc[p].state # "unused" /\ proc[p].bg \in {0, 1}
        BY <1>1 DEF Living, Children, Types, Processes
      <4>2. proc[p].bg # 0
        BY <1>1, <2>1, <4>1 DEF ProcInv, ChildInv, Background
      <4>3. QED BY <4>1, <4>2 DEF WasBackground
    <3>2. QED BY <2>1, <3>1 DEF WasBackground
  <2>5. \A i \in Jobs : Registered(i)'
    BY <1>1, <2>1 DEF JobsInv, Registered, WasBackground
  <2>6. QED BY <2>1, <2>3, <2>4, <2>5 DEF JobsInv
<1>8. CASE FreeJob
  BY <1>1, <1>8, JobsFreeJob
<1>9. CASE JobsDone
  <2>1. /\ pc = "freejobs" /\ slot = JobSlots /\ pc' # "freejobs"
        /\ listed' = {bgjobinfo[i].processID :
                        i \in {j \in Jobs : /\ bgjobinfo[j].available = 0
                                            /\ bgjobinfo[j].status = 0}}
        /\ UNCHANGED <<bgjobinfo, alive, proc>>
    BY <1>9 DEF JobsDone
  <2>2. ASSUME NEW p \in listed'
        PROVE  RanInBackground(p)'
    <3>1. PICK i \in Jobs : /\ p = bgjobinfo[i].processID
                           /\ bgjobinfo[i].available = 0
                           /\ bgjobinfo[i].status = 0
      BY <2>1, <2>2
    <3>2. i < slot
      BY <2>1 DEF Jobs
    <3>3. RanInBackground(p)
      BY <1>1, <2>1, <3>1, <3>2 DEF JobsInv, FreeingInv
    <3>4. QED BY <2>1, <3>3 DEF RanInBackground
  <2>3. /\ alive' \subseteq PIDs /\ \A p \in alive' : WasBackground(p)'
        /\ \A i \in Jobs : Registered(i)'
    BY <1>1, <2>1 DEF JobsInv, Registered, WasBackground
  <2>4. QED BY <2>1, <2>2, <2>3 DEF JobsInv, FreeingInv
<1>10. CASE \E p \in PIDs : ChildStep(p)
  <2>1. PICK c \in PIDs : ChildStep(c)
    BY <1>10
  <2>2. UNCHANGED <<bgjobinfo, slot, listed, alive>> /\ pc' = pc
    BY <2>1 DEF ChildStep, ChildExec, ChildExit, jobtable
  <2>3. QED BY <1>1, <2>1, <2>2, ChildStepLiving, JobsFrame
<1>11. CASE UNCHANGED vars
  <2>1. UNCHANGED <<bgjobinfo, slot, listed, alive>> /\ UNCHANGED <<pc, proc>>
    BY <1>11 DEF vars, jobtable
  <2>2. QED BY <1>1, <1>2, <2>1, JobsFrame
<1>12. QED
  BY <1>1, <1>3, <1>4, <1>5, <1>6, <1>7, <1>8, <1>9, <1>10, <1>11
     DEF Next, ShellStep

-----------------------------------------------------------------------------
(* The properties.                                                         *)

ShellInv == Types /\ HistoryInv /\ ProcInv /\ JobsInv

LEMMA Invariance == Spec => []ShellInv
BY ProcInvariant, JobsInit, JobsStep, PTL DEF Spec, ShellInv

(* Every index stays inside its array, whatever the history's and the job  *)
(* table's lengths.                                                        *)
THEOREM TypeCorrect == Spec => []TypeOK
<1>1. ShellInv => TypeOK
  <2>1. SUFFICES ASSUME Types, HistoryInv PROVE TypeOK
    BY DEF ShellInv
  <2>2. counter \in 0 .. MaxLines
    BY <2>1 DEF Types
  <2>3. \A a \in Args : a.word \in Words
    <3>1. NoArgs.word = ""
      BY DEF NoArgs
    <3>2. NoArgs.word \in Words
      BY <3>1, Zenon DEF Words
    <3>3. \A l \in Lines : l.args.word \in Words
      BY Zenon DEF Words
    <3>4. QED BY <3>2, <3>3, Zenon DEF Args
  <2>4. ASSUME NEW i \in Positions
        PROVE  /\ history[i].args.word \in Words
               /\ history[i].errorflag \in {0, 1}
               /\ history[i].numofcmd \in 0 .. counter
               /\ history[i].ifbg \in {0, 1}
    <3>1. history[i] \in Commands
      BY <2>1 DEF Types
    <3>2. history[i].numofcmd \in 0 .. counter
      BY <2>1, <2>2, <3>1 DEF HistoryInv, Numbered, Commands
    <3>3. QED BY <2>3, <3>1, <3>2 DEF Commands
  <2>5. \A i \in Jobs : /\ bgjobinfo[i].processID \in Results
                        /\ bgjobinfo[i].status \in Results
                        /\ bgjobinfo[i].available \in {0, 1}
    BY <2>1 DEF Types, JobEntries
  <2>6. QED BY <2>1, <2>2, <2>4, <2>5 DEF Types, TypeOK, Results, Labels
<1>2. QED BY <1>1, Invariance, PTL

(* A stored number keeps its place and its command, for a history of any   *)
(* length.                                                                 *)
THEOREM HistoryNumbersCorrect == Spec => []HistoryNumbers
<1>1. ShellInv => HistoryNumbers
  BY DEF ShellInv, HistoryInv, Numbered, HistoryNumbers, Place
<1>2. QED BY <1>1, Invariance, PTL

(* history shows every one of the latest commands.                         *)
THEOREM DisplayedLatestCorrect == Spec => []DisplayedLatest
<1>1. ShellInv => DisplayedLatest
  <2>1. SUFFICES ASSUME Types, Kept, pc = "history", NEW n \in 1 .. counter,
                        n > counter - HistorySize
                 PROVE  history[(n - 1) % HistorySize].numofcmd = n
    BY DEF ShellInv, HistoryInv, DisplayedLatest
  <2>2. n >= Oldest
    BY <2>1 DEF Oldest, Types
  <2>3. QED BY <2>1, <2>2 DEF Kept, Place
<1>2. QED BY <1>1, Invariance, PTL

(* A number takes the words and the & of the command it was given to.      *)
THEOREM RerunSameWordsCorrect == Spec => []RerunSameWords
<1>1. ShellInv => RerunSameWords
  BY DEF ShellInv, HistoryInv
<1>2. QED BY <1>1, Invariance, PTL

(* A command that failed is not run again.                                 *)
THEOREM NoFailedRerunCorrect == Spec => []NoFailedRerun
<1>1. ShellInv => NoFailedRerun
  BY DEF ShellInv, ProcInv
<1>2. QED BY <1>1, Invariance, PTL

(* The flag of a foreground command is what its own child has answered.    *)
THEOREM ErrorFlagCorrect == Spec => []ErrorFlagSound
<1>1. ShellInv => ErrorFlagSound
  BY DEF ShellInv, ProcInv, ChildInv, Flag, Answer, ErrorFlagSound, Types,
         Processes
<1>2. QED BY <1>1, Invariance, PTL

(* No foreground process is left when the prompt comes back.               *)
THEOREM ForegroundDoneCorrect == Spec => []ForegroundDone
<1>1. ShellInv => ForegroundDone
  <2>1. SUFFICES ASSUME Types, ProcInv, pc = "prompt", NEW p \in Children
                 PROVE  proc[p].bg = 1
    BY DEF ShellInv, ForegroundDone
  <2>2. p \in PIDs /\ proc[p].bg \in {0, 1}
    BY <2>1 DEF Types, Processes, Children
  <2>3. QED BY <2>1, <2>2 DEF ProcInv, ChildInv, Background
<1>2. QED BY <1>1, Invariance, PTL

(* What jobs shows is a background process that ran when jobs began, or    *)
(* the -1 of a failed fork() while some background process ran.            *)
THEOREM ListedWereRunningCorrect == Spec => []ListedWereRunning
<1>1. ShellInv => ListedWereRunning
  BY DEF ShellInv, JobsInv, RanInBackground, WasBackground, ListedWereRunning
<1>2. QED BY <1>1, Invariance, PTL
=============================================================================
