------------------------ MODULE MachineStorageProofs ------------------------
(***************************************************************************)
(* A device's storage in the manager, for every number of writes and of    *)
(* resets and wherever the manager's process ends.                         *)
(***************************************************************************)
EXTENDS MachineStorage, SequenceTheorems, FiniteSetTheorems, TLAPS

\* The steps of the programs: those that any step may come after, and the rest.
Free == {"first", "abort", "halt", "capture", "plant", "end", "unnote", "note", "mount",
         "dropGenerations", "make", "sweep", "unstage", "fenceSimple", "detach", "remove",
         "fence"}
Copying == {"mount", "copySystem", "copyHome", "raze", "build"}
Last == {"moved", "settle", "exit", "serve", "wake", "checkpoint", "reset", "start", "answer"}
Steps == Free \cup Last \cup {"pick", "hibernate", "move", "publish", "close", "save",
                             "clear", "stage", "record", "boot", "dropCurrent",
                             "dropRecord", "dropTree", "wipe", "out", "in", "pin",
                             "discard", "copySystem", "copyHome", "raze", "build"}

Program == Seq(Steps) \ {<<>>}

-----------------------------------------------------------------------------
(* The queues of programs.  What a process has ahead of it is a set of     *)
(* steps; the order of a program matters only where a step keeps others    *)
(* from coming after it.                                                   *)

StepsOf(program) == {program[i] : i \in 1 .. Len(program)}

\* The steps of the program that process p runs.
Ahead(p) == IF todo[p] = <<>> THEN {} ELSE StepsOf(Head(todo[p]))

\* The steps that may come after a step in its program.
After(step) ==
    CASE step \in Last -> {}
      [] step = "move" -> {"moved"}
      [] step = "hibernate" -> {"move", "moved"}
      [] step = "pick" -> Operations \cup {"settle"}
      [] step = "publish" -> {"dropRecord", "dropTree", "moved"}
      [] step = "boot" -> {"note"}
      [] step \in {"wipe", "discard"} -> {"answer"}
      [] step = "out" -> {"in", "pin", "discard", "answer"}
      [] step = "in" -> {"pin", "discard", "answer"}
      [] step = "pin" -> {"discard", "answer"}
      [] step = "close" -> Steps \ {"halt"}
      [] step = "save" -> Steps \ (Copying \cup {"clear", "fence"})
      [] step = "clear" -> Steps \ (Copying \cup {"clear"})
      [] step = "dropCurrent" -> Steps \ (Copying \cup {"clear", "dropCurrent"})
      [] step \in {"stage", "record"} -> Steps \ {"save", "clear", "first", "stage"}
      [] step = "dropRecord" -> Steps \ {"make", "publish"}
      [] step = "dropTree" -> Steps \ {"make", "publish", "dropRecord"}
      [] step \in {"copySystem", "copyHome", "raze"} -> Steps \ {"mount"}
      [] step = "build" -> Steps \ Copying
      [] OTHER -> Steps

Ordered(program) == \A i, j \in 1 .. Len(program) : i < j => program[j] \in After(program[i])

\* The single steps that may wait behind the worker's program.
Rests == {"wake", "settle", "exit"}

\* The steps of the programs that wait behind the worker's.
Later == UNION {StepsOf(todo["worker"][i]) : i \in 2 .. Len(todo["worker"])}

Queued ==
    /\ todo \in [Processes -> Seq(Program)]
    /\ \A p \in Processes : \A i \in 1 .. Len(todo[p]) : Ordered(todo[p][i])
    /\ \A i \in 2 .. Len(todo["worker"]) : StepsOf(todo["worker"][i]) \subseteq Rests
    /\ Len(todo["recovery"]) <= 1

\* `more` may take the place of `step` in any program.
Follows(step, more) ==
    /\ more \in Seq(Steps) /\ Ordered(more)
    /\ \A s \in StepsOf(more) : After(step) \subseteq After(s)

USE StorageAssumption

LEMMA FirstProgram ==
  ASSUME Queued, NEW p \in Processes, todo[p] # <<>>
  PROVE  /\ todo[p] \in Seq(Program) /\ Tail(todo[p]) \in Seq(Program)
         /\ Len(Tail(todo[p])) = Len(todo[p]) - 1
         /\ \A i \in 1 .. Len(Tail(todo[p])) : Tail(todo[p])[i] = todo[p][i + 1]
         /\ Len(todo[p]) >= 1 /\ Head(todo[p]) = todo[p][1]
         /\ Head(todo[p]) \in Seq(Steps) /\ Head(todo[p]) # <<>>
         /\ Len(Head(todo[p])) >= 1 /\ Head(Head(todo[p])) = Head(todo[p])[1]
         /\ Tail(Head(todo[p])) \in Seq(Steps)
         /\ Len(Tail(Head(todo[p]))) = Len(Head(todo[p])) - 1
         /\ \A i \in 1 .. Len(Tail(Head(todo[p]))) : Tail(Head(todo[p]))[i] = Head(todo[p])[i + 1]
  <1> DEFINE q == todo[p] h == Head(todo[p])
  <1>1. q \in Seq(Program) /\ q # <<>>
    BY DEF Queued
  <1> HIDE DEF q
  <1>2. /\ Head(q) \in Program /\ Tail(q) \in Seq(Program) /\ Len(Tail(q)) = Len(q) - 1
        /\ \A i \in 1 .. Len(Tail(q)) : Tail(q)[i] = q[i + 1]
        /\ Len(q) >= 1 /\ Head(q) = q[1]
    BY <1>1, HeadTailProperties
  <1>3. h \in Seq(Steps) /\ h # <<>>
    BY <1>2 DEF Program, q
  <1> HIDE DEF h
  <1>4. /\ Tail(h) \in Seq(Steps) /\ Len(Tail(h)) = Len(h) - 1
        /\ \A i \in 1 .. Len(Tail(h)) : Tail(h)[i] = h[i + 1]
        /\ Len(h) >= 1 /\ Head(h) = h[1]
    BY <1>3, HeadTailProperties
  <1> QED
    BY <1>1, <1>2, <1>3, <1>4 DEF q, h

\* A process with a program has a step ahead.
LEMMA AheadOfNone ==
  ASSUME Queued, NEW p \in Processes
  PROVE  Ahead(p) = {} <=> todo[p] = <<>>
  <1>1. CASE todo[p] = <<>>
    BY <1>1 DEF Ahead
  <1>2. CASE todo[p] # <<>>
    <2>1. Len(Head(todo[p])) >= 1 /\ Head(todo[p]) \in Seq(Steps)
      BY <1>2, FirstProgram
    <2>2. Head(todo[p])[1] \in StepsOf(Head(todo[p]))
      BY <2>1 DEF StepsOf
    <2> QED
      BY <1>2, <2>2 DEF Ahead
  <1> QED
    BY <1>1, <1>2

\* Process p is given the queue q.
LEMMA QueueGiven ==
  ASSUME Queued, NEW p \in Processes, NEW q \in Seq(Program),
         todo' = [todo EXCEPT ![p] = q],
         \A i \in 1 .. Len(q) : Ordered(q[i]),
         p = "worker" => \A i \in 2 .. Len(q) : StepsOf(q[i]) \subseteq Rests,
         p = "recovery" => Len(q) <= 1
  PROVE  /\ Queued' /\ todo'[p] = q
         /\ \A r \in Processes : r # p => todo'[r] = todo[r] /\ Ahead(r)' = Ahead(r)
         /\ p = "recovery" => Later' = Later
  <1>1. /\ todo' \in [Processes -> Seq(Program)] /\ todo'[p] = q
        /\ \A r \in Processes : r # p => todo'[r] = todo[r]
    BY DEF Queued
  <1>2. \A r \in Processes : r # p => Ahead(r)' = Ahead(r)
    BY <1>1 DEF Ahead
  <1>3. \A r \in Processes : \A i \in 1 .. Len(todo'[r]) : Ordered(todo'[r][i])
    BY <1>1 DEF Queued
  <1>4. \A i \in 2 .. Len(todo'["worker"]) : StepsOf(todo'["worker"][i]) \subseteq Rests
    BY <1>1 DEF Queued, Processes
  <1>5. Len(todo'["recovery"]) <= 1
    BY <1>1 DEF Queued, Processes
  <1>6. p = "recovery" => Later' = Later
    BY <1>1 DEF Later, Processes
  <1> QED
    BY <1>1, <1>2, <1>3, <1>4, <1>5, <1>6 DEF Queued

\* The program of process p is replaced.
LEMMA ProgramReplaced ==
  ASSUME Queued, NEW p \in Processes, todo[p] # <<>>, NEW program \in Program, Ordered(program),
         \/ todo' = [todo EXCEPT ![p] = <<program>> \o Tail(@)]
         \/ todo' = [todo EXCEPT ![p][1] = program]
  PROVE  /\ Queued' /\ Ahead(p)' = StepsOf(program) /\ Later' = Later
         /\ \A r \in Processes : r # p => todo'[r] = todo[r] /\ Ahead(r)' = Ahead(r)
  <1> DEFINE q == todo'[p]
  <1>1. /\ q \in Seq(Program) /\ Len(q) = Len(todo[p]) /\ q[1] = program
        /\ \A i \in 2 .. Len(q) : q[i] = todo[p][i]
        /\ todo' = [todo EXCEPT ![p] = q]
    <2>1. CASE todo' = [todo EXCEPT ![p] = <<program>> \o Tail(@)]
      <3>1. q = <<program>> \o Tail(todo[p]) /\ todo' = [todo EXCEPT ![p] = q]
        BY <2>1 DEF Queued
      <3>2. <<program>> \in Seq(Program) /\ Len(<<program>>) = 1 /\ <<program>>[1] = program
        OBVIOUS
      <3>3. Tail(todo[p]) \in Seq(Program)
        BY FirstProgram
      <3> HIDE DEF q
      <3>4. /\ q \in Seq(Program) /\ Len(q) = 1 + Len(Tail(todo[p])) /\ q[1] = program
            /\ \A i \in 1 .. Len(q) : q[i] = IF i <= 1 THEN <<program>>[i] ELSE Tail(todo[p])[i - 1]
        BY <3>1, <3>2, <3>3, ConcatProperties
      <3> QED
        BY <3>1, <3>4, FirstProgram
    <2>2. CASE todo' = [todo EXCEPT ![p][1] = program]
      <3>1. q = [todo[p] EXCEPT ![1] = program] /\ todo' = [todo EXCEPT ![p] = q]
        BY <2>2 DEF Queued
      <3> HIDE DEF q
      <3>2. todo[p] \in Seq(Program) /\ Len(todo[p]) >= 1
        BY FirstProgram
      <3>3. /\ q \in Seq(Program) /\ Len(q) = Len(todo[p])
            /\ \A i \in 1 .. Len(q) : q[i] = IF i = 1 THEN program ELSE todo[p][i]
        BY <3>1, <3>2, ExceptSeq
      <3> QED
        BY <3>1, <3>2, <3>3
    <2> QED
      BY <2>1, <2>2
  <1> HIDE DEF q
  <1>2. Len(todo[p]) >= 1
    BY FirstProgram
  <1>3. \A i \in 1 .. Len(q) : Ordered(q[i])
    BY <1>1 DEF Queued
  <1>4. p = "worker" => \A i \in 2 .. Len(q) : StepsOf(q[i]) \subseteq Rests
    BY <1>1 DEF Queued
  <1>5. p = "recovery" => Len(q) <= 1
    BY <1>1 DEF Queued
  <1>6. Queued' /\ todo'[p] = q /\ \A r \in Processes : r # p => todo'[r] = todo[r] /\ Ahead(r)' = Ahead(r)
    BY <1>1, <1>3, <1>4, <1>5, QueueGiven
  <1>7. q # <<>> /\ Head(q) = program
    BY <1>1, <1>2
  <1>8. Ahead(p)' = StepsOf(program)
    BY <1>6, <1>7 DEF Ahead
  <1>9. Later' = Later
    <2>1. CASE p = "worker"
      <3>1. todo'["worker"] = q /\ Len(q) = Len(todo["worker"])
            /\ \A i \in 2 .. Len(q) : q[i] = todo["worker"][i]
        BY <1>1, <1>6, <2>1
      <3> QED
        BY <3>1 DEF Later
    <2>2. CASE p = "recovery"
      BY <1>1, <1>3, <1>4, <1>5, <2>2, QueueGiven
    <2> QED
      BY <2>1, <2>2 DEF Processes
  <1> QED
    BY <1>6, <1>8, <1>9

\* The program of process p ends, well or not.
LEMMA ProgramEnds ==
  ASSUME Queued, NEW p \in Processes, todo[p] # <<>>,
         \/ todo' = [todo EXCEPT ![p] = Tail(@)]
         \/ todo' = [todo EXCEPT ![p] = <<>>]
  PROVE  /\ Queued' /\ Ahead(p)' \subseteq (IF p = "worker" THEN Later ELSE {})
         /\ Later' \subseteq Later
         /\ todo' = [todo EXCEPT ![p] = <<>>] /\ p = "worker" => Ahead(p)' = {} /\ Later' = {}
         /\ \A r \in Processes : r # p => todo'[r] = todo[r] /\ Ahead(r)' = Ahead(r)
  <1> DEFINE q == todo'[p]
  <1>1. todo' = [todo EXCEPT ![p] = q] /\ q \in {<<>>, Tail(todo[p])}
    BY DEF Queued
  <1> HIDE DEF q
  <1>2. /\ q \in Seq(Program) /\ Len(q) < Len(todo[p])
        /\ \A i \in 1 .. Len(q) : q[i] = todo[p][i + 1]
    <2>1. CASE q = <<>>
      <3>1. <<>> \in Seq(Program) /\ Len(<<>>) = 0
        OBVIOUS
      <3> QED
        BY <2>1, <3>1, FirstProgram
    <2>2. CASE q = Tail(todo[p])
      BY <2>2, FirstProgram
    <2> QED
      BY <1>1, <2>1, <2>2
  <1>3. todo[p] \in Seq(Program) /\ Len(todo[p]) \in Nat /\ Len(q) \in Nat
    BY <1>2, FirstProgram
  <1>4. \A i \in 1 .. Len(q) : Ordered(q[i])
    BY <1>2, <1>3 DEF Queued
  <1>5. p = "worker" => \A i \in 1 .. Len(q) : StepsOf(q[i]) \subseteq Rests
    BY <1>2, <1>3 DEF Queued
  <1>6. p = "recovery" => Len(q) = 0
    BY <1>2, <1>3 DEF Queued
  <1>7. Queued' /\ todo'[p] = q /\ \A r \in Processes : r # p => todo'[r] = todo[r] /\ Ahead(r)' = Ahead(r)
    <2>1. p = "worker" => \A i \in 2 .. Len(q) : StepsOf(q[i]) \subseteq Rests
      BY <1>3, <1>5
    <2>2. p = "recovery" => Len(q) <= 1
      BY <1>6
    <2> QED
      BY <1>1, <1>2, <1>4, <2>1, <2>2, QueueGiven
  <1>8. p = "recovery" => Ahead(p)' = {}
    BY <1>2, <1>6, <1>7 DEF Ahead
  <1>9. p = "worker" => Ahead(p)' \subseteq Later
    <2>1. CASE q = <<>>
      BY <1>7, <2>1 DEF Ahead
    <2>2. CASE q # <<>> /\ p = "worker"
      <3>1. 2 \in 2 .. Len(todo["worker"]) /\ Head(q) = todo["worker"][2]
        BY <1>2, <1>3, <2>2
      <3>2. StepsOf(Head(q)) \subseteq Later
        BY <3>1 DEF Later
      <3> QED
        BY <1>7, <2>2, <3>2 DEF Ahead
    <2> QED
      BY <2>1, <2>2
  <1>10. Later' \subseteq Later
    <2>1. CASE p = "worker"
      <3>1. \A i \in 2 .. Len(q) : i + 1 \in 2 .. Len(todo["worker"]) /\ q[i] = todo["worker"][i + 1]
        BY <1>2, <1>3, <2>1
      <3>2. \A i \in 2 .. Len(q) : StepsOf(q[i]) \subseteq Later
        BY <3>1 DEF Later
      <3>3. Later' = UNION {StepsOf(q[i]) : i \in 2 .. Len(q)}
        BY <1>7, <2>1 DEF Later
      <3> QED
        BY <3>2, <3>3
    <2>2. CASE p = "recovery"
      <3>1. todo'["worker"] = todo["worker"]
        BY <1>7, <2>2 DEF Processes
      <3> QED
        BY <3>1 DEF Later
    <2> QED
      BY <2>1, <2>2 DEF Processes
  <1>11. ASSUME todo' = [todo EXCEPT ![p] = <<>>], p = "worker"
         PROVE  Ahead(p)' = {} /\ Later' = {}
    <2>1. todo'["worker"] = <<>> /\ Len(todo'["worker"]) = 0
      BY <1>11 DEF Queued
    <2> QED
      BY <1>11, <2>1 DEF Ahead, Later
  <1> QED
    BY <1>7, <1>8, <1>9, <1>10, <1>11 DEF Processes

\* One program behind another.
LEMMA ProgramsJoined ==
  ASSUME NEW one \in Seq(Steps), NEW two \in Seq(Steps), Ordered(one), Ordered(two),
         \A s \in StepsOf(one) : StepsOf(two) \subseteq After(s)
  PROVE  /\ one \o two \in Seq(Steps) /\ Ordered(one \o two)
         /\ StepsOf(one \o two) = StepsOf(one) \cup StepsOf(two)
  <1> DEFINE both == one \o two n == Len(one)
  <1>1. /\ both \in Seq(Steps) /\ Len(both) = n + Len(two)
        /\ \A i \in 1 .. Len(both) : both[i] = IF i <= n THEN one[i] ELSE two[i - n]
    BY ConcatProperties
  <1>2. n \in Nat /\ Len(two) \in Nat
    OBVIOUS
  <1> HIDE DEF both, n
  <1>3. \A i \in 1 .. Len(both) : \/ i \in 1 .. n /\ both[i] = one[i]
                                  \/ i - n \in 1 .. Len(two) /\ both[i] = two[i - n] /\ i > n
    BY <1>1, <1>2
  <1>4. \A s : s \in StepsOf(both) => s \in StepsOf(one) \cup StepsOf(two)
    BY <1>3 DEF StepsOf, n
  <1>5. \A s : s \in StepsOf(one) \cup StepsOf(two) => s \in StepsOf(both)
    <2>1. \A i \in 1 .. n : i \in 1 .. Len(both) /\ both[i] = one[i]
      BY <1>1, <1>2
    <2>2. \A i \in 1 .. Len(two) : i + n \in 1 .. Len(both) /\ both[i + n] = two[i]
      BY <1>1, <1>2
    <2> QED
      BY <2>1, <2>2 DEF StepsOf, n
  <1>6. Ordered(both)
    <2> SUFFICES ASSUME NEW i \in 1 .. Len(both), NEW j \in 1 .. Len(both), i < j
                 PROVE  both[j] \in After(both[i])
      BY DEF Ordered
    <2>1. CASE j <= n
      <3>1. i \in 1 .. n /\ j \in 1 .. n /\ both[i] = one[i] /\ both[j] = one[j]
        BY <2>1, <1>1, <1>2
      <3> QED
        BY <3>1 DEF Ordered, n
    <2>2. CASE i <= n /\ j > n
      <3>1. /\ j - n \in 1 .. Len(two) /\ i \in 1 .. n
            /\ both[j] = two[j - n] /\ both[i] = one[i]
        BY <2>2, <1>1, <1>2
      <3>2. both[j] \in StepsOf(two) /\ both[i] \in StepsOf(one)
        BY <3>1 DEF StepsOf, n
      <3> QED
        BY <3>2
    <2>3. CASE i > n
      <3> DEFINE a == i - n b == j - n
      <3>1. a \in 1 .. Len(two) /\ b \in 1 .. Len(two) /\ a < b /\ both[i] = two[a] /\ both[j] = two[b]
        BY <2>3, <1>1, <1>2
      <3> HIDE DEF a, b
      <3> QED
        BY <3>1 DEF Ordered
    <2> QED
      BY <2>1, <2>2, <2>3, <1>2
  <1> QED
    BY <1>1, <1>4, <1>5, <1>6 DEF both

\* A step is done: `more` and what is left of its program are ahead, or, when
\* that is nothing, the next program.
LEMMA StepDone ==
  ASSUME Queued, NEW p \in Processes, NEW step, At(p, step), NEW more, Follows(step, more),
         Then(p, more)
  PROVE  /\ Queued' /\ Later' \subseteq Later
         /\ \A r \in Processes : r # p => todo'[r] = todo[r] /\ Ahead(r)' = Ahead(r)
         /\ \E after \in SUBSET After(step) :
              /\ Ahead(p) = {step} \cup after
              /\ \/ Ahead(p)' = StepsOf(more) \cup after
                 \/ /\ StepsOf(more) \cup after = {}
                    /\ Ahead(p)' \subseteq (IF p = "worker" THEN Later ELSE {})
  <1> DEFINE h == Head(todo[p]) t == Tail(h) rest == more \o t
  <1>1. todo[p] # <<>> /\ Head(h) = step
    BY DEF At
  <1>2. /\ h \in Seq(Steps) /\ Len(h) >= 1 /\ h[1] = step
        /\ t \in Seq(Steps) /\ Len(t) = Len(h) - 1
        /\ \A i \in 1 .. Len(t) : t[i] = h[i + 1]
        /\ Ahead(p) = StepsOf(h)
    BY <1>1, FirstProgram DEF Ahead
  <1>3. Ordered(h)
    BY <1>1, FirstProgram DEF Queued
  <1>4. todo' = [todo EXCEPT ![p] = IF rest = <<>> THEN Tail(@) ELSE <<rest>> \o Tail(@)]
    BY DEF Then
  <1> HIDE DEF h, t
  <1>5. StepsOf(t) \subseteq After(step)
    BY <1>2, <1>3 DEF StepsOf, Ordered
  <1>6. StepsOf(h) = {step} \cup StepsOf(t)
    <2>1. \A i \in 1 .. Len(h) : i = 1 \/ (i - 1 \in 1 .. Len(t) /\ h[i] = t[i - 1])
      BY <1>2
    <2>2. \A i \in 1 .. Len(t) : i + 1 \in 1 .. Len(h) /\ t[i] = h[i + 1]
      BY <1>2
    <2>3. 1 \in 1 .. Len(h)
      BY <1>2
    <2>4. \A s : s \in StepsOf(h) => s \in {step} \cup StepsOf(t)
      <3> SUFFICES ASSUME NEW i \in 1 .. Len(h)
                   PROVE  h[i] \in {step} \cup StepsOf(t)
        BY DEF StepsOf
      <3> QED
        BY <1>2, <2>1 DEF StepsOf
    <2>5. \A s : s \in {step} \cup StepsOf(t) => s \in StepsOf(h)
      BY <1>2, <2>2, <2>3 DEF StepsOf
    <2> QED
      BY <2>4, <2>5
  <1>7. /\ more \in Seq(Steps) /\ Ordered(more) /\ t \in Seq(Steps) /\ Ordered(t)
        /\ \A s \in StepsOf(more) : StepsOf(t) \subseteq After(s)
    <2>1. \A i, j \in 1 .. Len(t) : i < j => t[j] \in After(t[i])
      <3> SUFFICES ASSUME NEW i \in 1 .. Len(t), NEW j \in 1 .. Len(t), i < j
                   PROVE  t[j] \in After(t[i])
        OBVIOUS
      <3>1. /\ i + 1 \in 1 .. Len(h) /\ j + 1 \in 1 .. Len(h) /\ i + 1 < j + 1
            /\ t[i] = h[i + 1] /\ t[j] = h[j + 1]
        BY <1>2
      <3> QED
        BY <1>3, <3>1 DEF Ordered
    <2> QED
      BY <1>2, <1>5, <2>1 DEF Follows, Ordered
  <1>8. rest \in Seq(Steps) /\ Ordered(rest) /\ StepsOf(rest) = StepsOf(more) \cup StepsOf(t)
    BY <1>7, ProgramsJoined
  <1> HIDE DEF rest
  <1>9. CASE rest = <<>>
    <2>1. todo' = [todo EXCEPT ![p] = Tail(@)]
      BY <1>4, <1>9
    <2>2. StepsOf(rest) = {}
      BY <1>9 DEF StepsOf
    <2> QED
      BY <1>1, <1>2, <1>5, <1>6, <1>8, <2>1, <2>2, ProgramEnds
  <1>10. CASE rest # <<>>
    <2>1. rest \in Program /\ todo' = [todo EXCEPT ![p] = <<rest>> \o Tail(@)]
      BY <1>4, <1>8, <1>10 DEF Program
    <2>2. /\ Queued' /\ Ahead(p)' = StepsOf(rest) /\ Later' = Later
          /\ \A r \in Processes : r # p => todo'[r] = todo[r] /\ Ahead(r)' = Ahead(r)
      BY <1>1, <1>8, <2>1, ProgramReplaced
    <2> QED
      BY <1>2, <1>5, <1>6, <1>8, <2>2
  <1> QED
    BY <1>9, <1>10

-----------------------------------------------------------------------------
(* The programs the manager runs. *)

LEMMA AfterValues ==
  /\ \A s \in Free : After(s) = Steps
  /\ \A s \in Last : After(s) = {}
  /\ After("move") = {"moved"} /\ After("hibernate") = {"move", "moved"}
  /\ After("pick") = {"wake", "hibernate", "checkpoint", "reset", "settle"}
  /\ After("publish") = {"dropRecord", "dropTree", "moved"} /\ After("boot") = {"note"}
  /\ After("wipe") = {"answer"} /\ After("discard") = {"answer"}
  /\ After("out") = {"in", "pin", "discard", "answer"}
  /\ After("in") = {"pin", "discard", "answer"} /\ After("pin") = {"discard", "answer"}
  /\ After("close") = Steps \ {"halt"}
  /\ After("save") = Steps \ (Copying \cup {"clear", "fence"})
  /\ After("clear") = Steps \ (Copying \cup {"clear"})
  /\ After("dropCurrent") = Steps \ (Copying \cup {"clear", "dropCurrent"})
  /\ After("stage") = Steps \ {"save", "clear", "first", "stage"}
  /\ After("record") = Steps \ {"save", "clear", "first", "stage"}
  /\ After("dropRecord") = Steps \ {"make", "publish"}
  /\ After("dropTree") = Steps \ {"make", "publish", "dropRecord"}
  /\ \A s \in {"copySystem", "copyHome", "raze"} : After(s) = Steps \ {"mount"}
  /\ After("build") = Steps \ Copying
  <1>1. \A s \in Free : After(s) = Steps
    BY DEF After, Free, Last
  <1>2. \A s \in Last : After(s) = {}
    BY DEF After, Last
  <1>3. /\ After("move") = {"moved"} /\ After("hibernate") = {"move", "moved"}
        /\ After("pick") = {"wake", "hibernate", "checkpoint", "reset", "settle"}
        /\ After("publish") = {"dropRecord", "dropTree", "moved"} /\ After("boot") = {"note"}
    BY DEF After, Operations, Last
  <1>4. /\ After("close") = Steps \ {"halt"}
        /\ After("save") = Steps \ (Copying \cup {"clear", "fence"})
        /\ After("clear") = Steps \ (Copying \cup {"clear"})
        /\ After("dropCurrent") = Steps \ (Copying \cup {"clear", "dropCurrent"})
        /\ After("record") = Steps \ {"save", "clear", "first", "stage"}
        /\ After("dropRecord") = Steps \ {"make", "publish"}
        /\ After("dropTree") = Steps \ {"make", "publish", "dropRecord"}
        /\ After("build") = Steps \ Copying
        /\ After("stage") = Steps \ {"save", "clear", "first", "stage"}
        /\ \A s \in {"copySystem", "copyHome", "raze"} : After(s) = Steps \ {"mount"}
    BY DEF After, Last
  <1>5. /\ After("wipe") = {"answer"} /\ After("discard") = {"answer"}
        /\ After("out") = {"in", "pin", "discard", "answer"}
        /\ After("in") = {"pin", "discard", "answer"} /\ After("pin") = {"discard", "answer"}
    BY DEF After, Last
  <1> QED
    BY <1>1, <1>2, <1>3, <1>4, <1>5

LEMMA OrderedShort ==
  /\ Ordered(<<>>)
  /\ \A a : Ordered(<<a>>)
  /\ \A a, b : b \in After(a) => Ordered(<<a, b>>)
  /\ \A a, b, c : {b, c} \subseteq After(a) /\ c \in After(b) => Ordered(<<a, b, c>>)
  BY DEF Ordered

LEMMA OrderedLong ==
  ASSUME NEW a, NEW b, NEW c, NEW d, {b, c, d} \subseteq After(a), {c, d} \subseteq After(b),
         d \in After(c)
  PROVE  /\ Ordered(<<a, b, c, d>>)
         /\ \A e : e \in After(a) \cap After(b) \cap After(c) \cap After(d)
                     => Ordered(<<a, b, c, d, e>>)
         /\ \A e, f : /\ {e, f} \subseteq After(a) \cap After(b) \cap After(c) \cap After(d)
                      /\ f \in After(e)
                     => Ordered(<<a, b, c, d, e, f>>)
  <1>1. Ordered(<<a, b, c, d>>)
    BY DEF Ordered
  <1>2. ASSUME NEW e, e \in After(a) \cap After(b) \cap After(c) \cap After(d)
        PROVE  Ordered(<<a, b, c, d, e>>)
    BY <1>2 DEF Ordered
  <1>3. ASSUME NEW e, NEW f, {e, f} \subseteq After(a) \cap After(b) \cap After(c) \cap After(d),
               f \in After(e)
        PROVE  Ordered(<<a, b, c, d, e, f>>)
    BY <1>3 DEF Ordered
  <1> QED
    BY <1>1, <1>2, <1>3

LEMMA OrderedMove ==
  LET program == <<"mount", "copySystem", "copyHome", "raze", "build", "clear", "dropCurrent", "dropGenerations">>
  IN  Ordered(program)
  <1> DEFINE q == <<"mount", "copySystem", "copyHome", "raze", "build", "clear", "dropCurrent", "dropGenerations">>
  <1>1. /\ Len(q) = 8
        /\ q[1] = "mount" /\ q[2] = "copySystem" /\ q[3] = "copyHome" /\ q[4] = "raze"
        /\ q[5] = "build" /\ q[6] = "clear" /\ q[7] = "dropCurrent" /\ q[8] = "dropGenerations"
    OBVIOUS
  <1> HIDE DEF q
  <1>2. \A j \in 1 .. 8 : j \in {1, 2, 3, 4} \/ j \in {5, 6, 7, 8}
    OBVIOUS
  <1>3. /\ \A j \in {1, 2, 3, 4} : q[j] \in Steps /\ Steps \ {"mount"} \subseteq After(q[j])
        /\ \A j \in {5, 6, 7, 8} : q[j] \in Steps
        /\ \A j \in {2, 3, 4, 5, 6, 7, 8} : q[j] # "mount"
    BY <1>1, AfterValues DEF Free, Last, Steps
  <1>4. /\ {"clear", "dropCurrent", "dropGenerations"} \subseteq After("build")
        /\ {"dropCurrent", "dropGenerations"} \subseteq After("clear")
        /\ "dropGenerations" \in After("dropCurrent")
    BY AfterValues DEF Free, Last, Copying, Steps
  <1>5. \A i, j \in 1 .. 8 : i < j => q[j] \in After(q[i])
    <2> SUFFICES ASSUME NEW i \in 1 .. 8, NEW j \in 1 .. 8, i < j
                 PROVE  q[j] \in After(q[i])
      OBVIOUS
    <2>1. j \in {2, 3, 4, 5, 6, 7, 8}
      OBVIOUS
    <2>2. CASE i \in {1, 2, 3, 4}
      BY <1>2, <1>3, <2>1, <2>2
    <2>3. CASE i = 5
      <3>1. j \in {6, 7, 8}
        BY <2>3
      <3> QED
        BY <1>1, <1>4, <2>3, <3>1
    <2>4. CASE i = 6
      <3>1. j \in {7, 8}
        BY <2>4
      <3> QED
        BY <1>1, <1>4, <2>4, <3>1
    <2>5. CASE i = 7
      <3>1. j = 8
        BY <2>5
      <3> QED
        BY <1>1, <1>4, <2>5, <3>1
    <2> QED
      BY <2>2, <2>3, <2>4, <2>5
  <1> QED
    BY <1>1, <1>5 DEF Ordered, q

LEMMA OrderedReset ==
  LET program == <<"end", "unnote", "plant", "out", "in", "pin", "discard", "answer">>
  IN  Ordered(program)
  <1> DEFINE q == <<"end", "unnote", "plant", "out", "in", "pin", "discard", "answer">>
  <1>1. /\ Len(q) = 8
        /\ q[1] = "end" /\ q[2] = "unnote" /\ q[3] = "plant" /\ q[4] = "out"
        /\ q[5] = "in" /\ q[6] = "pin" /\ q[7] = "discard" /\ q[8] = "answer"
    OBVIOUS
  <1> HIDE DEF q
  <1>2. \A j \in 1 .. 8 : j \in {1, 2, 3} \/ j = 4 \/ j = 5 \/ j = 6 \/ j = 7 \/ j = 8
    OBVIOUS
  <1>3. /\ \A i \in {1, 2, 3} : After(q[i]) = Steps
        /\ {"end", "unnote", "plant", "out", "in", "pin", "discard", "answer"} \subseteq Steps
    BY <1>1, AfterValues DEF Free, Last, Steps
  <1>4. \A j \in 1 .. 8 : q[j] \in Steps
    BY <1>1, <1>2, <1>3
  <1>5. \A i, j \in 1 .. 8 : i < j => q[j] \in After(q[i])
    <2> SUFFICES ASSUME NEW i \in 1 .. 8, NEW j \in 1 .. 8, i < j
                 PROVE  q[j] \in After(q[i])
      OBVIOUS
    <2>1. CASE i \in {1, 2, 3}
      BY <1>3, <1>4, <2>1
    <2>2. CASE i = 4
      <3>1. j \in {5, 6, 7, 8}
        BY <2>2
      <3> QED
        BY <1>1, <2>2, <3>1, AfterValues
    <2>3. CASE i = 5
      <3>1. j \in {6, 7, 8}
        BY <2>3
      <3> QED
        BY <1>1, <2>3, <3>1, AfterValues
    <2>4. CASE i = 6
      <3>1. j \in {7, 8}
        BY <2>4
      <3> QED
        BY <1>1, <2>4, <3>1, AfterValues
    <2>5. CASE i = 7
      <3>1. j = 8
        BY <2>5
      <3> QED
        BY <1>1, <2>5, <3>1, AfterValues
    <2> QED
      BY <1>2, <2>1, <2>2, <2>3, <2>4, <2>5
  <1> QED
    BY <1>1, <1>5 DEF Ordered, q

LEMMA FollowsNothing ==
  ASSUME NEW step
  PROVE  Follows(step, <<>>) /\ StepsOf(<<>>) = {}
  BY OrderedShort DEF Follows, StepsOf

\* The steps that a step puts in its place.
LEMMA StepFollows ==
  /\ LET more == <<"clear">>
     IN  Follows("save", more) /\ StepsOf(more) = {"clear"}
  /\ LET more == <<"remove">>
     IN  Follows("detach", more) /\ StepsOf(more) = {"remove"}
  /\ LET more == <<"settle">>
     IN  Follows("moved", more) /\ StepsOf(more) = {"settle"}
  <1>1. LET more == <<"clear">>
        IN  Follows("save", more) /\ StepsOf(more) = {"clear"}
    <2> DEFINE more == <<"clear">>
    <2>1. more \in Seq(Steps) /\ StepsOf(more) = {"clear"}
      BY DEF StepsOf, Free, Last, Copying, Steps
    <2>2. Ordered(more)
      BY AfterValues, OrderedShort DEF Free, Last, Copying, Steps
    <2>3. \A s \in {"clear"} : After("save") \subseteq After(s)
      BY AfterValues DEF Free, Last, Copying, Steps
    <2> HIDE DEF more
    <2> QED
      BY <2>1, <2>2, <2>3 DEF Follows, more
  <1>2. LET more == <<"remove">>
        IN  Follows("detach", more) /\ StepsOf(more) = {"remove"}
    <2> DEFINE more == <<"remove">>
    <2>1. more \in Seq(Steps) /\ StepsOf(more) = {"remove"}
      BY DEF StepsOf, Free, Last, Copying, Steps
    <2>2. Ordered(more)
      BY AfterValues, OrderedShort DEF Free, Last, Copying, Steps
    <2>3. \A s \in {"remove"} : After("detach") \subseteq After(s)
      BY AfterValues DEF Free, Last, Copying, Steps
    <2> HIDE DEF more
    <2> QED
      BY <2>1, <2>2, <2>3 DEF Follows, more
  <1>3. LET more == <<"settle">>
        IN  Follows("moved", more) /\ StepsOf(more) = {"settle"}
    <2> DEFINE more == <<"settle">>
    <2>1. more \in Seq(Steps) /\ StepsOf(more) = {"settle"}
      BY DEF StepsOf, Free, Last, Copying, Steps
    <2>2. Ordered(more)
      BY AfterValues, OrderedShort DEF Free, Last, Copying, Steps
    <2>3. \A s \in {"settle"} : After("moved") \subseteq After(s)
      BY AfterValues DEF Free, Last, Copying, Steps
    <2> HIDE DEF more
    <2> QED
      BY <2>1, <2>2, <2>3 DEF Follows, more
  <1> QED
    BY <1>1, <1>2, <1>3

\* What an operation does on each runtime.
LEMMA ScriptFollows ==
  /\ LET more == <<"save", "first", "stage", "record", "start">>
     IN  Follows("wake", more) /\ StepsOf(more) = {"save", "first", "stage", "record", "start"}
  /\ LET more == <<"halt", "close", "save">>
     IN  Follows("hibernate", more) /\ StepsOf(more) = {"halt", "close", "save"}
  /\ LET more == <<"capture", "publish">>
     IN  Follows("checkpoint", more) /\ StepsOf(more) = {"capture", "publish"}
  /\ LET more == <<"halt", "close", "save", "first", "wipe", "answer">>
     IN  Follows("reset", more) /\ StepsOf(more) = {"halt", "close", "save", "first", "wipe", "answer"}
  /\ LET more == <<"plant", "end", "boot", "note">>
     IN  Follows("wake", more) /\ StepsOf(more) = {"plant", "end", "boot", "note"}
  /\ LET more == <<"end", "unnote">>
     IN  Follows("hibernate", more) /\ StepsOf(more) = {"end", "unnote"}
  /\ LET more == <<"end", "unnote", "plant", "out", "in", "pin", "discard", "answer">>
     IN  Follows("reset", more) /\ StepsOf(more) = {"end", "unnote", "plant", "out", "in", "pin", "discard", "answer"}
  <1>1. LET more == <<"save", "first", "stage", "record", "start">>
        IN  Follows("wake", more) /\ StepsOf(more) = {"save", "first", "stage", "record", "start"}
    <2> DEFINE more == <<"save", "first", "stage", "record", "start">>
    <2>1. more \in Seq(Steps) /\ StepsOf(more) = {"save", "first", "stage", "record", "start"}
      BY DEF StepsOf, Free, Last, Copying, Steps
    <2>2. Ordered(more)
      BY AfterValues, OrderedLong DEF Free, Last, Copying, Steps
    <2>3. \A s \in {"save", "first", "stage", "record", "start"} : After("wake") \subseteq After(s)
      BY AfterValues DEF Free, Last, Copying, Steps
    <2> HIDE DEF more
    <2> QED
      BY <2>1, <2>2, <2>3 DEF Follows, more
  <1>2. LET more == <<"halt", "close", "save">>
        IN  Follows("hibernate", more) /\ StepsOf(more) = {"halt", "close", "save"}
    <2> DEFINE more == <<"halt", "close", "save">>
    <2>1. more \in Seq(Steps) /\ StepsOf(more) = {"halt", "close", "save"}
      BY DEF StepsOf, Free, Last, Copying, Steps
    <2>2. Ordered(more)
      BY AfterValues, OrderedShort DEF Free, Last, Copying, Steps
    <2>3. \A s \in {"halt", "close", "save"} : After("hibernate") \subseteq After(s)
      BY AfterValues DEF Free, Last, Copying, Steps
    <2> HIDE DEF more
    <2> QED
      BY <2>1, <2>2, <2>3 DEF Follows, more
  <1>3. LET more == <<"capture", "publish">>
        IN  Follows("checkpoint", more) /\ StepsOf(more) = {"capture", "publish"}
    <2> DEFINE more == <<"capture", "publish">>
    <2>1. more \in Seq(Steps) /\ StepsOf(more) = {"capture", "publish"}
      BY DEF StepsOf, Free, Last, Copying, Steps
    <2>2. Ordered(more)
      BY AfterValues, OrderedShort DEF Free, Last, Copying, Steps
    <2>3. \A s \in {"capture", "publish"} : After("checkpoint") \subseteq After(s)
      BY AfterValues DEF Free, Last, Copying, Steps
    <2> HIDE DEF more
    <2> QED
      BY <2>1, <2>2, <2>3 DEF Follows, more
  <1>4. LET more == <<"halt", "close", "save", "first", "wipe", "answer">>
        IN  Follows("reset", more) /\ StepsOf(more) = {"halt", "close", "save", "first", "wipe", "answer"}
    <2> DEFINE more == <<"halt", "close", "save", "first", "wipe", "answer">>
    <2>1. more \in Seq(Steps) /\ StepsOf(more) = {"halt", "close", "save", "first", "wipe", "answer"}
      BY DEF StepsOf, Free, Last, Copying, Steps
    <2>2. Ordered(more)
      BY AfterValues, OrderedLong DEF Free, Last, Copying, Steps
    <2>3. \A s \in {"halt", "close", "save", "first", "wipe", "answer"} : After("reset") \subseteq After(s)
      BY AfterValues DEF Free, Last, Copying, Steps
    <2> HIDE DEF more
    <2> QED
      BY <2>1, <2>2, <2>3 DEF Follows, more
  <1>5. LET more == <<"plant", "end", "boot", "note">>
        IN  Follows("wake", more) /\ StepsOf(more) = {"plant", "end", "boot", "note"}
    <2> DEFINE more == <<"plant", "end", "boot", "note">>
    <2>1. more \in Seq(Steps) /\ StepsOf(more) = {"plant", "end", "boot", "note"}
      BY DEF StepsOf, Free, Last, Copying, Steps
    <2>2. Ordered(more)
      BY AfterValues, OrderedLong DEF Free, Last, Copying, Steps
    <2>3. \A s \in {"plant", "end", "boot", "note"} : After("wake") \subseteq After(s)
      BY AfterValues DEF Free, Last, Copying, Steps
    <2> HIDE DEF more
    <2> QED
      BY <2>1, <2>2, <2>3 DEF Follows, more
  <1>6. LET more == <<"end", "unnote">>
        IN  Follows("hibernate", more) /\ StepsOf(more) = {"end", "unnote"}
    <2> DEFINE more == <<"end", "unnote">>
    <2>1. more \in Seq(Steps) /\ StepsOf(more) = {"end", "unnote"}
      BY DEF StepsOf, Free, Last, Copying, Steps
    <2>2. Ordered(more)
      BY AfterValues, OrderedShort DEF Free, Last, Copying, Steps
    <2>3. \A s \in {"end", "unnote"} : After("hibernate") \subseteq After(s)
      BY AfterValues DEF Free, Last, Copying, Steps
    <2> HIDE DEF more
    <2> QED
      BY <2>1, <2>2, <2>3 DEF Follows, more
  <1>7. LET more == <<"end", "unnote", "plant", "out", "in", "pin", "discard", "answer">>
        IN  Follows("reset", more) /\ StepsOf(more) = {"end", "unnote", "plant", "out", "in", "pin", "discard", "answer"}
    <2> DEFINE more == <<"end", "unnote", "plant", "out", "in", "pin", "discard", "answer">>
    <2>1. more \in Seq(Steps) /\ StepsOf(more) = {"end", "unnote", "plant", "out", "in", "pin", "discard", "answer"}
      BY DEF StepsOf, Free, Last, Copying, Steps
    <2>2. Ordered(more)
      BY OrderedReset
    <2>3. \A s \in {"end", "unnote", "plant", "out", "in", "pin", "discard", "answer"} : After("reset") \subseteq After(s)
      BY AfterValues DEF Free, Last, Copying, Steps
    <2> HIDE DEF more
    <2> QED
      BY <2>1, <2>2, <2>3 DEF Follows, more
  <1> QED
    BY <1>1, <1>2, <1>3, <1>4, <1>5, <1>6, <1>7

\* A move, and the choice of the storage a move left on both runtimes.
LEMMA MoveFollows ==
  /\ LET more == <<"hibernate", "move", "moved">>
     IN  Follows("settle", more) /\ StepsOf(more) = {"hibernate", "move", "moved"}
  /\ LET more == <<"mount", "copySystem", "copyHome", "raze", "build", "clear", "dropCurrent", "dropGenerations">>
     IN  Follows("move", more) /\ StepsOf(more) = {"mount", "copySystem", "copyHome", "raze", "build", "clear", "dropCurrent", "dropGenerations"}
  /\ LET more == <<"make", "publish", "dropRecord", "dropTree">>
     IN  Follows("move", more) /\ StepsOf(more) = {"make", "publish", "dropRecord", "dropTree"}
  /\ LET more == <<"clear", "dropCurrent", "dropGenerations", "pick">>
     IN  Follows("pick", more) /\ StepsOf(more) = {"clear", "dropCurrent", "dropGenerations", "pick"}
  /\ LET more == <<"dropRecord", "dropTree", "pick">>
     IN  Follows("pick", more) /\ StepsOf(more) = {"dropRecord", "dropTree", "pick"}
  <1>1. LET more == <<"hibernate", "move", "moved">>
        IN  Follows("settle", more) /\ StepsOf(more) = {"hibernate", "move", "moved"}
    <2> DEFINE more == <<"hibernate", "move", "moved">>
    <2>1. more \in Seq(Steps) /\ StepsOf(more) = {"hibernate", "move", "moved"}
      BY DEF StepsOf, Free, Last, Copying, Steps
    <2>2. Ordered(more)
      BY AfterValues, OrderedShort DEF Free, Last, Copying, Steps
    <2>3. \A s \in {"hibernate", "move", "moved"} : After("settle") \subseteq After(s)
      BY AfterValues DEF Free, Last, Copying, Steps
    <2> HIDE DEF more
    <2> QED
      BY <2>1, <2>2, <2>3 DEF Follows, more
  <1>2. LET more == <<"mount", "copySystem", "copyHome", "raze", "build", "clear", "dropCurrent", "dropGenerations">>
        IN  Follows("move", more) /\ StepsOf(more) = {"mount", "copySystem", "copyHome", "raze", "build", "clear", "dropCurrent", "dropGenerations"}
    <2> DEFINE more == <<"mount", "copySystem", "copyHome", "raze", "build", "clear", "dropCurrent", "dropGenerations">>
    <2>1. more \in Seq(Steps) /\ StepsOf(more) = {"mount", "copySystem", "copyHome", "raze", "build", "clear", "dropCurrent", "dropGenerations"}
      BY DEF StepsOf, Free, Last, Copying, Steps
    <2>2. Ordered(more)
      BY OrderedMove
    <2>3. \A s \in {"mount", "copySystem", "copyHome", "raze", "build", "clear", "dropCurrent", "dropGenerations"} : After("move") \subseteq After(s)
      BY AfterValues DEF Free, Last, Copying, Steps
    <2> HIDE DEF more
    <2> QED
      BY <2>1, <2>2, <2>3 DEF Follows, more
  <1>3. LET more == <<"make", "publish", "dropRecord", "dropTree">>
        IN  Follows("move", more) /\ StepsOf(more) = {"make", "publish", "dropRecord", "dropTree"}
    <2> DEFINE more == <<"make", "publish", "dropRecord", "dropTree">>
    <2>1. more \in Seq(Steps) /\ StepsOf(more) = {"make", "publish", "dropRecord", "dropTree"}
      BY DEF StepsOf, Free, Last, Copying, Steps
    <2>2. Ordered(more)
      BY AfterValues, OrderedLong DEF Free, Last, Copying, Steps
    <2>3. \A s \in {"make", "publish", "dropRecord", "dropTree"} : After("move") \subseteq After(s)
      BY AfterValues DEF Free, Last, Copying, Steps
    <2> HIDE DEF more
    <2> QED
      BY <2>1, <2>2, <2>3 DEF Follows, more
  <1>4. LET more == <<"clear", "dropCurrent", "dropGenerations", "pick">>
        IN  Follows("pick", more) /\ StepsOf(more) = {"clear", "dropCurrent", "dropGenerations", "pick"}
    <2> DEFINE more == <<"clear", "dropCurrent", "dropGenerations", "pick">>
    <2>1. more \in Seq(Steps) /\ StepsOf(more) = {"clear", "dropCurrent", "dropGenerations", "pick"}
      BY DEF StepsOf, Free, Last, Copying, Steps
    <2>2. Ordered(more)
      BY AfterValues, OrderedLong DEF Free, Last, Copying, Steps
    <2>3. \A s \in {"clear", "dropCurrent", "dropGenerations", "pick"} : After("pick") \subseteq After(s)
      BY AfterValues DEF Free, Last, Copying, Steps
    <2> HIDE DEF more
    <2> QED
      BY <2>1, <2>2, <2>3 DEF Follows, more
  <1>5. LET more == <<"dropRecord", "dropTree", "pick">>
        IN  Follows("pick", more) /\ StepsOf(more) = {"dropRecord", "dropTree", "pick"}
    <2> DEFINE more == <<"dropRecord", "dropTree", "pick">>
    <2>1. more \in Seq(Steps) /\ StepsOf(more) = {"dropRecord", "dropTree", "pick"}
      BY DEF StepsOf, Free, Last, Copying, Steps
    <2>2. Ordered(more)
      BY AfterValues, OrderedShort DEF Free, Last, Copying, Steps
    <2>3. \A s \in {"dropRecord", "dropTree", "pick"} : After("pick") \subseteq After(s)
      BY AfterValues DEF Free, Last, Copying, Steps
    <2> HIDE DEF more
    <2> QED
      BY <2>1, <2>2, <2>3 DEF Follows, more
  <1> QED
    BY <1>1, <1>2, <1>3, <1>4, <1>5

LEMMA SoleSteps ==
  ASSUME NEW step \in Steps
  PROVE  <<step>> \in Program /\ Ordered(<<step>>) /\ StepsOf(<<step>>) = {step}
  BY OrderedShort DEF Program, StepsOf

LEMMA RequestPrograms ==
  ASSUME NEW what \in Operations \cup {"settle"}
  PROVE  LET program == <<"pick", what>>
         IN  program \in Program /\ Ordered(program) /\ StepsOf(program) = {"pick", what}
  <1>1. what \in Steps /\ "pick" \in Steps /\ what \in After("pick")
    BY AfterValues DEF Operations, Steps, Last
  <1> QED
    BY <1>1, OrderedShort DEF Program, StepsOf

LEMMA RecoveryPrograms ==
  /\ Recovery \in Program /\ Ordered(Recovery)
  /\ StepsOf(Recovery) = {"unstage", "fenceSimple", "detach", "fence", "save"}
  /\ LET program == (<<"sweep">> \o Recovery) \o <<"serve">>
     IN  /\ program \in Program /\ Ordered(program)
         /\ StepsOf(program) = {"sweep", "unstage", "fenceSimple", "detach", "fence", "save", "serve"}
  <1>1. /\ Recovery \in Program
        /\ StepsOf(Recovery) = {"unstage", "fenceSimple", "detach", "fence", "save"}
    BY DEF Recovery, Program, StepsOf, Free, Last, Copying, Steps
  <1>2. Ordered(Recovery)
    BY AfterValues, OrderedLong DEF Recovery, Free, Last, Copying, Steps
  <1>3. /\ <<"sweep">> \in Seq(Steps) /\ StepsOf(<<"sweep">>) = {"sweep"} /\ Ordered(<<"sweep">>)
        /\ <<"serve">> \in Seq(Steps) /\ StepsOf(<<"serve">>) = {"serve"} /\ Ordered(<<"serve">>)
    BY SoleSteps DEF Program, Free, Last, Copying, Steps
  <1>4. Recovery \in Seq(Steps)
    BY <1>1 DEF Program
  <1> DEFINE most == <<"sweep">> \o Recovery
  <1>5. /\ most \in Seq(Steps) /\ Ordered(most)
        /\ StepsOf(most) = {"sweep", "unstage", "fenceSimple", "detach", "fence", "save"}
    <2>1. StepsOf(Recovery) \subseteq After("sweep")
      BY <1>1, AfterValues DEF Free, Last, Copying, Steps
    <2>2. /\ most \in Seq(Steps) /\ Ordered(most)
          /\ StepsOf(most) = StepsOf(<<"sweep">>) \cup StepsOf(Recovery)
      BY <1>2, <1>3, <1>4, <2>1, ProgramsJoined
    <2> QED
      BY <1>1, <1>3, <2>2
  <1> HIDE DEF most
  <1> DEFINE all == most \o <<"serve">>
  <1>6. /\ all \in Seq(Steps) /\ Ordered(all)
        /\ StepsOf(all) = {"sweep", "unstage", "fenceSimple", "detach", "fence", "save", "serve"}
    <2>1. \A s \in {"sweep", "unstage", "fenceSimple", "detach", "fence", "save"} : "serve" \in After(s)
      BY AfterValues DEF Free, Last, Copying, Steps
    <2>2. \A s \in StepsOf(most) : StepsOf(<<"serve">>) \subseteq After(s)
      BY <1>3, <1>5, <2>1
    <2>3. /\ all \in Seq(Steps) /\ Ordered(all)
          /\ StepsOf(all) = StepsOf(most) \cup StepsOf(<<"serve">>)
      BY <1>3, <1>5, <2>2, ProgramsJoined
    <2> QED
      BY <1>3, <1>5, <2>3
  <1> HIDE DEF all
  <1>7. all # <<>>
    BY <1>6 DEF StepsOf
  <1> QED
    BY <1>1, <1>2, <1>6, <1>7 DEF all, most, Program

-----------------------------------------------------------------------------
(* Every step keeps the queues. *)

LEMMA StepKeepsQueue ==
  ASSUME Queued, NEW p \in Processes, NEW step, At(p, step),
         \/ UNCHANGED todo \/ Done(p) \/ Fail(p)
         \/ \E more : Follows(step, more) /\ Then(p, more)
  PROVE  Queued'
  <1>1. todo[p] # <<>>
    BY DEF At
  <1>2. CASE UNCHANGED todo
    BY <1>2 DEF Queued
  <1>3. CASE Done(p) \/ Fail(p)
    BY <1>1, <1>3, ProgramEnds DEF Done, Fail
  <1>4. CASE \E more : Follows(step, more) /\ Then(p, more)
    BY <1>4, StepDone
  <1> QED
    BY <1>2, <1>3, <1>4

LEMMA WorkerKeepsQueue ==
  ASSUME Queued, Worker
  PROVE  Queued'
  <1> USE FollowsNothing, StepKeepsQueue
  <1> DEFINE w == "worker"
  <1>0. w \in Processes /\ "abort" \in Steps /\ "halt" \in Steps /\ "answer" \in Steps
    BY DEF Processes, Steps, Free, Last
  <1>1. CASE Operate
    <2> PICK what \in Operations : At(w, what) /\ Then(w, Script(what))
      BY <1>1 DEF Operate
    <2>1. Follows(what, Script(what))
      <3> USE ScriptFollows
      <3>1. CASE what = "wake"
        BY <3>1 DEF Script
      <3>2. CASE what = "hibernate"
        BY <3>2 DEF Script
      <3>3. CASE what = "checkpoint"
        BY <3>3 DEF Script
      <3>4. CASE what = "reset"
        BY <3>4 DEF Script
      <3> QED
        BY <3>1, <3>2, <3>3, <3>4 DEF Operations
    <2> QED
      BY <1>0, <2>1
  <1>2. CASE Settle
    BY <1>0, <1>2, MoveFollows DEF Settle
  <1>3. CASE Move
    BY <1>0, <1>3, MoveFollows DEF Move
  <1>4. CASE Moved
    BY <1>0, <1>4, StepFollows DEF Moved
  <1>5. CASE Pick
    BY <1>0, <1>5, MoveFollows DEF Pick
  <1>6. CASE Interrupted \/ StepFails("worker")
    BY <1>0, <1>6 DEF Interrupted, StepFails
  <1>7. CASE Save("worker") \/ Clear("worker") \/ First \/ StageWorking
    BY <1>0, <1>7, StepFollows DEF Save, Clear, First, StageWorking
  <1>8. ASSUME NEW program \in Program, Ordered(program), NEW step, At(w, step),
               todo' = [todo EXCEPT ![w][1] = program]
        PROVE  Queued'
    BY <1>0, <1>8, ProgramReplaced DEF At
  <1>9. CASE Record
    BY <1>0, <1>8, <1>9, SoleSteps DEF Record
  <1>10. CASE Start
    BY <1>0, <1>8, <1>10, SoleSteps DEF Start
  <1>11. CASE Abort \/ Halt \/ Close
    BY <1>0, <1>11 DEF Abort, Halt, Close
  <1>12. CASE Capture
    <2>1. <<"halt", "close">> \in Program /\ Ordered(<<"halt", "close">>)
      BY AfterValues, OrderedShort DEF Free, Last, Copying, Steps, Program
    <2> QED
      BY <1>0, <1>8, <1>12, <2>1 DEF Capture
  <1>13. CASE Publish \/ Wipe \/ Answer \/ Plant \/ End \/ Unnote \/ Boot \/ Note
    BY <1>0, <1>13 DEF Publish, Wipe, Answer, Plant, End, Unnote, Boot, Note
  <1>14. CASE Out
    BY <1>0, <1>8, <1>14, SoleSteps DEF Out
  <1>15. CASE In \/ Pin \/ Discard \/ Mount \/ Raze \/ Build
    BY <1>0, <1>15 DEF In, Pin, Discard, Mount, Raze, Build
  <1>16. CASE CopyVolume("copySystem", "system") \/ CopyVolume("copyHome", "home")
    BY <1>0, <1>16 DEF CopyVolume
  <1>17. CASE DropCurrent \/ DropGenerations \/ Make \/ DropRecord \/ DropTree
    BY <1>0, <1>17 DEF DropCurrent, DropGenerations, Make, DropRecord, DropTree
  <1> QED
    BY <1>1, <1>2, <1>3, <1>4, <1>5, <1>6, <1>7, <1>9, <1>10, <1>11, <1>12, <1>13, <1>14,
       <1>15, <1>16, <1>17 DEF Worker

LEMMA RecoverKeepsQueue ==
  ASSUME Queued, Recover
  PROVE  Queued'
  <1> USE FollowsNothing, StepKeepsQueue
  <1>0. "recovery" \in Processes
    BY DEF Processes
  <1>1. CASE Sweep \/ Unstage \/ FenceSimple \/ RemoveStages \/ Fence \/ Serve
    BY <1>0, <1>1 DEF Sweep, Unstage, FenceSimple, RemoveStages, Fence, Serve
  <1>2. CASE DetachStages
    BY <1>0, <1>2, StepFollows DEF DetachStages
  <1>3. CASE Save("recovery") \/ Clear("recovery") \/ StepFails("recovery")
    BY <1>0, <1>3, StepFollows DEF Save, Clear, StepFails
  <1> QED
    BY <1>1, <1>2, <1>3 DEF Recover

\* A queue of one program, or of two the second of which is a single step.
LEMMA QueueOf ==
  ASSUME Queued, NEW p \in Processes, NEW one \in Program, Ordered(one), NEW two \in Rests,
         \/ todo' = [todo EXCEPT ![p] = <<one>>]
         \/ p = "worker" /\ todo' = [todo EXCEPT ![p] = <<one, <<two>> >>]
  PROVE  /\ Queued' /\ Ahead(p)' = StepsOf(one)
         /\ p = "worker" => Later' \subseteq {two}
         /\ p = "recovery" => Later' = Later
         /\ \A r \in Processes : r # p => todo'[r] = todo[r] /\ Ahead(r)' = Ahead(r)
  <1>1. <<two>> \in Program /\ Ordered(<<two>>) /\ StepsOf(<<two>>) = {two}
    BY SoleSteps DEF Rests, Steps, Last
  <1> DEFINE q == <<one>> q2 == <<one, <<two>> >>
  <1>2. CASE todo' = [todo EXCEPT ![p] = q]
    <2>1. q \in Seq(Program) /\ Len(q) = 1 /\ q[1] = one /\ Head(q) = one /\ q # <<>>
      OBVIOUS
    <2> HIDE DEF q
    <2>2. /\ \A i \in 1 .. Len(q) : Ordered(q[i])
          /\ \A i \in 2 .. Len(q) : StepsOf(q[i]) \subseteq Rests
          /\ Len(q) <= 1
      BY <2>1
    <2>3. p = "worker" => Later' = {}
      <3>1. todo'[p] = q
        BY <1>2, <2>1, <2>2, QueueGiven
      <3>2. 2 .. Len(q) = {}
        BY <2>1
      <3> QED
        BY <3>1, <3>2 DEF Later
    <2> QED
      BY <1>2, <2>1, <2>2, <2>3, QueueGiven DEF Ahead
  <1>3. CASE p = "worker" /\ todo' = [todo EXCEPT ![p] = q2]
    <2>1. q2 \in Seq(Program) /\ Len(q2) = 2 /\ q2[1] = one /\ q2[2] = <<two>> /\ Head(q2) = one /\ q2 # <<>>
      BY <1>1
    <2> HIDE DEF q2
    <2>2. \A i \in 1 .. Len(q2) : Ordered(q2[i])
      BY <1>1, <2>1
    <2>3. \A i \in 2 .. Len(q2) : StepsOf(q2[i]) \subseteq Rests
      BY <1>1, <2>1
    <2>4. todo'["worker"] = q2
      BY <1>3, <2>1, <2>2, <2>3, QueueGiven
    <2>5. Later' = {two}
      <3>1. 2 .. Len(q2) = {2}
        BY <2>1
      <3>2. Later' = UNION {StepsOf(q2[i]) : i \in {2}}
        BY <2>4, <3>1 DEF Later
      <3>3. {StepsOf(q2[i]) : i \in {2}} = {{two}}
        BY <1>1, <2>1
      <3> QED
        BY <3>2, <3>3
    <2> QED
      BY <1>3, <2>1, <2>2, <2>3, <2>5, QueueGiven DEF Ahead
  <1> QED
    BY <1>2, <1>3

NothingAhead == Later = {} /\ \A p \in Processes : Ahead(p) = {}

\* Nothing is ahead before the process starts and once it ends.
LEMMA NothingQueued ==
  todo = Nothing => Queued /\ NothingAhead
  <1> SUFFICES ASSUME todo = Nothing PROVE Queued /\ NothingAhead
    OBVIOUS
  <1>1. <<>> \in Seq(Program) /\ Len(<<>>) = 0
    OBVIOUS
  <1>2. /\ todo \in [Processes -> Seq(Program)]
        /\ \A p \in Processes : todo[p] = <<>> /\ Len(todo[p]) = 0
    BY <1>1 DEF Nothing
  <1>3. /\ \A p \in Processes : \A i \in 1 .. Len(todo[p]) : Ordered(todo[p][i])
        /\ \A i \in 2 .. Len(todo["worker"]) : StepsOf(todo["worker"][i]) \subseteq Rests
        /\ Len(todo["recovery"]) <= 1
    BY <1>2 DEF Processes
  <1>4. Later = {}
    BY <1>2 DEF Later, Processes
  <1> QED
    BY <1>2, <1>3, <1>4 DEF Queued, Ahead, NothingAhead

LEMMA EndsQueue ==
  ASSUME Ends
  PROVE  Queued' /\ NothingAhead'
  <1>1. (todo = Nothing)'
    BY DEF Ends
  <1> QED
    BY <1>1, NothingQueued, PTL

\* The programs of a request, of an exit and of a drain.
LEMMA WorkerGiven ==
  ASSUME Queued
  PROVE  /\ \A what \in Operations \cup {"settle"}, two \in Rests :
              \/ todo' = [todo EXCEPT !.worker = << <<"pick", what>>, <<two>> >>]
              \/ todo' = [todo EXCEPT !.worker = << <<"pick", what>> >>]
              => /\ Queued' /\ Ahead("worker")' = {"pick", what} /\ Later' \subseteq {two}
                 /\ Ahead("recovery")' = Ahead("recovery")
         /\ \A two \in Rests :
              todo' = [todo EXCEPT !.worker = << <<"hibernate">>, <<two>> >>]
              => /\ Queued' /\ Ahead("worker")' = {"hibernate"} /\ Later' \subseteq {two}
                 /\ Ahead("recovery")' = Ahead("recovery")
  <1>1. "worker" \in Processes /\ "recovery" \in Processes
    BY DEF Processes
  <1>2. ASSUME NEW what \in Operations \cup {"settle"}, NEW two \in Rests,
               \/ todo' = [todo EXCEPT !.worker = << <<"pick", what>>, <<two>> >>]
               \/ todo' = [todo EXCEPT !.worker = << <<"pick", what>> >>]
        PROVE  /\ Queued' /\ Ahead("worker")' = {"pick", what} /\ Later' \subseteq {two}
               /\ Ahead("recovery")' = Ahead("recovery")
    <2> DEFINE one == <<"pick", what>>
    <2>1. one \in Program /\ Ordered(one) /\ StepsOf(one) = {"pick", what}
      BY RequestPrograms
    <2>2. \/ todo' = [todo EXCEPT !["worker"] = <<one, <<two>> >>]
          \/ todo' = [todo EXCEPT !["worker"] = <<one>>]
      BY <1>2
    <2> HIDE DEF one
    <2> QED
      BY <1>1, <2>1, <2>2, QueueOf
  <1>3. ASSUME NEW two \in Rests,
               todo' = [todo EXCEPT !.worker = << <<"hibernate">>, <<two>> >>]
        PROVE  /\ Queued' /\ Ahead("worker")' = {"hibernate"} /\ Later' \subseteq {two}
               /\ Ahead("recovery")' = Ahead("recovery")
    <2> DEFINE one == <<"hibernate">>
    <2>1. one \in Program /\ Ordered(one) /\ StepsOf(one) = {"hibernate"}
      BY SoleSteps DEF Steps, Last
    <2>2. todo' = [todo EXCEPT !["worker"] = <<one, <<two>> >>]
      BY <1>3
    <2> HIDE DEF one
    <2> QED
      BY <1>1, <2>1, <2>2, QueueOf
  <1> QED
    BY <1>2, <1>3

LEMMA RecoveryGiven ==
  ASSUME Queued
  PROVE  /\ todo' = [todo EXCEPT !.recovery = <<Recovery>>]
              => /\ Queued' /\ Ahead("worker")' = Ahead("worker") /\ Later' = Later
                 /\ Ahead("recovery")' = {"unstage", "fenceSimple", "detach", "fence", "save"}
         /\ todo' = [todo EXCEPT !.recovery = << <<"sweep">> \o Recovery \o <<"serve">> >>]
              => /\ Queued' /\ Ahead("worker")' = Ahead("worker") /\ Later' = Later
                 /\ Ahead("recovery")' = {"sweep", "unstage", "fenceSimple", "detach", "fence",
                                          "save", "serve"}
  <1>1. "worker" \in Processes /\ "recovery" \in Processes /\ "exit" \in Rests
    BY DEF Processes, Rests
  <1>2. ASSUME todo' = [todo EXCEPT !.recovery = <<Recovery>>]
        PROVE  /\ Queued' /\ Ahead("worker")' = Ahead("worker") /\ Later' = Later
               /\ Ahead("recovery")' = {"unstage", "fenceSimple", "detach", "fence", "save"}
    BY <1>1, <1>2, RecoveryPrograms, QueueOf
  <1>3. ASSUME todo' = [todo EXCEPT !.recovery = << <<"sweep">> \o Recovery \o <<"serve">> >>]
        PROVE  /\ Queued' /\ Ahead("worker")' = Ahead("worker") /\ Later' = Later
               /\ Ahead("recovery")' = {"sweep", "unstage", "fenceSimple", "detach", "fence",
                                        "save", "serve"}
    <2> DEFINE one == <<"sweep">> \o Recovery \o <<"serve">>
    <2>1. /\ one \in Program /\ Ordered(one)
          /\ StepsOf(one) = {"sweep", "unstage", "fenceSimple", "detach", "fence", "save", "serve"}
      BY RecoveryPrograms
    <2>2. todo' = [todo EXCEPT !["recovery"] = <<one>>]
      BY <1>3
    <2> HIDE DEF one
    <2> QED
      BY <1>1, <2>1, <2>2, QueueOf
  <1> QED
    BY <1>2, <1>3

LEMMA ManageKeepsQueue ==
  ASSUME Queued, Manage
  PROVE  Queued'
  <1>1. {"wake", "settle", "exit"} \subseteq Rests /\ "settle" \notin Operations
        /\ {"wake", "hibernate", "checkpoint", "reset"} \subseteq Operations
    BY DEF Rests, Operations
  <1>2. CASE Wake \/ Hibernate \/ Checkpoint \/ Reset \/ SettleStopped
    BY <1>1, <1>2, WorkerGiven DEF Wake, Hibernate, Checkpoint, Reset, SettleStopped,
       Request
  <1>3. CASE Exited \/ Drain
    BY <1>1, <1>3, WorkerGiven DEF Exited, Drain
  <1>4. CASE Launch \/ Reconcile
    BY <1>4, RecoveryGiven DEF Launch, Reconcile
  <1>5. CASE Crash \/ Exit \/ Leave
    BY <1>5, EndsQueue DEF Crash, Exit, Leave
  <1>6. CASE SetIsolation \/ Signal("stop") \/ Signal("leave")
    BY <1>6 DEF SetIsolation, Signal, Queued
  <1> QED
    BY <1>2, <1>3, <1>4, <1>5, <1>6 DEF Manage

LEMMA NextKeepsQueue ==
  ASSUME Queued, [Next]_vars
  PROVE  Queued'
  <1>1. CASE UNCHANGED vars
    BY <1>1 DEF vars, Queued
  <1>2. CASE \E r \in Runtimes : GuestExits(r) \/ \E v \in {"system", "home"} : Write(r, v)
    BY <1>2 DEF GuestExits, Write, Queued
  <1> QED
    BY <1>1, <1>2, WorkerKeepsQueue, RecoverKeepsQueue, ManageKeepsQueue DEF Next

-----------------------------------------------------------------------------
(* Types. *)

Pairs == [system : Contents, home : Contents, reset : Ids]
Workings == [manifest : Ids, system : Contents, home : Contents, boot : BOOLEAN]
Trees == [record : Ids, system : Contents, home : Contents, old : Contents, process : BOOLEAN]

\* The parts of TypeOK that different steps change.
MemoryOK ==
    /\ up \in {"down", "starting", "serving"} /\ ending \in {"no", "stop", "leave"}
    /\ left \in BOOLEAN /\ spared \subseteq Runtimes
    /\ runtime \in Runtimes \cup {Nowhere} /\ handle \in {"none", "up", "kept"}
    /\ op \in 0 .. MaxResets /\ chosen \in Runtimes
DiskOK ==
    /\ stage \in {"none", "held", "bare", "gone"} /\ staged \in Pairs /\ current \in Pairs
    /\ working \in Workings /\ tree \in Trees /\ newer \in Runtimes
GhostsOK ==
    /\ guests \subseteq Runtimes /\ writes \in 0 .. MaxWrites
    /\ live \in [system : 0 .. MaxWrites, home : 0 .. MaxWrites] /\ live \in moments
    /\ asked \in 0 .. MaxResets /\ answered \in 0 .. MaxResets

Typed == Queued /\ MemoryOK /\ DiskOK /\ GhostsOK

LEMMA TypedOK == Typed => TypeOK
  <1> SUFFICES ASSUME Typed PROVE TypeOK
    OBVIOUS
  <1>1. \A p \in Processes : \A i \in DOMAIN todo[p] : todo[p][i] # <<>>
    BY DEF Typed, Queued, Program
  <1> QED
    BY <1>1 DEF Typed, MemoryOK, DiskOK, GhostsOK, TypeOK, Pairs, Workings, Trees

LEMMA ContentsValues ==
  /\ Absent \in Contents /\ Lost \in Contents /\ 0 \in Contents /\ Absent \in Ids /\ 0 \in Ids
  /\ \A n \in 0 .. MaxWrites : n \in Contents
  /\ \A n \in 0 .. MaxResets : n \in Ids
  /\ Absent # 0
  BY DEF Contents, Ids, Absent, Lost

LEMMA StorageValues ==
  /\ NoPair \in Pairs /\ NoWorking \in Workings /\ NoTree \in Trees
  /\ [system |-> 0, home |-> 0, reset |-> 0] \in Pairs
  BY ContentsValues DEF NoPair, NoWorking, NoTree, Pairs, Workings, Trees

LEMMA MemoryStep ==
  ASSUME Typed, [Next]_vars
  PROVE  MemoryOK'
  <1> USE DEF Typed, MemoryOK
  <1> USE DEF process, memory
  <1>1. CASE Worker
    <2>1. CASE Operate \/ Settle \/ Move \/ Interrupted \/ Save("worker") \/ Clear("worker")
               \/ First \/ StageWorking \/ Record \/ Capture \/ Publish \/ Wipe \/ Answer
               \/ Plant \/ Unnote \/ Note \/ Out \/ In \/ Pin \/ Discard \/ Mount
      BY <2>1 DEF Operate, Settle, Move, Interrupted, Save, Clear, First, StageWorking,
         Record,
         Capture, Publish, Wipe, Answer, Plant, Unnote, Note, Out, In, Pin, Discard, Mount
    <2>2. CASE \/ CopyVolume("copySystem", "system") \/ CopyVolume("copyHome", "home")
               \/ Raze \/ Build \/ DropCurrent \/ DropGenerations \/ Make \/ DropRecord
               \/ DropTree \/ StepFails("worker") \/ Halt
      BY <2>2 DEF CopyVolume, Raze, Build, DropCurrent, DropGenerations, Make, DropRecord,
         DropTree, StepFails, Halt
    <2>3. CASE Moved \/ Pick
      BY <2>3 DEF Moved, Pick, Other, Runtimes
    <2>4. CASE Start \/ Abort \/ Close \/ End \/ Boot
      BY <2>4 DEF Start, Abort, Close, End, Boot
    <2> QED
      BY <1>1, <2>1, <2>2, <2>3, <2>4 DEF Worker
  <1>2. CASE Recover
    BY <1>2 DEF Recover, Sweep, Unstage, FenceSimple, DetachStages, RemoveStages, Fence,
       Save,
       Clear, Serve, StepFails
  <1>3. CASE Manage
    <2>1. CASE Launch
      <3>1. PICK taken \in {{}} \cup {{r} : r \in LeftRunning} :
              /\ spared' = taken
              /\ \/ UNCHANGED <<runtime, handle>>
                 \/ runtime' \in taken /\ handle' = "up"
        BY <2>1 DEF Launch
      <3>2. taken \subseteq Runtimes
        BY DEF LeftRunning, GhostsOK
      <3> QED
        BY <2>1, <3>1, <3>2 DEF Launch
    <2>2. CASE Crash \/ Exit \/ Leave
      <3>1. left' \in BOOLEAN
        <4>1. CASE Leave
          <5>1. left' = (handle # "none")
            BY <4>1 DEF Leave
          <5> QED
            BY <5>1, Zenon
        <4> QED
          BY <2>2, <4>1 DEF Crash, Exit
      <3>2. 0 \in 0 .. MaxResets
        OBVIOUS
      <3> QED
        BY <2>2, <3>1, <3>2 DEF Crash, Exit, Leave, Ends, Runtimes
    <2>3. CASE Wake \/ Hibernate \/ Checkpoint \/ SettleStopped
      BY <2>3 DEF Wake, Hibernate, Checkpoint, SettleStopped, Request
    <2>4. CASE Reset
      BY <2>4 DEF Reset, Request, GhostsOK
    <2>5. CASE SetIsolation \/ Reconcile \/ Exited \/ Signal("stop") \/ Signal("leave") \/ Drain
      BY <2>5 DEF SetIsolation, Reconcile, Exited, Signal, Drain, Other, Runtimes
    <2> QED
      BY <1>3, <2>1, <2>2, <2>3, <2>4, <2>5 DEF Manage
  <1>4. CASE \E r \in Runtimes : GuestExits(r) \/ \E v \in {"system", "home"} : Write(r, v)
    BY <1>4 DEF GuestExits, Write
  <1>5. CASE UNCHANGED vars
    BY <1>5 DEF vars
  <1> QED
    BY <1>1, <1>2, <1>3, <1>4, <1>5 DEF Next

LEMMA GhostsStep ==
  ASSUME Typed, [Next]_vars
  PROVE  GhostsOK'
  <1> USE DEF Typed, GhostsOK
  <1> USE DEF ghosts
  <1>1. CASE Worker
    <2>1. CASE Operate \/ Settle \/ Move \/ Interrupted \/ Save("worker") \/ Clear("worker")
               \/ First \/ StageWorking \/ Record \/ Capture \/ Publish
               \/ Plant \/ Unnote \/ Note \/ Out \/ Pin \/ Discard \/ Mount
      BY <2>1 DEF Operate, Settle, Move, Interrupted, Save, Clear, First, StageWorking,
         Record,
         Capture, Publish, Plant, Unnote, Note, Out, Pin, Discard, Mount
    <2>2. CASE \/ CopyVolume("copySystem", "system") \/ CopyVolume("copyHome", "home")
               \/ Raze \/ Build \/ DropCurrent \/ DropGenerations \/ Make \/ DropRecord
               \/ DropTree \/ StepFails("worker") \/ Moved \/ Pick
      BY <2>2 DEF CopyVolume, Raze, Build, DropCurrent, DropGenerations, Make, DropRecord,
         DropTree, StepFails, Moved, Pick
    <2>3. CASE Start \/ Abort \/ Close \/ End \/ Boot \/ Halt
      BY <2>3 DEF Start, Abort, Close, End, Boot, Halt, Runtimes
    <2>4. CASE Wipe \/ In
      BY <2>4 DEF Wipe, In, WipeSystem
    <2>5. CASE Answer
      BY <2>5 DEF Answer, MemoryOK
    <2> QED
      BY <1>1, <2>1, <2>2, <2>3, <2>4, <2>5 DEF Worker
  <1>2. CASE Recover
    BY <1>2 DEF Recover, Sweep, Unstage, FenceSimple, DetachStages, RemoveStages, Fence,
       Save,
       Clear, Serve, StepFails
  <1>3. CASE Manage
    <2>1. CASE Launch \/ Crash \/ Exit \/ Leave
      BY <2>1 DEF Launch, Crash, Exit, Leave
    <2>2. CASE Wake \/ Hibernate \/ Checkpoint \/ SettleStopped \/ Reset
      BY <2>2 DEF Wake, Hibernate, Checkpoint, SettleStopped, Reset, Request
    <2>3. CASE SetIsolation \/ Reconcile \/ Exited \/ Signal("stop") \/ Signal("leave") \/ Drain
      BY <2>3 DEF SetIsolation, Reconcile, Exited, Signal, Drain
    <2> QED
      BY <1>3, <2>1, <2>2, <2>3 DEF Manage
  <1>4. CASE \E r \in Runtimes : GuestExits(r) \/ \E v \in {"system", "home"} : Write(r, v)
    BY <1>4 DEF GuestExits, Write
  <1>5. CASE UNCHANGED vars
    BY <1>5 DEF vars
  <1> QED
    BY <1>1, <1>2, <1>3, <1>4, <1>5 DEF Next

LEMMA DiskStep ==
  ASSUME Typed, [Next]_vars
  PROVE  DiskOK'
  <1> USE ContentsValues, StorageValues DEF Typed, DiskOK, making, disk
  <1>0. ASSUME NEW p \in Processes, Clear(p)
        PROVE  DiskOK'
    <2>1. \A file \in {"manifest", "system", "home"} : [working EXCEPT ![file] = Absent] \in Workings
      BY DEF Workings
    <2>2. [working EXCEPT !.boot = FALSE] \in Workings
      BY DEF Workings
    <2> QED
      BY <1>0, <2>1, <2>2 DEF Clear
  <1>1. CASE Worker
    <2>1. CASE Operate \/ Settle \/ Move \/ Answer \/ DropGenerations \/ Moved \/ Pick
      BY <2>1 DEF Operate, Settle, Move, Answer, DropGenerations, Moved, Pick
    <2>2. CASE Interrupted \/ StepFails("worker") \/ Start \/ Halt \/ End \/ Boot
      BY <2>2 DEF Interrupted, StepFails, Start, Halt, End, Boot, Fail
    <2>3. CASE Save("worker")
      BY <2>3 DEF Save, Fail, Runtimes, Pairs, Workings
    <2>4. CASE Clear("worker")
      BY <1>0, <2>4 DEF Processes
    <2>5. CASE First
      BY <2>5 DEF First, Runtimes
    <2>6. CASE StageWorking
      <3>1. [manifest |-> current.reset, system |-> current.system, home |-> current.home,
             boot |-> FALSE] \in Workings
        BY DEF Pairs, Workings
      <3> QED
        BY <2>6, <3>1 DEF StageWorking, Fail
    <2>7. CASE Record \/ Abort \/ Close
      BY <2>7 DEF Record, Abort, Close, Fail, Workings
    <2>8. CASE Capture
      BY <2>8 DEF Capture, Fail, Pairs, Workings
    <2>9. CASE Publish
      BY <2>9 DEF Publish, Fail, Runtimes
    <2>10. CASE Wipe
      BY <2>10 DEF Wipe, Runtimes, Pairs, MemoryOK
    <2>11. CASE Plant
      BY <2>11 DEF Plant, Runtimes, Trees
    <2>12. CASE Unnote \/ Note \/ Out \/ In \/ Discard
      BY <2>12 DEF Unnote, Note, Out, In, Discard, Fail, Trees
    <2>13. CASE Pin
      BY <2>13 DEF Pin, Trees, MemoryOK, Runtimes
    <2>14. CASE Mount
      BY <2>14 DEF Mount, Pairs
    <2>15. CASE CopyVolume("copySystem", "system") \/ CopyVolume("copyHome", "home")
      BY <2>15 DEF CopyVolume, Fail, Pairs
    <2>16. CASE Raze \/ DropTree \/ DropRecord \/ DropCurrent
      BY <2>16 DEF Raze, DropTree, DropRecord, DropCurrent, Trees
    <2>17. CASE Build
      BY <2>17 DEF Build, Trees, Pairs, Runtimes
    <2>18. CASE Make
      BY <2>18 DEF Make, Fail, Trees, Pairs
    <2> QED
      BY <1>1, <2>1, <2>2, <2>3, <2>4, <2>5, <2>6, <2>7, <2>8, <2>9, <2>10, <2>11, <2>12,
         <2>13, <2>14, <2>15, <2>16, <2>17, <2>18 DEF Worker
  <1>2. CASE Recover
    <2>1. CASE Sweep \/ Serve \/ StepFails("recovery")
      BY <2>1 DEF Sweep, Serve, StepFails, Fail
    <2>2. CASE Unstage \/ FenceSimple
      BY <2>2 DEF Unstage, FenceSimple, Trees
    <2>3. CASE DetachStages \/ RemoveStages
      BY <2>3 DEF DetachStages, RemoveStages
    <2>4. CASE Fence \/ Clear("recovery")
      BY <1>0, <2>4 DEF Fence, Workings, Processes
    <2>5. CASE Save("recovery")
      BY <2>5 DEF Save, Fail, Runtimes, Pairs, Workings
    <2> QED
      BY <1>2, <2>1, <2>2, <2>3, <2>4, <2>5 DEF Recover
  <1>3. CASE Manage
    <2>1. CASE Launch \/ Crash \/ Exit \/ Leave
      BY <2>1 DEF Launch, Crash, Exit, Leave, Ends
    <2>2. CASE Wake \/ Hibernate \/ Checkpoint \/ SettleStopped \/ Reset
      BY <2>2 DEF Wake, Hibernate, Checkpoint, SettleStopped, Reset, Request
    <2>3. CASE SetIsolation \/ Reconcile \/ Exited \/ Signal("stop") \/ Signal("leave") \/ Drain
      BY <2>3 DEF SetIsolation, Reconcile, Exited, Signal, Drain
    <2> QED
      BY <1>3, <2>1, <2>2, <2>3 DEF Manage
  <1>4. CASE \E r \in Runtimes : GuestExits(r) \/ \E v \in {"system", "home"} : Write(r, v)
    <2>1. CASE \E r \in Runtimes : GuestExits(r)
      BY <2>1 DEF GuestExits
    <2>2. ASSUME NEW r \in Runtimes, NEW v \in {"system", "home"}, Write(r, v)
          PROVE  DiskOK'
      <3>1. writes + 1 \in Contents
        BY <2>2 DEF Write, GhostsOK, Contents
      <3> QED
        BY <2>2, <3>1 DEF Write, Workings, Trees
    <2> QED
      BY <1>4, <2>1, <2>2
  <1>5. CASE UNCHANGED vars
    BY <1>5 DEF vars
  <1> QED
    BY <1>1, <1>2, <1>3, <1>4, <1>5 DEF Next

LEMMA TypedInit == Init => Typed
  <1> SUFFICES ASSUME Init PROVE Typed
    OBVIOUS
  <1>1. Queued
    BY NothingQueued DEF Init
  <1>2. 0 \in 0 .. MaxWrites /\ 0 \in 0 .. MaxResets
    OBVIOUS
  <1>3. MemoryOK /\ GhostsOK
    BY <1>2 DEF Init, MemoryOK, GhostsOK, Runtimes
  <1>4. DiskOK
    BY StorageValues DEF Init, DiskOK, Runtimes
  <1> QED
    BY <1>1, <1>3, <1>4 DEF Typed

LEMMA TypedStep == Typed /\ [Next]_vars => Typed'
  BY NextKeepsQueue, MemoryStep, DiskStep, GhostsStep DEF Typed

\* The types of the manager's state, of the files it leaves on the disk and of
\* what its guests wrote, through every operation, move, reset, failed step,
\* crash and restart: no program that ran out stays queued, so a worker is never
\* stuck before one, and no step reads a file of the wrong shape.
THEOREM StorageTyped == Spec => []TypeOK
  <1>1. Typed => TypeOK
    BY TypedOK
  <1> QED
    BY <1>1, TypedInit, TypedStep, PTL DEF Spec

-----------------------------------------------------------------------------
(* One writer.  The invariant speaks of the steps ahead of the worker and  *)
(* of recovery, of the runtime the worker has, and of what is on the disk. *)

W == Ahead("worker")
R == Ahead("recovery")
GvisorRuns == "gvisor" \in guests
SimpleRuns == "simple" \in guests
HasCurrent == current # NoPair
\* The committed pair is what moves::settle would keep.
Newest == HasCurrent /\ newer = "gvisor"
Boots == working.boot
StagedNone == stage = "held" /\ staged = NoPair

GvisorSteps == {"save", "first", "stage", "record", "start", "abort", "halt", "close",
                "capture", "wipe"} \cup Copying
SimpleSteps == {"plant", "end", "unnote", "boot", "note", "out", "in", "pin", "discard", "make"}
MoveSteps == {"hibernate", "halt", "close", "save", "clear", "end", "unnote", "move",
              "dropCurrent", "dropGenerations", "make", "publish", "dropRecord", "dropTree",
              "moved"} \cup Copying
PickSteps == {"clear", "dropCurrent", "dropGenerations", "dropRecord", "dropTree", "pick",
              "wake", "hibernate", "checkpoint", "reset", "settle"}

\* What the processes may do in each state of the manager.
Phases ==
    /\ up # "serving" => W = {}
    /\ up = "down" => R = {} /\ runtime = Nowhere /\ handle = "none"
    /\ up = "starting" => \/ runtime = Nowhere /\ handle = "none" /\ spared = {}
                          \/ runtime # Nowhere /\ handle = "up" /\ spared = {runtime}
    /\ up = "serving" /\ R # {} =>
         /\ "serve" \notin R
         /\ \/ runtime # Nowhere /\ spared = Runtimes /\ "clear" \notin R
            \/ handle = "none" /\ spared = {} /\ W = {}
    /\ handle # "none" => runtime # Nowhere
    /\ runtime = Nowhere /\ "pick" \notin W => "settle" \notin W \cup Later

\* Which steps belong to one program, and on which runtime.
Shapes ==
    /\ \A s \in W : /\ s \in GvisorSteps => runtime = "gvisor"
                    /\ s \in SimpleSteps => runtime = "simple"
                    /\ s \in {"dropCurrent", "dropGenerations"} =>
                         "moved" \in W \/ ("pick" \in W /\ runtime = Nowhere)
                    /\ s \in {"dropRecord", "dropTree"} =>
                         \/ "moved" \in W /\ runtime = "simple"
                         \/ "pick" \in W /\ runtime = Nowhere
    /\ "moved" \in W => W \subseteq MoveSteps /\ handle = "none" /\ runtime # Nowhere
    /\ "pick" \in W => W \subseteq PickSteps
    /\ "abort" \in W => W = {"abort"}
    /\ "boot" \in W => W \subseteq {"plant", "end", "boot", "note"}
    /\ "start" \in W => W \subseteq {"save", "clear", "first", "stage", "record", "start"}
    /\ "publish" \in W =>
         \/ runtime = "gvisor" /\ W \subseteq {"capture", "publish"}
         \/ /\ runtime = "simple" /\ "moved" \in W
            /\ W \subseteq {"make", "publish", "dropRecord", "dropTree", "moved"}
    /\ "clear" \in W => runtime # "simple"
    /\ "make" \in W => "moved" \in W

\* Which steps are still to come while another is.
Orders ==
    /\ \A s \in W : /\ s \in {"hibernate", "halt", "close", "save", "end", "unnote"} =>
                         ("moved" \in W => "move" \in W)
                    /\ s \in Copying => {"clear", "dropCurrent", "moved"} \subseteq W
                    /\ s \in {"save", "clear", "first", "stage"} =>
                         ("start" \in W => "record" \in W)
    /\ "move" \in W => "moved" \in W
    /\ "clear" \in W /\ "moved" \in W => "move" \in W \/ "dropCurrent" \in W
    /\ "record" \in W /\ "first" \notin W => HasCurrent

\* Where a guest may run.
Running ==
    /\ GvisorRuns => Boots
    /\ up = "serving" /\ GvisorRuns => runtime = "gvisor" /\ (handle # "none" \/ "abort" \in W)
    /\ up = "starting" /\ GvisorRuns => runtime = "gvisor" \/ "fence" \in R \/ R = {}
    /\ "close" \in W /\ "halt" \notin W => ~GvisorRuns
    /\ "clear" \in W \cup R => ~GvisorRuns
    /\ "start" \in W /\ "record" \notin W => Boots
    /\ SimpleRuns => OnSimple /\ ~Newest /\ ~HasWorking /\ runtime # "gvisor"
    /\ "moved" \in W /\ runtime = "simple" /\ "end" \notin W /\ "hibernate" \notin W
         => ~SimpleRuns
    /\ "make" \in W \/ "dropRecord" \in W \/ "dropTree" \in W => ~SimpleRuns

\* What is on the disk while a step is still to come.
Places ==
    /\ HasWorking => HasCurrent
    /\ runtime = "simple" => ~HasWorking
    /\ runtime = "simple" /\ Newest /\ OnSimple =>
         "moved" \in W /\ W \subseteq {"dropRecord", "dropTree", "moved"}
    /\ "dropTree" \in W /\ "dropRecord" \notin W => ~OnSimple
    /\ "boot" \in W /\ "plant" \notin W => OnSimple
    /\ /\ "moved" \in W /\ runtime = "gvisor"
       /\ W \cap {"hibernate", "halt", "close", "save", "move", "clear"} = {}
       => ~HasWorking /\ ("dropCurrent" \notin W => ~HasCurrent)
    /\ "dropCurrent" \in W /\ "clear" \notin W => ~HasWorking
    /\ "publish" \in W /\ "capture" \notin W /\ "make" \notin W => ~StagedNone

WriterInv == Phases /\ Shapes /\ Orders /\ Running /\ Places

-----------------------------------------------------------------------------
(* What each kind of step does to the steps ahead. *)

LEMMA LaterRests ==
  ASSUME Queued
  PROVE  Later \subseteq Rests /\ (W = {} => Later = {})
  <1>1. Later \subseteq Rests
    BY DEF Later, Queued
  <1>2. ASSUME W = {} PROVE Later = {}
    <2>1. todo["worker"] = <<>>
      BY <1>2, AheadOfNone DEF W, Processes
    <2>2. Len(todo["worker"]) = 0
      BY <2>1
    <2>3. 2 .. Len(todo["worker"]) = {}
      BY <2>2
    <2> QED
      BY <2>3 DEF Later
  <1> QED
    BY <1>1, <1>2

\* The worker does a step, and `more` comes before what is left.
LEMMA WorkerGoesOn ==
  ASSUME Queued, NEW step, At("worker", step), NEW more, Follows(step, more), Then("worker", more)
  PROVE  /\ R' = R /\ Later' \subseteq Later /\ Later \subseteq Rests
         /\ \E rest \in SUBSET After(step) :
              /\ W = {step} \cup rest
              /\ \/ W' = StepsOf(more) \cup rest
                 \/ StepsOf(more) = {} /\ rest = {} /\ W' \subseteq Later
  <1>1. "worker" \in Processes /\ "recovery" \in Processes
    BY DEF Processes
  <1>2. /\ Later' \subseteq Later
        /\ \A r \in Processes : r # "worker" => Ahead(r)' = Ahead(r)
        /\ \E after \in SUBSET After(step) :
              /\ Ahead("worker") = {step} \cup after
              /\ \/ Ahead("worker")' = StepsOf(more) \cup after
                 \/ /\ StepsOf(more) \cup after = {}
                    /\ Ahead("worker")' \subseteq Later
    BY <1>1, StepDone
  <1> QED
    BY <1>1, <1>2, LaterRests DEF W, R

\* The worker does a step.
LEMMA WorkerDone ==
  ASSUME Queued, NEW step, At("worker", step), Then("worker", <<>>)
  PROVE  /\ R' = R /\ Later' \subseteq Later /\ Later \subseteq Rests
         /\ \E rest \in SUBSET After(step) :
              W = {step} \cup rest /\ (W' = rest \/ (rest = {} /\ W' \subseteq Later))
  <1>1. Follows(step, <<>>) /\ StepsOf(<<>>) = {}
    BY FollowsNothing
  <1>2. /\ R' = R /\ Later' \subseteq Later /\ Later \subseteq Rests
        /\ \E rest \in SUBSET After(step) :
              /\ W = {step} \cup rest
              /\ \/ W' = StepsOf(<<>>) \cup rest
                 \/ StepsOf(<<>>) = {} /\ rest = {} /\ W' \subseteq Later
    BY <1>1, WorkerGoesOn
  <1> QED
    BY <1>1, <1>2

\* The worker's program ends, well or not.
LEMMA WorkerEnds ==
  ASSUME Queued, NEW step, At("worker", step), Done("worker") \/ Fail("worker")
  PROVE  /\ R' = R /\ Later' \subseteq Later /\ Later \subseteq Rests /\ W' \subseteq Later
         /\ Fail("worker") /\ runtime = Nowhere => W' = {} /\ Later' = {}
         /\ step \in W
  <1>1. /\ "worker" \in Processes /\ "recovery" \in Processes /\ todo["worker"] # <<>>
        /\ Head(Head(todo["worker"])) = step
    BY DEF Processes, At
  <1>2. \/ todo' = [todo EXCEPT !["worker"] = Tail(@)]
        \/ todo' = [todo EXCEPT !["worker"] = <<>>]
    BY DEF Done, Fail
  <1>3. Fail("worker") /\ runtime = Nowhere => todo' = [todo EXCEPT !["worker"] = <<>>]
    BY DEF Fail
  <1>4. step \in W
    <2>1. /\ Len(Head(todo["worker"])) >= 1 /\ Head(todo["worker"])[1] = step
          /\ Head(todo["worker"]) \in Seq(Steps)
      BY <1>1, FirstProgram
    <2>2. step \in StepsOf(Head(todo["worker"]))
      BY <2>1 DEF StepsOf
    <2> QED
      BY <1>1, <2>2 DEF W, Ahead
  <1> QED
    BY <1>1, <1>2, <1>3, <1>4, ProgramEnds, LaterRests DEF W, R

\* The worker's program is replaced.
LEMMA WorkerTurns ==
  ASSUME Queued, NEW step, At("worker", step), NEW program \in Program, Ordered(program),
         todo' = [todo EXCEPT !.worker[1] = program]
  PROVE  R' = R /\ Later' = Later /\ W' = StepsOf(program) /\ step \in W
  <1>1. /\ "worker" \in Processes /\ "recovery" \in Processes /\ todo["worker"] # <<>>
        /\ Head(Head(todo["worker"])) = step
    BY DEF Processes, At
  <1>2. step \in W
    <2>1. /\ Len(Head(todo["worker"])) >= 1 /\ Head(todo["worker"])[1] = step
          /\ Head(todo["worker"]) \in Seq(Steps)
      BY <1>1, FirstProgram
    <2>2. step \in StepsOf(Head(todo["worker"]))
      BY <2>1 DEF StepsOf
    <2> QED
      BY <1>1, <2>2 DEF W, Ahead
  <1> QED
    BY <1>1, <1>2, ProgramReplaced DEF W, R

\* Recovery does a step, or its program ends.
LEMMA RecoveryGoesOn ==
  ASSUME Queued, NEW step, At("recovery", step), NEW more, Follows(step, more),
         Then("recovery", more)
  PROVE  /\ W' = W /\ Later' \subseteq Later
         /\ \E rest \in SUBSET After(step) :
              /\ R = {step} \cup rest
              /\ R' = StepsOf(more) \cup rest
  <1>1. "worker" \in Processes /\ "recovery" \in Processes
    BY DEF Processes
  <1>2. /\ Later' \subseteq Later
        /\ \A r \in Processes : r # "recovery" => Ahead(r)' = Ahead(r)
        /\ \E after \in SUBSET After(step) :
              /\ Ahead("recovery") = {step} \cup after
              /\ \/ Ahead("recovery")' = StepsOf(more) \cup after
                 \/ /\ StepsOf(more) \cup after = {}
                    /\ Ahead("recovery")' \subseteq {}
    BY <1>1, StepDone
  <1> QED
    BY <1>1, <1>2 DEF W, R

LEMMA RecoveryEnds ==
  ASSUME Queued, NEW step, At("recovery", step), Fail("recovery")
  PROVE  W' = W /\ Later' \subseteq Later /\ R' = {} /\ R # {}
  <1>1. "worker" \in Processes /\ "recovery" \in Processes /\ todo["recovery"] # <<>>
    BY DEF Processes, At
  <1>2. todo' = [todo EXCEPT !["recovery"] = Tail(@)]
    BY DEF Fail
  <1>3. Ahead("recovery") # {}
    BY <1>1, AheadOfNone
  <1> QED
    BY <1>1, <1>2, <1>3, ProgramEnds DEF W, R

\* A working directory with a boot record in it is there.
LEMMA BootsWorking == Typed => (Boots => HasWorking)
  BY DEF Boots, HasWorking, NoWorking

\* What of the state the invariant speaks of, besides the steps.
Kept ==
    /\ up' = up /\ spared' = spared /\ runtime' = runtime /\ handle' = handle
    /\ guests' = guests
    /\ HasCurrent' = HasCurrent /\ Newest' = Newest
    /\ HasWorking' = HasWorking /\ OnSimple' = OnSimple
    /\ Boots' = Boots

LEMMA DiskKept ==
  /\ UNCHANGED current => HasCurrent' = HasCurrent
  /\ UNCHANGED <<current, newer>> => Newest' = Newest
  /\ UNCHANGED working => HasWorking' = HasWorking /\ Boots' = Boots
  /\ UNCHANGED tree => OnSimple' = OnSimple
  /\ UNCHANGED making => StagedNone' = StagedNone
  BY DEF HasCurrent, Newest, HasWorking, OnSimple, Boots, StagedNone, making

-----------------------------------------------------------------------------
(* Each step keeps the invariant. *)

\* The first step is ahead, and with it only steps that may come after it.
LEMMA HeadAhead ==
  ASSUME Queued, NEW p \in Processes, NEW step, At(p, step)
  PROVE  step \in Ahead(p) /\ \E rest \in SUBSET After(step) : Ahead(p) = {step} \cup rest
  <1> DEFINE h == Head(todo[p]) t == Tail(h)
  <1>1. todo[p] # <<>> /\ Head(h) = step
    BY DEF At
  <1>2. /\ h \in Seq(Steps) /\ Len(h) >= 1 /\ h[1] = step
        /\ t \in Seq(Steps) /\ Len(t) = Len(h) - 1
        /\ \A i \in 1 .. Len(t) : t[i] = h[i + 1]
        /\ Ahead(p) = StepsOf(h)
    BY <1>1, FirstProgram DEF Ahead
  <1>3. Ordered(h)
    BY <1>1, FirstProgram DEF Queued
  <1> HIDE DEF h, t
  <1>4. StepsOf(t) \subseteq After(step)
    BY <1>2, <1>3 DEF StepsOf, Ordered
  <1>5. StepsOf(h) = {step} \cup StepsOf(t)
    <2>1. \A i \in 1 .. Len(h) : i = 1 \/ (i - 1 \in 1 .. Len(t) /\ h[i] = t[i - 1])
      BY <1>2
    <2>2. \A i \in 1 .. Len(t) : i + 1 \in 1 .. Len(h) /\ t[i] = h[i + 1]
      BY <1>2
    <2>3. 1 \in 1 .. Len(h)
      BY <1>2
    <2>4. \A s : s \in StepsOf(h) => s \in {step} \cup StepsOf(t)
      <3> SUFFICES ASSUME NEW i \in 1 .. Len(h)
                   PROVE  h[i] \in {step} \cup StepsOf(t)
        BY DEF StepsOf
      <3> QED
        BY <1>2, <2>1 DEF StepsOf
    <2>5. \A s : s \in {step} \cup StepsOf(t) => s \in StepsOf(h)
      BY <1>2, <2>2, <2>3 DEF StepsOf
    <2> QED
      BY <2>4, <2>5
  <1> QED
    BY <1>2, <1>4, <1>5

\* The worker's program fails: what waits behind it changes no storage.
LEMMA FailKeeps ==
  ASSUME Typed, WriterInv, NEW step, At("worker", step), Fail("worker"), Kept,
         step \notin {"abort", "dropRecord", "moved"}
  PROVE  WriterInv'
  <1>1. /\ R' = R /\ Later' \subseteq Later /\ Later \subseteq Rests /\ W' \subseteq Later
        /\ runtime = Nowhere => W' = {} /\ Later' = {}
        /\ step \in W
    BY WorkerEnds DEF Typed
  <1>2. ~StagedNone'
    BY DEF Fail, StagedNone
  <1>8. step = "dropTree" => "dropRecord" \notin W
    BY HeadAhead, AfterValues DEF Typed, W, Processes
  <1> USE <1>1 DEF Kept, WriterInv
  <1>3. Phases'
    BY DEF Phases, Rests
  <1>4. Shapes'
    BY DEF Rests, Shapes, GvisorSteps, SimpleSteps, Copying
  <1>5. Orders'
    BY DEF Rests, Orders, Copying
  <1>6. Running'
    BY DEF Rests, Running, GvisorRuns, SimpleRuns, Phases, Shapes
  <1>7. Places'
    BY <1>2, <1>8 DEF Rests, Places
  <1> QED
    BY <1>3, <1>4, <1>5, <1>6, <1>7

\* The steps the invariant asks nothing of once they are done.
Quiet == {"capture", "wipe", "answer", "unnote", "note", "out", "in", "pin",
          "discard", "mount", "copySystem", "copyHome", "raze", "build", "dropGenerations",
          "dropRecord", "dropTree", "make"}

LEMMA QuietKeeps ==
  ASSUME Typed, WriterInv, NEW step \in Quiet, At("worker", step), Then("worker", <<>>),
         up' = up, spared' = spared, runtime' = runtime, handle' = handle, guests' = guests,
         HasWorking' = HasWorking, Boots' = Boots,
         HasCurrent' = HasCurrent \/ (HasCurrent' /\ runtime = "gvisor" /\ "moved" \notin W),
         runtime # "gvisor" => (Newest' => Newest),
         OnSimple => OnSimple' \/ (~SimpleRuns /\ "boot" \notin W),
         OnSimple' => \/ OnSimple /\ step \notin {"dropRecord", "dropTree"}
                      \/ ~Newest' /\ "dropTree" \notin W,
         StagedNone' => "publish" \notin W \/ (StagedNone /\ step \notin {"capture", "make"})
  PROVE  WriterInv'
  <1>1. R' = R /\ Later' \subseteq Later /\ Later \subseteq Rests
    BY WorkerDone DEF Typed
  <1>2. PICK rest \in SUBSET After(step) :
          W = {step} \cup rest /\ (W' = rest \/ (rest = {} /\ W' \subseteq Later))
    BY WorkerDone DEF Typed
  <1> USE <1>1, <1>2 DEF WriterInv
  <1>3. Phases'
    BY DEF Phases, Rests, Quiet
  <1>4. Shapes'
    BY DEF Rests, Shapes, GvisorSteps, SimpleSteps, Copying, Quiet
  <1>5. Orders'
    BY DEF Rests, Orders, Copying, Quiet
  <1>6. Running'
    BY DEF Rests, Running, GvisorRuns, SimpleRuns, Phases, Shapes, Quiet
  <1>7. Places'
    BY DEF Rests, Places, Quiet
  <1> QED
    BY <1>3, <1>4, <1>5, <1>6, <1>7

LEMMA QuietStepsKeep ==
  ASSUME Typed, WriterInv,
         \/ Capture \/ Wipe \/ Answer \/ Unnote \/ Note \/ Out \/ In \/ Pin \/ Discard \/ Mount
         \/ CopyVolume("copySystem", "system") \/ CopyVolume("copyHome", "home")
         \/ Raze \/ Build \/ DropGenerations \/ Make \/ DropRecord \/ DropTree
  PROVE  WriterInv'
  <1>0. \A step : At("worker", step) => step \in W
    BY HeadAhead DEF Typed, W, Processes
  <1>1. CASE Capture
    <2>1. CASE Then("worker", <<>>) /\ working.manifest # Absent /\ staged'.reset = working.manifest
      <3>1. ~StagedNone'
        BY <2>1 DEF StagedNone, NoPair
      <3> QED
        BY <1>1, <2>1, <3>1, QuietKeeps, DiskKept DEF Capture, Quiet, process, memory, disk
    <2>2. CASE Fail("worker")
      BY <1>1, <2>2, FailKeeps, DiskKept DEF Capture, Kept, process, memory, disk
    <2>3. CASE todo' = [todo EXCEPT !.worker[1] = <<"halt", "close">>] /\ UNCHANGED making
      <3>1. /\ <<"halt", "close">> \in Program /\ Ordered(<<"halt", "close">>)
            /\ StepsOf(<<"halt", "close">>) = {"halt", "close"}
        BY AfterValues, OrderedShort DEF Free, Steps, Program, StepsOf
      <3>2. R' = R /\ Later' = Later /\ W' = {"halt", "close"} /\ "capture" \in W
        BY <1>1, <2>3, <3>1, WorkerTurns DEF Capture, Typed
      <3>3. Kept
        BY <1>1, DiskKept DEF Capture, Kept, process, memory, disk
      <3> USE <3>2, <3>3 DEF Kept, WriterInv
      <3>4. Phases'
        BY LaterRests DEF Phases, Rests, Typed, Shapes, GvisorSteps, Nowhere
      <3>5. Shapes' /\ Orders'
        BY DEF Shapes, Orders, GvisorSteps, SimpleSteps, Copying
      <3>6. Running'
        BY DEF Running, GvisorRuns, SimpleRuns, Shapes
      <3>7. Places'
        BY DEF Places, Shapes
      <3> QED
        BY <3>4, <3>5, <3>6, <3>7
    <2> QED
      BY <1>1, <2>1, <2>2, <2>3 DEF Capture
  <1>2. CASE Wipe
    <2>1. "wipe" \in W /\ runtime = "gvisor" /\ "moved" \notin W
      BY <1>0, <1>2 DEF Wipe, WriterInv, Shapes, GvisorSteps, MoveSteps, Copying
    <2>2. HasCurrent' = HasCurrent \/ HasCurrent'
      <3>1. CASE UNCHANGED current
        BY <3>1, DiskKept
      <3>2. CASE current' = [current EXCEPT !.system = 0, !.reset = op]
        <4>1. current'.system = 0
          BY <3>2 DEF Typed, DiskOK, Pairs
        <4> QED
          BY <4>1, ContentsValues DEF HasCurrent, NoPair
      <3> QED
        BY <1>2, <3>1, <3>2 DEF Wipe
    <2> QED
      BY <1>2, <2>1, <2>2, QuietKeeps, DiskKept DEF Wipe, Quiet, process, memory
  <1>3. CASE Answer \/ DropGenerations
    BY <1>3, QuietKeeps, DiskKept DEF Answer, DropGenerations, Quiet, process, memory, disk
  <1>4. CASE Unnote \/ Note \/ In \/ Discard
    <2>1. OnSimple' = OnSimple
      BY <1>4 DEF Unnote, Note, In, Discard, OnSimple, Typed, DiskOK, Trees
    <2> QED
      BY <1>4, <2>1, QuietKeeps, DiskKept DEF Unnote, Note, In, Discard, Quiet, process,
         memory
  <1>5. CASE Out
    <2>1. OnSimple' = OnSimple
      BY <1>5 DEF Out, OnSimple, Typed, DiskOK, Trees
    <2>2. CASE Then("worker", <<>>) /\ UNCHANGED making
      BY <1>5, <2>1, <2>2, QuietKeeps, DiskKept DEF Out, Quiet, process, memory
    <2>3. CASE Fail("worker")
      BY <1>5, <2>1, <2>3, FailKeeps, DiskKept DEF Out, Kept, process, memory
    <2>4. CASE todo' = [todo EXCEPT !.worker[1] = <<"answer">>] /\ UNCHANGED making
      <3>1. /\ <<"answer">> \in Program /\ Ordered(<<"answer">>) /\ StepsOf(<<"answer">>) = {"answer"}
        BY SoleSteps DEF Free, Last, Steps
      <3>2. R' = R /\ Later' = Later /\ W' = {"answer"} /\ "out" \in W
        BY <1>5, <2>4, <3>1, WorkerTurns DEF Out, Typed
      <3>3. Kept
        BY <1>5, <2>1, DiskKept DEF Out, Kept, process, memory
      <3> USE <3>2, <3>3 DEF Kept, WriterInv
      <3>4. Phases'
        BY LaterRests DEF Phases, Rests, Typed, Shapes, SimpleSteps, Nowhere
      <3>5. Shapes' /\ Orders'
        BY DEF Shapes, Orders, GvisorSteps, SimpleSteps, Copying
      <3>6. Running'
        BY DEF Running, GvisorRuns, SimpleRuns, Shapes
      <3>7. Places'
        BY DEF Places, Shapes
      <3> QED
        BY <3>4, <3>5, <3>6, <3>7
    <2> QED
      BY <1>5, <2>2, <2>3, <2>4 DEF Out
  <1>6. CASE Pin
    <2>1. OnSimple'
      BY <1>6 DEF Pin, OnSimple, Typed, MemoryOK, DiskOK, Trees, Absent
    <2>2. ~Newest'
      BY <1>6 DEF Pin, Newest
    <2>3. "dropTree" \notin W
      BY <1>0, <1>6 DEF Pin, WriterInv, Shapes, MoveSteps, PickSteps, Copying
    <2> QED
      BY <1>6, <2>1, <2>2, <2>3, QuietKeeps, DiskKept DEF Pin, Quiet, process, memory
  <1>7. CASE Mount \/ CopyVolume("copySystem", "system") \/ CopyVolume("copyHome", "home")
    <2>1. "publish" \notin W
      BY <1>0, <1>7 DEF Mount, CopyVolume, WriterInv, Shapes
    <2>2. CASE Then("worker", <<>>)
      BY <1>7, <2>1, <2>2, QuietKeeps, DiskKept DEF Mount, CopyVolume, Quiet, process,
         memory, disk
    <2>3. CASE Fail("worker")
      BY <1>7, <2>3, FailKeeps, DiskKept DEF Mount, CopyVolume, Kept, process, memory, disk
    <2> QED
      BY <1>7, <2>2, <2>3 DEF Mount, CopyVolume
  <1>8. CASE Raze \/ Build
    <2>1. ~SimpleRuns /\ "boot" \notin W
      BY <1>0, <1>8 DEF Raze, Build, WriterInv, Shapes, Running, GvisorSteps, Copying
    <2>2. StagedNone' => StagedNone
      BY <1>8 DEF Raze, Build, StagedNone, making
    <2>3. runtime = "gvisor" /\ "dropTree" \notin W
      BY <1>0, <1>8 DEF Raze, Build, WriterInv, Shapes, GvisorSteps, Copying, Nowhere
    <2>4. ~OnSimple' \/ ~Newest'
      BY <1>8, StorageValues DEF Raze, Build, NoTree, OnSimple, Newest
    <2> QED
      BY <1>8, <2>1, <2>2, <2>3, <2>4, QuietKeeps, DiskKept DEF Raze, Build, Quiet, process, memory
  <1>9. CASE DropRecord \/ DropTree
    <2>1. ~SimpleRuns /\ "boot" \notin W
      BY <1>0, <1>9 DEF DropRecord, DropTree, WriterInv, Shapes, Running
    <2>2. ~OnSimple'
      BY <1>9, StorageValues DEF DropRecord, DropTree, OnSimple, NoTree, Typed, DiskOK, Trees
    <2> QED
      BY <1>9, <2>1, <2>2, QuietKeeps, DiskKept DEF DropRecord, DropTree, Quiet, process, memory
  <1>10. CASE Make
    <2>1. CASE tree.system = Absent
      BY <1>10, <2>1, FailKeeps, DiskKept DEF Make, Kept, process, memory, disk
    <2>2. CASE tree.system # Absent
      <3>1. ~StagedNone'
        BY <1>10, <2>2 DEF Make, StagedNone, NoPair
      <3> QED
        BY <1>10, <2>2, <3>1, QuietKeeps, DiskKept DEF Make, Quiet, process, memory, disk
    <2> QED
      BY <2>1, <2>2
  <1> QED
    BY <1>1, <1>2, <1>3, <1>4, <1>5, <1>6, <1>7, <1>8, <1>9, <1>10

\* The steps an operation begins with.
LEMMA ScriptSteps ==
  ASSUME Typed, NEW what \in Operations
  PROVE  LET steps == StepsOf(Script(what)) IN
         \/ steps = {} /\ (what = "hibernate" => runtime = Nowhere)
         \/ /\ runtime = "gvisor" /\ handle = "none" /\ what = "wake"
            /\ steps = {"save", "first", "stage", "record", "start"}
         \/ /\ runtime = "gvisor" /\ what \in {"hibernate", "reset", "checkpoint"}
            /\ \/ what = "hibernate" /\ steps = {"halt", "close", "save"}
               \/ what = "checkpoint" /\ handle # "none" /\ steps = {"capture", "publish"}
               \/ /\ what = "reset"
                  /\ steps = {"halt", "close", "save", "first", "wipe", "answer"}
         \/ /\ runtime = "simple" /\ what \in {"wake", "hibernate", "reset"}
            /\ \/ what = "wake" /\ steps = {"plant", "end", "boot", "note"}
               \/ what = "hibernate" /\ steps = {"end", "unnote"}
               \/ /\ what = "reset"
                  /\ steps = {"end", "unnote", "plant", "out", "in", "pin", "discard",
                              "answer"}
  <1>1. runtime \in {Nowhere, "gvisor", "simple"} /\ "gvisor" # Nowhere /\ "simple" # Nowhere
    BY DEF Typed, MemoryOK, Runtimes, Nowhere
  <1>2. what \in {"wake", "hibernate", "checkpoint", "reset"}
    BY DEF Operations
  <1>3. CASE runtime = Nowhere
    <2>1. Script(what) = <<>>
      BY <1>3 DEF Script
    <2> QED
      BY <1>3, <2>1, FollowsNothing
  <1>4. CASE runtime = "gvisor"
    <2>1. /\ handle # "none" => Script("wake") = <<>>
          /\ handle = "none" => Script("wake") = <<"save", "first", "stage", "record", "start">>
          /\ Script("hibernate") = <<"halt", "close", "save">>
          /\ handle # "none" => Script("checkpoint") = <<"capture", "publish">>
          /\ handle = "none" => Script("checkpoint") = <<>>
          /\ Script("reset") = <<"halt", "close", "save", "first", "wipe", "answer">>
      BY <1>1, <1>4 DEF Script
    <2>2. CASE what = "wake"
      BY <1>4, <2>1, <2>2, FollowsNothing, ScriptFollows
    <2>3. CASE what # "wake"
      BY <1>2, <1>4, <2>1, <2>3, FollowsNothing, ScriptFollows
    <2> QED
      BY <2>2, <2>3
  <1>5. CASE runtime = "simple"
    <2>1. /\ handle # "none" => Script("wake") = <<>>
          /\ handle = "none" => Script("wake") = <<"plant", "end", "boot", "note">>
          /\ Script("hibernate") = <<"end", "unnote">>
          /\ Script("checkpoint") = <<>>
          /\ Script("reset") = <<"end", "unnote", "plant", "out", "in", "pin", "discard",
                                 "answer">>
      BY <1>1, <1>5 DEF Script
    <2>2. CASE what = "wake"
      BY <1>5, <2>1, <2>2, FollowsNothing, ScriptFollows
    <2>3. CASE what # "wake"
      BY <1>2, <1>5, <2>1, <2>3, FollowsNothing, ScriptFollows
    <2> QED
      BY <2>2, <2>3
  <1> QED
    BY <1>1, <1>3, <1>4, <1>5

\* An operation begins.
LEMMA OperateKeeps ==
  ASSUME Typed, WriterInv, Operate
  PROVE  WriterInv'
  <1>0. Kept /\ StagedNone' = StagedNone
    BY DiskKept DEF Operate, Kept, process, memory, disk
  <1>1. PICK what \in Operations : At("worker", what) /\ Then("worker", Script(what))
    BY DEF Operate
  <1>2. Follows(what, Script(what))
    BY <1>1, ScriptFollows, FollowsNothing DEF Script, Operations
  <1>3. R' = R /\ Later' \subseteq Later /\ Later \subseteq Rests
    BY <1>1, <1>2, WorkerGoesOn DEF Typed
  <1>4. PICK rest \in SUBSET After(what) :
          /\ W = {what} \cup rest
          /\ \/ W' = StepsOf(Script(what)) \cup rest
             \/ StepsOf(Script(what)) = {} /\ rest = {} /\ W' \subseteq Later
    BY <1>1, <1>2, WorkerGoesOn DEF Typed
  <1>5. rest \subseteq {"move", "moved"} /\ (what # "hibernate" => rest = {})
    BY <1>4, AfterValues DEF Operations, Last
  <1>6. up = "serving"
    BY <1>4 DEF WriterInv, Phases, Typed, MemoryOK
  <1> USE <1>0, <1>3, <1>4, <1>5, <1>6 DEF Kept, WriterInv
  <1>7. CASE StepsOf(Script(what)) = {} /\ (what = "hibernate" => runtime = Nowhere)
    <2>0. rest = {}
      BY <1>7 DEF Shapes, Orders
    <2>1. Phases' /\ Shapes' /\ Orders'
      BY <1>7, <2>0 DEF Phases, Shapes, Orders, Rests, GvisorSteps, SimpleSteps, Copying,
         Operations
    <2>2. Running'
      BY <1>7, <2>0 DEF Running, Rests, GvisorRuns, SimpleRuns, Phases, Shapes, Operations
    <2>3. Places'
      BY <1>7, <2>0 DEF Places, Rests, Operations
    <2> QED
      BY <2>1, <2>2, <2>3
  <1>8. CASE /\ runtime = "gvisor" /\ handle = "none" /\ what = "wake"
             /\ StepsOf(Script(what)) = {"save", "first", "stage", "record", "start"}
    <2>1. ~GvisorRuns
      BY <1>8 DEF Running
    <2>2. Phases' /\ Shapes' /\ Orders'
      BY <1>8 DEF Phases, Shapes, Orders, GvisorSteps, SimpleSteps, Copying, Nowhere
    <2>3. Running' /\ Places'
      BY <1>8, <2>1 DEF Running, Places, GvisorRuns, SimpleRuns
    <2> QED
      BY <2>2, <2>3
  <1>9. CASE /\ runtime = "gvisor" /\ what \in {"hibernate", "reset", "checkpoint"}
             /\ \/ what = "hibernate" /\ StepsOf(Script(what)) = {"halt", "close", "save"}
                \/ what = "checkpoint" /\ StepsOf(Script(what)) = {"capture", "publish"}
                \/ /\ what = "reset"
                   /\ StepsOf(Script(what)) = {"halt", "close", "save", "first", "wipe", "answer"}
    <2>2. Phases'
      BY <1>9 DEF Phases, Nowhere
    <2>3. Shapes'
      BY <1>9 DEF Shapes, GvisorSteps, SimpleSteps, Copying, MoveSteps
    <2>4. Orders'
      BY <1>9 DEF Orders, Copying
    <2>5. Running' /\ Places'
      BY <1>9 DEF Running, Places, GvisorRuns, SimpleRuns
    <2> QED
      BY <2>2, <2>3, <2>4, <2>5
  <1>10. CASE /\ runtime = "simple" /\ what \in {"wake", "hibernate", "reset"}
              /\ \/ what = "wake" /\ StepsOf(Script(what)) = {"plant", "end", "boot", "note"}
                 \/ what = "hibernate" /\ StepsOf(Script(what)) = {"end", "unnote"}
                 \/ /\ what = "reset"
                    /\ StepsOf(Script(what)) = {"end", "unnote", "plant", "out", "in", "pin",
                                                "discard", "answer"}
    <2>2. Phases'
      BY <1>10 DEF Phases, Nowhere
    <2>3. Shapes'
      BY <1>10 DEF Shapes, GvisorSteps, SimpleSteps, Copying, MoveSteps
    <2>4. Orders'
      BY <1>10 DEF Orders, Copying
    <2>5. Running' /\ Places'
      BY <1>10 DEF Running, Places, GvisorRuns, SimpleRuns
    <2> QED
      BY <2>2, <2>3, <2>4, <2>5
  <1> QED
    BY <1>7, <1>8, <1>9, <1>10, ScriptSteps

\* A turn of the loop that moves a stopped device.
LEMMA SettleKeeps ==
  ASSUME Typed, WriterInv, Settle
  PROVE  WriterInv'
  <1>0. Kept /\ StagedNone' = StagedNone /\ At("worker", "settle") /\ "settle" \in W
    BY DiskKept, HeadAhead DEF Settle, Kept, process, memory, disk, Typed, W, Processes
  <1>1. Later \subseteq Rests
    BY LaterRests DEF Typed
  <1>2. up = "serving"
    BY <1>0 DEF WriterInv, Phases, Typed, MemoryOK
  <1>3. CASE Done("worker")
    <2>1. R' = R /\ Later' \subseteq Later /\ W' \subseteq Later /\ W = {"settle"}
      <3>1. PICK rest \in SUBSET After("settle") : W = {"settle"} \cup rest
        BY <1>0, HeadAhead DEF Typed, W, Processes
      <3> QED
        BY <1>0, <1>3, <3>1, AfterValues, WorkerEnds DEF Typed, Last
    <2> USE <1>0, <1>1, <1>2, <2>1 DEF Kept, WriterInv
    <2>2. Phases' /\ Shapes' /\ Orders'
      BY DEF Phases, Shapes, Orders, Rests, GvisorSteps, SimpleSteps, Copying, PickSteps
    <2>3. Running'
      BY DEF Running, Rests, GvisorRuns, SimpleRuns, Phases, Shapes
    <2>4. Places'
      BY DEF Places, Rests, Shapes
    <2> QED
      BY <2>2, <2>3, <2>4
  <1>4. CASE handle = "none" /\ Then("worker", <<"hibernate", "move", "moved">>)
    <2>1. PICK rest \in SUBSET After("settle") :
            /\ R' = R /\ Later' \subseteq Later
            /\ W = {"settle"} \cup rest
            /\ W' = {"hibernate", "move", "moved"} \cup rest
      BY <1>0, <1>4, MoveFollows, WorkerGoesOn DEF Typed
    <2>2. rest = {}
      BY <2>1, AfterValues DEF Last
    <2> USE <1>0, <1>1, <1>2, <1>4, <2>1, <2>2 DEF Kept, WriterInv
    <2>3. runtime # Nowhere
      BY DEF Phases
    <2>4. Phases' /\ Shapes' /\ Orders'
      BY <2>3 DEF Phases, Shapes, Orders, Rests, GvisorSteps, SimpleSteps, Copying,
         MoveSteps
    <2>5. Running'
      BY <2>3 DEF Running, GvisorRuns, SimpleRuns
    <2>6. Places'
      BY DEF Places
    <2> QED
      BY <2>4, <2>5, <2>6
  <1> QED
    BY <1>3, <1>4 DEF Settle

\* A move begins, and its end.
LEMMA MoveKeeps ==
  ASSUME Typed, WriterInv, Move
  PROVE  WriterInv'
  <1>0. Kept /\ StagedNone' = StagedNone /\ At("worker", "move") /\ "move" \in W
    BY DiskKept, HeadAhead DEF Move, Kept, process, memory, disk, Typed, W, Processes
  <1>1. up = "serving" /\ "moved" \in W /\ handle = "none" /\ runtime # Nowhere
    BY <1>0 DEF WriterInv, Phases, Typed, MemoryOK, Shapes, Orders
  <1>2. CASE runtime = "gvisor" /\ HasCurrent
    <2>0. Then("worker", <<"mount", "copySystem", "copyHome", "raze", "build",
                           "clear", "dropCurrent", "dropGenerations">>)
      BY <1>2 DEF Move, HasCurrent
    <2>1. PICK rest \in SUBSET After("move") :
            /\ R' = R /\ Later' \subseteq Later
            /\ W = {"move"} \cup rest
            /\ W' = {"mount", "copySystem", "copyHome", "raze", "build", "clear", "dropCurrent",
                     "dropGenerations"} \cup rest
      BY <1>0, <2>0, MoveFollows, WorkerGoesOn DEF Typed
    <2>2. rest = {"moved"}
      BY <1>1, <2>1, AfterValues
    <2> USE <1>0, <1>1, <1>2, <2>1, <2>2 DEF Kept, WriterInv
    <2>3. ~GvisorRuns /\ ~SimpleRuns
      BY DEF Running, Shapes
    <2>4. Phases' /\ Shapes'
      BY DEF Phases, Shapes, GvisorSteps, SimpleSteps, Copying, MoveSteps
    <2>5. Orders'
      BY DEF Orders, Copying
    <2>6. "clear" \notin R
      BY DEF Running, Phases
    <2>7. Running'
      BY <2>3 DEF Running, GvisorRuns, SimpleRuns
    <2>8. Places'
      BY DEF Places
    <2> QED
      BY <2>4, <2>5, <2>7, <2>8
  <1>3. CASE runtime = "simple" /\ OnSimple
    <2>0. Then("worker", <<"make", "publish", "dropRecord", "dropTree">>)
      BY <1>3 DEF Move
    <2>1. PICK rest \in SUBSET After("move") :
            /\ R' = R /\ Later' \subseteq Later
            /\ W = {"move"} \cup rest
            /\ W' = {"make", "publish", "dropRecord", "dropTree"} \cup rest
      BY <1>0, <2>0, MoveFollows, WorkerGoesOn DEF Typed
    <2>2. rest = {"moved"}
      BY <1>1, <2>1, AfterValues
    <2> USE <1>0, <1>1, <1>3, <2>1, <2>2 DEF Kept, WriterInv
    <2>3. ~GvisorRuns /\ ~SimpleRuns
      BY DEF Running, Shapes
    <2>4. Phases' /\ Shapes'
      BY DEF Phases, Shapes, GvisorSteps, SimpleSteps, Copying, MoveSteps
    <2>5. Orders'
      BY DEF Orders, Copying
    <2>7. Running'
      BY <2>3 DEF Running, GvisorRuns, SimpleRuns
    <2>8. Places'
      BY DEF Places
    <2> QED
      BY <2>4, <2>5, <2>7, <2>8
  <1>4. CASE ~(runtime = "gvisor" /\ HasCurrent) /\ ~(runtime = "simple" /\ OnSimple)
    <2>0. Then("worker", <<>>)
      BY <1>4 DEF Move, HasCurrent
    <2>1. PICK rest \in SUBSET After("move") :
            /\ R' = R /\ Later' \subseteq Later
            /\ W = {"move"} \cup rest
            /\ W' = rest \/ rest = {}
      BY <1>0, <2>0, WorkerDone DEF Typed
    <2>2. rest = {"moved"}
      BY <1>1, <2>1, AfterValues
    <2> USE <1>0, <1>1, <1>4, <2>1, <2>2 DEF Kept, WriterInv
    <2>4. Phases' /\ Shapes'
      BY DEF Phases, Shapes, GvisorSteps, SimpleSteps, Copying, MoveSteps
    <2>5. Orders'
      BY DEF Orders, Copying
    <2>7. Running'
      BY DEF Running, GvisorRuns, SimpleRuns, Shapes
    <2>8. Places'
      BY DEF Places
    <2> QED
      BY <2>4, <2>5, <2>7, <2>8
  <1> QED
    BY <1>2, <1>3, <1>4

LEMMA MovedKeeps ==
  ASSUME Typed, WriterInv, Moved
  PROVE  WriterInv'
  <1>0. /\ At("worker", "moved") /\ "moved" \in W /\ Then("worker", <<"settle">>)
        /\ up' = up /\ spared' = spared /\ handle' = handle /\ guests' = guests
        /\ HasCurrent' = HasCurrent /\ Newest' = Newest
        /\ HasWorking' = HasWorking /\ OnSimple' = OnSimple
        /\ Boots' = Boots /\ StagedNone' = StagedNone
        /\ runtime' = Other(runtime)
    BY DiskKept, HeadAhead DEF Moved, process, disk, Typed, W, Processes
  <1>1. PICK rest \in SUBSET After("moved") :
            /\ R' = R /\ Later' \subseteq Later
            /\ W = {"moved"} \cup rest
            /\ W' = {"settle"} \cup rest
      BY <1>0, StepFollows, WorkerGoesOn DEF Typed
  <1>2. rest = {}
    BY <1>1, AfterValues DEF Last
  <1>3. /\ up = "serving" /\ handle = "none" /\ runtime # Nowhere
        /\ \/ runtime = "gvisor" /\ runtime' = "simple"
           \/ runtime = "simple" /\ runtime' = "gvisor"
    BY <1>0 DEF WriterInv, Phases, Shapes, Typed, MemoryOK, Other, Runtimes
  <1> USE <1>0, <1>1, <1>2, <1>3 DEF WriterInv
  <1>4. ~GvisorRuns /\ ~SimpleRuns
    BY DEF Running
  <1>5. Phases' /\ Shapes' /\ Orders'
    BY DEF Phases, Shapes, Orders, GvisorSteps, SimpleSteps, Copying, Nowhere
  <1>6. Running'
    BY <1>4 DEF Running, GvisorRuns, SimpleRuns
  <1>7. Places'
    BY DEF Places, Newest
  <1> QED
    BY <1>5, <1>6, <1>7

\* What a step the worker is at tells.
LEMMA WorkerAt ==
  ASSUME Typed, WriterInv, NEW step, At("worker", step)
  PROVE  /\ step \in W /\ up = "serving" /\ ("clear" \in R => W = {})
         /\ \E rest \in SUBSET After(step) : W = {step} \cup rest
         /\ step \in GvisorSteps => runtime = "gvisor"
         /\ step \in SimpleSteps => runtime = "simple"
         /\ Later \subseteq Rests /\ Queued
  <1>1. step \in W /\ \E rest \in SUBSET After(step) : W = {step} \cup rest
    BY HeadAhead DEF Typed, W, Processes
  <1>2. up = "serving" /\ ("clear" \in R => W = {})
    BY <1>1 DEF WriterInv, Phases, Typed, MemoryOK
  <1> QED
    BY <1>1, <1>2, LaterRests DEF WriterInv, Shapes, Typed

\* The worker's program fails, with its sandbox closed or kept.
LEMMA FailChanges ==
  ASSUME Typed, WriterInv, NEW step \in {"abort", "close", "end"}, At("worker", step),
         Fail("worker"),
         up' = up, spared' = spared, runtime' = runtime, guests' \subseteq guests,
         HasCurrent' = HasCurrent, Newest' = Newest, OnSimple' = OnSimple,
         HasWorking' => HasWorking,
         GvisorRuns' => Boots' /\ handle' # "none"
  PROVE  WriterInv'
  <1>1. /\ R' = R /\ Later' \subseteq Later /\ Later \subseteq Rests /\ W' \subseteq Later
        /\ step \in W
    BY WorkerEnds DEF Typed
  <1>2. ~StagedNone'
    BY DEF Fail, StagedNone
  <1>3. runtime # Nowhere /\ up = "serving" /\ "clear" \notin R
        /\ (runtime = "simple" => "gvisor" \notin guests)
    BY <1>1, WorkerAt DEF GvisorSteps, SimpleSteps, Nowhere, WriterInv, Running, GvisorRuns
  <1> USE <1>1, <1>3 DEF WriterInv
  <1>4. Phases'
    BY DEF Phases, Rests
  <1>5. Shapes'
    BY DEF Rests, Shapes, GvisorSteps, SimpleSteps, Copying
  <1>6. Orders'
    BY DEF Rests, Orders, Copying
  <1>7. Running'
    BY DEF Rests, Running, GvisorRuns, SimpleRuns
  <1>8. Places'
    BY <1>2 DEF Rests, Places
  <1> QED
    BY <1>4, <1>5, <1>6, <1>7, <1>8

\* The worker is made on the runtime the storage is on.
LEMMA PickKeeps ==
  ASSUME Typed, WriterInv, Pick
  PROVE  WriterInv'
  <1>0. /\ At("worker", "pick")
        /\ up' = up /\ spared' = spared /\ handle' = handle /\ guests' = guests
        /\ HasCurrent' = HasCurrent /\ Newest' = Newest
        /\ HasWorking' = HasWorking /\ OnSimple' = OnSimple
        /\ Boots' = Boots /\ StagedNone' = StagedNone
    BY DiskKept DEF Pick, process, disk
  <1>1. up = "serving" /\ "pick" \in W /\ Later \subseteq Rests
    BY <1>0, WorkerAt
  <1>2. After("pick") = {"wake", "hibernate", "checkpoint", "reset", "settle"}
    BY AfterValues
  <1>3. OnGvisor <=> HasCurrent \/ HasWorking
    BY DEF OnGvisor, HasCurrent
  <1>4. CASE runtime # Nowhere /\ Then("worker", <<>>) /\ runtime' = runtime
    <2>1. PICK rest \in SUBSET After("pick") :
            /\ R' = R /\ Later' \subseteq Later
            /\ W = {"pick"} \cup rest
            /\ W' = rest \/ (rest = {} /\ W' \subseteq Later)
      BY <1>0, <1>4, WorkerDone DEF Typed
    <2> USE <1>0, <1>1, <1>2, <1>4, <2>1 DEF WriterInv
    <2>2. Phases' /\ Shapes' /\ Orders'
      BY DEF Phases, Shapes, Orders, Rests, GvisorSteps, SimpleSteps, Copying
    <2>3. Running'
      BY DEF Running, Rests, GvisorRuns, SimpleRuns, Shapes
    <2>4. Places'
      BY DEF Places, Rests, Shapes
    <2> QED
      BY <2>2, <2>3, <2>4
  <1>5. CASE /\ runtime = Nowhere /\ runtime' = runtime
             /\ Then("worker", <<"clear", "dropCurrent", "dropGenerations", "pick">>)
    <2>1. PICK rest \in SUBSET After("pick") :
            /\ R' = R /\ Later' \subseteq Later
            /\ W = {"pick"} \cup rest
            /\ W' = {"clear", "dropCurrent", "dropGenerations", "pick"} \cup rest
      BY <1>0, <1>5, MoveFollows, WorkerGoesOn DEF Typed
    <2> USE <1>0, <1>1, <1>2, <1>5, <2>1 DEF WriterInv
    <2>2. Phases'
      BY DEF Phases, Rests
    <2>3. Shapes' /\ Orders'
      BY DEF Shapes, Orders, GvisorSteps, SimpleSteps, PickSteps, Copying, Nowhere
    <2>4. Running'
      BY DEF Running, GvisorRuns, SimpleRuns, Nowhere
    <2>5. Places'
      BY DEF Places, Nowhere
    <2> QED
      BY <2>2, <2>3, <2>4, <2>5
  <1>6. CASE /\ runtime = Nowhere /\ runtime' = runtime /\ OnGvisor
             /\ newer # "simple"
             /\ Then("worker", <<"dropRecord", "dropTree", "pick">>)
    <2>0. Newest
      BY <1>3, <1>6 DEF Newest, WriterInv, Places, Typed, DiskOK, Runtimes
    <2>1. PICK rest \in SUBSET After("pick") :
            /\ R' = R /\ Later' \subseteq Later
            /\ W = {"pick"} \cup rest
            /\ W' = {"dropRecord", "dropTree", "pick"} \cup rest
      BY <1>0, <1>6, MoveFollows, WorkerGoesOn DEF Typed
    <2> USE <1>0, <1>1, <1>2, <1>3, <1>6, <2>0, <2>1 DEF WriterInv
    <2>2. Phases'
      BY DEF Phases, Rests
    <2>3. Shapes' /\ Orders'
      BY DEF Shapes, Orders, GvisorSteps, SimpleSteps, PickSteps, Copying, Nowhere
    <2>4. Running'
      BY DEF Running, GvisorRuns, SimpleRuns, Nowhere
    <2>5. Places'
      BY DEF Places, Nowhere
    <2> QED
      BY <2>2, <2>3, <2>4, <2>5
  <1>7. CASE /\ runtime = Nowhere /\ Then("worker", <<>>)
             /\ runtime' \in Runtimes
             /\ runtime' = "gvisor" => ~OnSimple
             /\ runtime' = "simple" => ~OnGvisor
    <2>1. PICK rest \in SUBSET After("pick") :
            /\ R' = R /\ Later' \subseteq Later
            /\ W = {"pick"} \cup rest
            /\ W' = rest \/ (rest = {} /\ W' \subseteq Later)
      BY <1>0, <1>7, WorkerDone DEF Typed
    <2>2. runtime' # Nowhere
      BY <1>7 DEF Runtimes, Nowhere
    <2> USE <1>0, <1>1, <1>2, <1>3, <1>7, <2>1, <2>2 DEF WriterInv
    <2>3. Phases' /\ Shapes' /\ Orders'
      BY DEF Phases, Shapes, Orders, Rests, GvisorSteps, SimpleSteps, Copying
    <2>4. Running'
      BY DEF Running, Rests, GvisorRuns, SimpleRuns, Phases, Nowhere
    <2>5. Places'
      BY DEF Places, Newest, Rests
    <2> QED
      BY <2>3, <2>4, <2>5
  <1>8. runtime = Nowhere /\ ~(OnGvisor /\ OnSimple) /\ runtime' = (IF OnGvisor THEN "gvisor"
                                ELSE IF OnSimple THEN "simple" ELSE chosen) =>
             /\ runtime' \in Runtimes
             /\ runtime' = "gvisor" => ~OnSimple
             /\ runtime' = "simple" => ~OnGvisor
    BY DEF Typed, MemoryOK, Runtimes
  <1> QED
    BY <1>4, <1>5, <1>6, <1>7, <1>8 DEF Pick

\* A save of the working pair, before or after the sandbox.
LEMMA SaveKeeps ==
  ASSUME Typed, WriterInv, Save("worker")
  PROVE  WriterInv'
  <1>0. /\ At("worker", "save")
        /\ up' = up /\ spared' = spared /\ runtime' = runtime /\ handle' = handle
        /\ guests' = guests
        /\ HasWorking' = HasWorking /\ OnSimple' = OnSimple /\ Boots' = Boots
    BY DiskKept DEF Save, process, memory
  <1>1. /\ up = "serving" /\ runtime = "gvisor" /\ "save" \in W /\ Later \subseteq Rests
        /\ "clear" \notin R /\ Queued
    BY <1>0, WorkerAt DEF GvisorSteps
  <1>2. After("save") = Steps \ (Copying \cup {"clear", "fence"})
    BY AfterValues
  <1>3. CASE Then("worker", <<>>) /\ UNCHANGED <<making, current, newer>>
    <2>1. PICK rest \in SUBSET After("save") :
            /\ R' = R /\ Later' \subseteq Later
            /\ W = {"save"} \cup rest
            /\ W' = rest \/ (rest = {} /\ W' \subseteq Later)
      BY <1>0, <1>1, <1>3, WorkerDone
    <2>2. HasCurrent' = HasCurrent /\ Newest' = Newest /\ StagedNone' = StagedNone
      BY <1>3, DiskKept
    <2> USE <1>0, <1>1, <1>2, <2>1, <2>2 DEF WriterInv
    <2>3. Phases'
      BY DEF Phases, Rests, Nowhere
    <2>4. Shapes'
      BY DEF Shapes, Rests, GvisorSteps, SimpleSteps, Copying
    <2>5. Orders'
      BY DEF Orders, Rests, Copying
    <2>6. Running'
      BY DEF Running, Orders, Shapes, Rests, GvisorRuns, SimpleRuns
    <2>7. Places'
      BY DEF Places, Orders, Rests
    <2> QED
      BY <2>3, <2>4, <2>5, <2>6, <2>7
  <1>4. CASE Fail("worker") /\ UNCHANGED <<current, newer>>
    BY <1>0, <1>4, FailKeeps, DiskKept DEF Kept
  <1>5. CASE /\ handle = "none" /\ Whole /\ Then("worker", <<"clear">>) /\ UNCHANGED making
             /\ current' = [system |-> working.system, home |-> working.home,
                            reset |-> working.manifest]
    <2>1. PICK rest \in SUBSET After("save") :
            /\ R' = R /\ Later' \subseteq Later
            /\ W = {"save"} \cup rest
            /\ W' = {"clear"} \cup rest
      BY <1>0, <1>1, <1>5, StepFollows, WorkerGoesOn
    <2>2. HasCurrent' /\ StagedNone' = StagedNone
      BY <1>5, DiskKept DEF HasCurrent, NoPair, Whole
    <2> USE <1>0, <1>1, <1>2, <1>5, <2>1, <2>2 DEF WriterInv
    <2>3. ~GvisorRuns /\ ~SimpleRuns
      BY DEF Running, Shapes
    <2>4. Phases'
      BY DEF Phases, Nowhere
    <2>5. Shapes'
      BY DEF Shapes, GvisorSteps, SimpleSteps, Copying, MoveSteps, PickSteps
    <2>6. Orders'
      BY DEF Orders, Copying
    <2>7. Running'
      BY <2>3 DEF Running, Orders, GvisorRuns, SimpleRuns
    <2>8. Places'
      BY DEF Places, Orders
    <2> QED
      BY <2>4, <2>5, <2>6, <2>7, <2>8
  <1> QED
    BY <1>3, <1>4, <1>5 DEF Save

\* The working directory goes.
LEMMA ClearKeeps ==
  ASSUME Typed, WriterInv, Clear("worker")
  PROVE  WriterInv'
  <1>0. /\ At("worker", "clear")
        /\ up' = up /\ spared' = spared /\ runtime' = runtime /\ handle' = handle
        /\ guests' = guests /\ HasCurrent' = HasCurrent /\ Newest' = Newest /\ OnSimple' = OnSimple
        /\ StagedNone' = StagedNone
    BY DiskKept DEF Clear, process, memory
  <1>1. /\ up = "serving" /\ "clear" \in W /\ Later \subseteq Rests /\ "clear" \notin R /\ Queued
    BY <1>0, WorkerAt
  <1>2. After("clear") = Steps \ (Copying \cup {"clear"})
    BY AfterValues
  <1>3. CASE UNCHANGED todo /\ HasWorking /\ (Boots' => Boots)
    <2>1. W' = W /\ R' = R /\ Later' = Later
      BY <1>3 DEF W, R, Ahead, Later
    <2> USE <1>0, <1>1, <1>3, <2>1 DEF WriterInv
    <2>2. Phases' /\ Shapes' /\ Orders'
      BY DEF Phases, Shapes, Orders
    <2>3. Running'
      BY DEF Running, Orders, GvisorRuns, SimpleRuns
    <2>4. Places'
      BY DEF Places
    <2> QED
      BY <2>2, <2>3, <2>4
  <1>4. CASE ~HasWorking /\ Then("worker", <<>>) /\ UNCHANGED working
    <2>1. PICK rest \in SUBSET After("clear") :
            /\ R' = R /\ Later' \subseteq Later
            /\ W = {"clear"} \cup rest
            /\ W' = rest \/ (rest = {} /\ W' \subseteq Later)
      BY <1>0, <1>1, <1>4, WorkerDone
    <2>2. HasWorking' = HasWorking /\ Boots' = Boots
      BY <1>4, DiskKept
    <2> USE <1>0, <1>1, <1>2, <1>4, <2>1, <2>2 DEF WriterInv
    <2>3. Phases'
      BY DEF Phases, Rests
    <2>4. Shapes'
      BY DEF Shapes, Rests, GvisorSteps, SimpleSteps, Copying
    <2>5. Orders'
      BY DEF Orders, Rests, Copying
    <2>6. Running'
      BY DEF Running, Orders, Shapes, Rests, GvisorRuns, SimpleRuns
    <2>7. Places'
      BY DEF Places, Orders, Rests
    <2> QED
      BY <2>3, <2>4, <2>5, <2>6, <2>7
  <1>5. ASSUME NEW file \in {"manifest", "system", "home"}, working[file] # Absent,
               working' = [working EXCEPT ![file] = Absent]
        PROVE  HasWorking /\ (Boots' => Boots)
    BY <1>5 DEF Typed, DiskOK, Workings, HasWorking, NoWorking, Boots
  <1>6. ASSUME working.boot, working' = [working EXCEPT !.boot = FALSE]
        PROVE  HasWorking /\ (Boots' => Boots)
    BY <1>6 DEF Typed, DiskOK, Workings, HasWorking, NoWorking, Boots
  <1> QED
    BY <1>3, <1>4, <1>5, <1>6 DEF Clear

\* A new boot: its first generation, its working pair, its record, its start.
LEMMA BootSteps ==
  ASSUME Typed, WriterInv, First \/ StageWorking
  PROVE  WriterInv'
  <1>1. CASE First
    <2>0. /\ At("worker", "first")
          /\ up' = up /\ spared' = spared /\ runtime' = runtime /\ handle' = handle
          /\ guests' = guests /\ OnSimple' = OnSimple
          /\ HasWorking' = HasWorking /\ Boots' = Boots /\ StagedNone' = StagedNone
      BY <1>1, DiskKept DEF First, process, memory
    <2>1. /\ up = "serving" /\ runtime = "gvisor" /\ "first" \in W /\ Later \subseteq Rests
          /\ Queued
      BY <2>0, WorkerAt DEF GvisorSteps
    <2>2. PICK rest \in SUBSET After("first") :
            /\ R' = R /\ Later' \subseteq Later
            /\ W = {"first"} \cup rest
            /\ W' = rest \/ (rest = {} /\ W' \subseteq Later)
      BY <1>1, <2>0, <2>1, WorkerDone DEF First
    <2>3. HasCurrent'
      BY <1>1, ContentsValues DEF First, HasCurrent, NoPair
    <2> USE <2>0, <2>1, <2>2, <2>3 DEF WriterInv
    <2>4. Phases'
      BY DEF Phases, Rests, Nowhere
    <2>5. Shapes' /\ Orders'
      BY DEF Shapes, Orders, Rests, GvisorSteps, SimpleSteps, Copying
    <2>6. Running'
      BY DEF Running, Orders, Shapes, Rests, GvisorRuns, SimpleRuns
    <2>7. Places'
      BY DEF Places, Shapes, Rests, MoveSteps, PickSteps, Copying
    <2> QED
      BY <2>4, <2>5, <2>6, <2>7
  <1>2. CASE StageWorking
    <2>0. /\ At("worker", "stage")
          /\ up' = up /\ spared' = spared /\ runtime' = runtime /\ handle' = handle
          /\ guests' = guests /\ OnSimple' = OnSimple
          /\ HasCurrent' = HasCurrent /\ Newest' = Newest
      BY <1>2, DiskKept DEF StageWorking, process, memory
    <2>1. /\ up = "serving" /\ runtime = "gvisor" /\ "stage" \in W /\ Later \subseteq Rests
          /\ Queued
      BY <2>0, WorkerAt DEF GvisorSteps
    <2>2. CASE HasWorking
      BY <1>2, <2>0, <2>2, FailKeeps, DiskKept DEF StageWorking, Kept
    <2>3. CASE ~HasWorking
      <3>1. PICK rest \in SUBSET After("stage") :
              /\ R' = R /\ Later' \subseteq Later
              /\ W = {"stage"} \cup rest
              /\ W' = rest \/ (rest = {} /\ W' \subseteq Later)
        BY <1>2, <2>0, <2>1, <2>3, WorkerDone DEF StageWorking
      <3>2. /\ ~Boots' /\ StagedNone' = StagedNone
            /\ HasWorking' => HasCurrent
        BY <1>2, <2>3, DiskKept DEF StageWorking, HasWorking, HasCurrent, NoPair,
           NoWorking, Boots
      <3> USE <2>0, <2>1, <2>3, <3>1, <3>2 DEF WriterInv
      <3>3. ~GvisorRuns /\ ~SimpleRuns
        BY BootsWorking DEF Running
      <3>4. Phases'
        BY DEF Phases, Rests, Nowhere
      <3>5. Shapes' /\ Orders'
        BY DEF Shapes, Orders, Rests, GvisorSteps, SimpleSteps, Copying
      <3>6. Running'
        BY <3>3 DEF Running, Orders, Shapes, Rests, GvisorRuns, SimpleRuns
      <3>7. Places'
        BY DEF Places, Shapes, Rests, MoveSteps, PickSteps, Copying
      <3> QED
        BY <3>4, <3>5, <3>6, <3>7
    <2> QED
      BY <2>2, <2>3
  <1> QED
    BY <1>1, <1>2

\* The record of a boot goes from the working directory.
LEMMA BootDropped ==
  ASSUME Typed, working' = [working EXCEPT !.boot = FALSE]
  PROVE  (HasWorking' => HasWorking) /\ ~Boots'
  <1>1. ASSUME working = NoWorking PROVE working' = NoWorking
    <2>1. working.boot = FALSE /\ working \in Workings
      BY <1>1, StorageValues DEF NoWorking
    <2>2. [working EXCEPT !.boot = FALSE] = working
      BY <2>1 DEF Workings
    <2> QED
      BY <1>1, <2>2
  <1>2. ~Boots'
    BY DEF Boots, Typed, DiskOK, Workings
  <1> QED
    BY <1>1, <1>2 DEF HasWorking

\* A boot that failed is closed by a program of its own.
LEMMA TurnToAbort ==
  ASSUME Typed, WriterInv, NEW step \in {"record", "start"}, At("worker", step),
         todo' = [todo EXCEPT !.worker[1] = <<"abort">>],
         up' = up, spared' = spared, runtime' = runtime, handle' = handle,
         guests' \subseteq guests \cup {"gvisor"}, HasCurrent' = HasCurrent /\ Newest' = Newest,
         OnSimple' = OnSimple, HasWorking' => HasCurrent, Boots => Boots',
         GvisorRuns' => Boots'
  PROVE  WriterInv'
  <1>1. /\ up = "serving" /\ runtime = "gvisor" /\ step \in W /\ Later \subseteq Rests
        /\ Queued /\ "clear" \notin R
    BY WorkerAt DEF GvisorSteps
  <1>2. <<"abort">> \in Program /\ Ordered(<<"abort">>) /\ StepsOf(<<"abort">>) = {"abort"}
    BY SoleSteps DEF Free, Last, Steps
  <1>3. R' = R /\ Later' = Later /\ W' = {"abort"}
    BY <1>1, <1>2, WorkerTurns
  <1> USE <1>1, <1>3 DEF WriterInv
  <1>4. Phases'
    BY DEF Phases, Nowhere
  <1>5. Shapes' /\ Orders'
    BY DEF Shapes, Orders, GvisorSteps, SimpleSteps, Copying
  <1>6. Running'
    BY DEF Running, GvisorRuns, SimpleRuns
  <1>7. Places'
    BY DEF Places
  <1> QED
    BY <1>4, <1>5, <1>6, <1>7

LEMMA RecordKeeps ==
  ASSUME Typed, WriterInv, Record
  PROVE  WriterInv'
  <1>0. /\ At("worker", "record")
        /\ up' = up /\ spared' = spared /\ runtime' = runtime /\ handle' = handle
        /\ guests' = guests /\ OnSimple' = OnSimple /\ HasCurrent' = HasCurrent /\ Newest' = Newest
        /\ StagedNone' = StagedNone
    BY DiskKept DEF Record, process, memory
  <1>1. /\ up = "serving" /\ runtime = "gvisor" /\ "record" \in W /\ Later \subseteq Rests
        /\ Queued /\ "clear" \notin R
    BY <1>0, WorkerAt DEF GvisorSteps
  <1>2. After("record") = Steps \ {"save", "clear", "first", "stage"}
    BY AfterValues
  <1>3. HasCurrent
    <2>1. PICK rest \in SUBSET After("record") : W = {"record"} \cup rest
      BY <1>0, WorkerAt
    <2> QED
      BY <1>2, <2>1 DEF WriterInv, Orders
  <1>4. CASE Then("worker", <<>>) /\ Boots'
    <2>1. PICK rest \in SUBSET After("record") :
            /\ R' = R /\ Later' \subseteq Later
            /\ W = {"record"} \cup rest
            /\ W' = rest \/ (rest = {} /\ W' \subseteq Later)
      BY <1>0, <1>1, <1>4, WorkerDone
    <2> USE <1>0, <1>1, <1>2, <1>3, <1>4, <2>1 DEF WriterInv
    <2>2. Phases'
      BY DEF Phases, Rests, Nowhere
    <2>3. Shapes' /\ Orders'
      BY DEF Shapes, Orders, Rests, GvisorSteps, SimpleSteps, Copying
    <2>4. Running'
      BY DEF Running, Shapes, Rests, GvisorRuns, SimpleRuns
    <2>5. Places'
      BY DEF Places, Shapes, Rests, MoveSteps, PickSteps, Copying
    <2> QED
      BY <2>2, <2>3, <2>4, <2>5
  <1>5. CASE todo' = [todo EXCEPT !.worker[1] = <<"abort">>] /\ (Boots' \/ UNCHANGED working)
    <2>1. (Boots => Boots') /\ (GvisorRuns' => Boots')
      BY <1>0, <1>5, DiskKept DEF WriterInv, Running, GvisorRuns
    <2> QED
      BY <1>0, <1>3, <1>5, <2>1, TurnToAbort
  <1>6. working' = [working EXCEPT !.boot = TRUE] => Boots'
    BY DEF Boots, Typed, DiskOK, Workings
  <1> QED
    BY <1>4, <1>5, <1>6 DEF Record

LEMMA StartKeeps ==
  ASSUME Typed, WriterInv, Start
  PROVE  WriterInv'
  <1>0. /\ At("worker", "start")
        /\ up' = up /\ spared' = spared /\ runtime' = runtime
        /\ HasCurrent' = HasCurrent /\ Newest' = Newest
        /\ HasWorking' = HasWorking /\ OnSimple' = OnSimple
        /\ Boots' = Boots /\ StagedNone' = StagedNone
    BY DiskKept DEF Start, process, disk
  <1>1. /\ up = "serving" /\ runtime = "gvisor" /\ "start" \in W /\ Later \subseteq Rests
        /\ Queued /\ "clear" \notin R
    BY <1>0, WorkerAt DEF GvisorSteps
  <1>2. W = {"start"}
    BY <1>0, WorkerAt, AfterValues DEF Last
  <1>3. Boots /\ (HasWorking => HasCurrent)
    BY <1>2 DEF WriterInv, Running, Places
  <1>4. CASE Then("worker", <<>>) /\ guests' = guests \cup {"gvisor"} /\ handle' = "up"
    <2>1. R' = R /\ Later' \subseteq Later /\ W' \subseteq Later
      BY <1>0, <1>1, <1>4, WorkerDone, AfterValues DEF Last
    <2> USE <1>0, <1>1, <1>2, <1>3, <1>4, <2>1 DEF WriterInv
    <2>2. Phases'
      BY DEF Phases, Rests, Nowhere
    <2>3. Shapes' /\ Orders'
      BY DEF Shapes, Orders, Rests, GvisorSteps, SimpleSteps, Copying
    <2>4. Running'
      BY DEF Running, Rests, GvisorRuns, SimpleRuns
    <2>5. Places'
      BY DEF Places, Rests
    <2> QED
      BY <2>2, <2>3, <2>4, <2>5
  <1>5. CASE /\ todo' = [todo EXCEPT !.worker[1] = <<"abort">>] /\ handle' = handle
             /\ guests' \in {guests, guests \cup {"gvisor"}}
    BY <1>0, <1>3, <1>5, TurnToAbort
  <1> QED
    BY <1>4, <1>5 DEF Start

LEMMA AbortKeeps ==
  ASSUME Typed, WriterInv, Abort
  PROVE  WriterInv'
  <1>0. /\ At("worker", "abort") /\ Fail("worker")
        /\ up' = up /\ spared' = spared /\ runtime' = runtime
        /\ HasCurrent' = HasCurrent /\ Newest' = Newest /\ OnSimple' = OnSimple
    BY DiskKept DEF Abort, process
  <1>1. CASE guests' = guests \ {"gvisor"} /\ working' = [working EXCEPT !.boot = FALSE]
    <2>1. HasWorking' => HasWorking
      BY <1>1, BootDropped
    <2> QED
      BY <1>0, <1>1, <2>1, FailChanges DEF GvisorRuns
  <1>2. CASE handle' = "kept" /\ guests' \in {guests, guests \ {"gvisor"}} /\ UNCHANGED working
    <2>1. GvisorRuns' => Boots' /\ handle' # "none"
      BY <1>2, DiskKept DEF GvisorRuns, WriterInv, Running
    <2> QED
      BY <1>0, <1>2, <2>1, FailChanges, DiskKept
  <1> QED
    BY <1>1, <1>2 DEF Abort

\* The sandbox is stopped, and its record goes.
LEMMA HaltKeeps ==
  ASSUME Typed, WriterInv, Halt
  PROVE  WriterInv'
  <1>0. /\ At("worker", "halt")
        /\ up' = up /\ spared' = spared /\ runtime' = runtime /\ handle' = handle
        /\ HasCurrent' = HasCurrent /\ Newest' = Newest
        /\ HasWorking' = HasWorking /\ OnSimple' = OnSimple
        /\ Boots' = Boots
    BY DiskKept DEF Halt, process, memory, disk
  <1>1. /\ up = "serving" /\ runtime = "gvisor" /\ "halt" \in W /\ Later \subseteq Rests /\ Queued
    BY <1>0, WorkerAt DEF GvisorSteps
  <1>2. CASE /\ Then("worker", <<>>) /\ UNCHANGED making
             /\ \/ handle = "none" /\ guests' = guests
                \/ guests' = guests \ {"gvisor"}
    <2>1. PICK rest \in SUBSET After("halt") :
            /\ R' = R /\ Later' \subseteq Later
            /\ W = {"halt"} \cup rest
            /\ W' = rest \/ (rest = {} /\ W' \subseteq Later)
      BY <1>0, <1>1, <1>2, WorkerDone
    <2>2. ~GvisorRuns' /\ ~SimpleRuns' /\ StagedNone' = StagedNone
      BY <1>1, <1>2, DiskKept DEF WriterInv, Running, Shapes, GvisorRuns, SimpleRuns
    <2> USE <1>0, <1>1, <2>1, <2>2 DEF WriterInv
    <2>3. Phases'
      BY DEF Phases, Rests, Nowhere
    <2>4. Shapes' /\ Orders'
      BY DEF Shapes, Orders, Rests, GvisorSteps, SimpleSteps, Copying
    <2>5. Running'
      BY DEF Running, Rests
    <2>6. Places'
      BY DEF Places, Orders, Rests
    <2> QED
      BY <2>3, <2>4, <2>5, <2>6
  <1>3. CASE Fail("worker") /\ UNCHANGED guests
    BY <1>0, <1>3, FailKeeps DEF Kept
  <1> QED
    BY <1>2, <1>3 DEF Halt

LEMMA CloseKeeps ==
  ASSUME Typed, WriterInv, Close
  PROVE  WriterInv'
  <1>0. /\ At("worker", "close")
        /\ up' = up /\ spared' = spared /\ runtime' = runtime /\ guests' = guests
        /\ HasCurrent' = HasCurrent /\ Newest' = Newest /\ OnSimple' = OnSimple
    BY DiskKept DEF Close, process
  <1>1. /\ up = "serving" /\ runtime = "gvisor" /\ "close" \in W /\ Later \subseteq Rests /\ Queued
    BY <1>0, WorkerAt DEF GvisorSteps
  <1>2. After("close") = Steps \ {"halt"}
    BY AfterValues
  <1>3. ~GvisorRuns
    <2>1. PICK rest \in SUBSET After("close") : W = {"close"} \cup rest
      BY <1>0, WorkerAt
    <2> QED
      BY <1>2, <2>1 DEF WriterInv, Running
  <1>4. CASE /\ Then("worker", <<>>) /\ handle' = "none" /\ UNCHANGED making
             /\ HasWorking' => HasWorking
    <2>1. PICK rest \in SUBSET After("close") :
            /\ R' = R /\ Later' \subseteq Later
            /\ W = {"close"} \cup rest
            /\ W' = rest \/ (rest = {} /\ W' \subseteq Later)
      BY <1>0, <1>1, <1>4, WorkerDone
    <2>2. ~GvisorRuns' /\ ~SimpleRuns' /\ StagedNone' = StagedNone
      BY <1>0, <1>1, <1>3, <1>4, DiskKept DEF WriterInv, Running, GvisorRuns, SimpleRuns
    <2> USE <1>0, <1>1, <1>2, <1>4, <2>1, <2>2 DEF WriterInv
    <2>3. Phases'
      BY DEF Phases, Rests, Nowhere
    <2>4. Shapes' /\ Orders'
      BY DEF Shapes, Orders, Rests, GvisorSteps, SimpleSteps, Copying
    <2>5. Running'
      BY DEF Running, Rests, Shapes
    <2>6. Places'
      BY DEF Places, Orders, Rests
    <2> QED
      BY <2>3, <2>4, <2>5, <2>6
  <1>5. CASE Fail("worker") /\ UNCHANGED working
    BY <1>0, <1>3, <1>5, FailChanges, DiskKept DEF GvisorRuns
  <1>6. working' = [working EXCEPT !.boot = FALSE] => (HasWorking' => HasWorking)
    BY BootDropped
  <1> QED
    BY <1>4, <1>5, <1>6, DiskKept DEF Close

\* A generation is published: by a checkpoint, or by a move to gVisor.
LEMMA PublishKeeps ==
  ASSUME Typed, WriterInv, Publish
  PROVE  WriterInv'
  <1>0. /\ At("worker", "publish")
        /\ up' = up /\ spared' = spared /\ runtime' = runtime /\ handle' = handle
        /\ guests' = guests
        /\ HasWorking' = HasWorking /\ OnSimple' = OnSimple /\ Boots' = Boots
    BY DiskKept DEF Publish, process, memory
  <1>1. up = "serving" /\ "publish" \in W /\ Later \subseteq Rests /\ Queued /\ "clear" \notin R
    BY <1>0, WorkerAt
  <1>2. After("publish") = {"dropRecord", "dropTree", "moved"}
    BY AfterValues
  <1>3. CASE stage # "held" /\ Fail("worker") /\ UNCHANGED <<current, newer>>
    BY <1>0, <1>3, FailKeeps, DiskKept DEF Kept
  <1>4. CASE stage = "held" /\ current' = staged /\ stage' = "none" /\ Then("worker", <<>>)
    <2>1. PICK rest \in SUBSET After("publish") :
            /\ R' = R /\ Later' \subseteq Later
            /\ W = {"publish"} \cup rest
            /\ W' = rest \/ (rest = {} /\ W' \subseteq Later)
      BY <1>0, <1>1, <1>4, WorkerDone
    <2>2. ~StagedNone
      BY <1>2, <2>1 DEF WriterInv, Places
    <2>3. HasCurrent' /\ ~StagedNone'
      BY <1>4, <2>2 DEF StagedNone, HasCurrent
    <2>4. \/ runtime = "gvisor" /\ rest = {}
          \/ runtime = "simple" /\ "moved" \in rest
      BY <1>1, <1>2, <2>1 DEF WriterInv, Shapes
    <2>5. ~SimpleRuns
      BY <1>2, <2>1, <2>4 DEF WriterInv, Running
    <2> USE <1>0, <1>1, <1>2, <2>1, <2>3, <2>4, <2>5 DEF WriterInv
    <2>6. Phases'
      BY DEF Phases, Rests, Nowhere
    <2>7. Shapes'
      BY DEF Shapes, Rests, GvisorSteps, SimpleSteps, Copying, MoveSteps
    <2>8. Orders'
      BY DEF Orders, Rests, Copying
    <2>9. Running'
      BY DEF Running, Shapes, Rests, GvisorRuns, SimpleRuns
    <2>10. Places'
      BY DEF Places, Rests
    <2> QED
      BY <2>6, <2>7, <2>8, <2>9, <2>10
  <1> QED
    BY <1>3, <1>4 DEF Publish

\* A new tree, and the end of what runs in one.
LEMMA PlantKeeps ==
  ASSUME Typed, WriterInv, Plant
  PROVE  WriterInv'
  <1>0. /\ At("worker", "plant") /\ Then("worker", <<>>)
        /\ up' = up /\ spared' = spared /\ runtime' = runtime /\ handle' = handle
        /\ guests' = guests /\ HasCurrent' = HasCurrent /\ (Newest' => Newest /\ OnSimple)
        /\ HasWorking' = HasWorking /\ Boots' = Boots /\ StagedNone' = StagedNone
    BY DiskKept DEF Plant, Newest, process, memory
  <1>1. up = "serving" /\ runtime = "simple" /\ "plant" \in W /\ Later \subseteq Rests /\ Queued
    BY <1>0, WorkerAt DEF SimpleSteps
  <1>2. OnSimple'
    <2>1. CASE OnSimple
      BY <2>1, DiskKept DEF Plant
    <2>2. CASE ~OnSimple
      <3>1. tree' = [NoTree EXCEPT !.record = 0, !.system = 0, !.home = 0]
        BY <2>2 DEF Plant
      <3>2. tree'.record = 0
        BY <3>1, StorageValues DEF NoTree
      <3> QED
        BY <3>2, ContentsValues DEF OnSimple
    <2> QED
      BY <2>1, <2>2
  <1>3. PICK rest \in SUBSET After("plant") :
          /\ R' = R /\ Later' \subseteq Later
          /\ W = {"plant"} \cup rest
          /\ W' = rest \/ (rest = {} /\ W' \subseteq Later)
    BY <1>0, <1>1, WorkerDone
  <1>8. "dropTree" \notin W
    BY <1>1 DEF WriterInv, Shapes, MoveSteps, PickSteps, Copying
  <1> USE <1>0, <1>1, <1>2, <1>3, <1>8 DEF WriterInv
  <1>4. Phases'
    BY DEF Phases, Rests, Nowhere
  <1>5. Shapes' /\ Orders'
    BY DEF Shapes, Orders, Rests, GvisorSteps, SimpleSteps, Copying
  <1>6. Running'
    BY DEF Running, Shapes, Rests, GvisorRuns, SimpleRuns
  <1>7. Places'
    BY DEF Places, Rests
  <1> QED
    BY <1>4, <1>5, <1>6, <1>7

LEMMA EndKeeps ==
  ASSUME Typed, WriterInv, End
  PROVE  WriterInv'
  <1>0. /\ At("worker", "end")
        /\ up' = up /\ spared' = spared /\ runtime' = runtime
        /\ HasCurrent' = HasCurrent /\ Newest' = Newest
        /\ HasWorking' = HasWorking /\ OnSimple' = OnSimple
        /\ Boots' = Boots
    BY DiskKept DEF End, process, disk
  <1>1. /\ up = "serving" /\ runtime = "simple" /\ "end" \in W /\ Later \subseteq Rests /\ Queued
    BY <1>0, WorkerAt DEF SimpleSteps
  <1>2. ~GvisorRuns
    BY <1>1 DEF WriterInv, Running
  <1>3. CASE /\ Then("worker", <<>>) /\ UNCHANGED making /\ handle' = "none"
             /\ \/ ~OnSimple /\ guests' = guests
                \/ guests' = guests \ {"simple"}
    <2>1. PICK rest \in SUBSET After("end") :
            /\ R' = R /\ Later' \subseteq Later
            /\ W = {"end"} \cup rest
            /\ W' = rest \/ (rest = {} /\ W' \subseteq Later)
      BY <1>0, <1>1, <1>3, WorkerDone
    <2>2. ~GvisorRuns' /\ ~SimpleRuns' /\ StagedNone' = StagedNone
      BY <1>2, <1>3, DiskKept DEF WriterInv, Running, GvisorRuns, SimpleRuns
    <2> USE <1>0, <1>1, <2>1, <2>2 DEF WriterInv
    <2>3. Phases'
      BY DEF Phases, Rests, Nowhere
    <2>4. Shapes' /\ Orders'
      BY <1>3 DEF Shapes, Orders, Rests, GvisorSteps, SimpleSteps, Copying
    <2>5. Running'
      BY DEF Running, Rests, Shapes
    <2>6. Places'
      BY DEF Places, Rests
    <2> QED
      BY <2>3, <2>4, <2>5, <2>6
  <1>4. CASE Fail("worker") /\ guests' \in {guests, guests \ {"simple"}}
    <2>1. ~GvisorRuns'
      BY <1>0, <1>2, <1>4 DEF GvisorRuns
    <2> QED
      BY <1>0, <1>2, <1>4, <2>1, FailChanges DEF GvisorRuns
  <1> QED
    BY <1>3, <1>4 DEF End

\* proot starts in the tree.
LEMMA BootKeeps ==
  ASSUME Typed, WriterInv, Boot
  PROVE  WriterInv'
  <1>0. /\ At("worker", "boot")
        /\ up' = up /\ spared' = spared /\ runtime' = runtime
        /\ HasCurrent' = HasCurrent /\ Newest' = Newest
        /\ HasWorking' = HasWorking /\ OnSimple' = OnSimple
        /\ Boots' = Boots
    BY DiskKept DEF Boot, process, disk
  <1>1. /\ up = "serving" /\ runtime = "simple" /\ "boot" \in W /\ Later \subseteq Rests /\ Queued
    BY <1>0, WorkerAt DEF SimpleSteps
  <1>2. After("boot") = {"note"}
    BY AfterValues
  <1>3. CASE Fail("worker") /\ UNCHANGED <<handle, guests>>
    BY <1>0, <1>3, FailKeeps DEF Kept
  <1>4. CASE /\ Then("worker", <<>>) /\ UNCHANGED making /\ handle' = "up"
             /\ guests' = guests \cup {"simple"}
    <2>1. PICK rest \in SUBSET After("boot") :
            /\ R' = R /\ Later' \subseteq Later
            /\ W = {"boot"} \cup rest
            /\ W' = rest \/ (rest = {} /\ W' \subseteq Later)
      BY <1>0, <1>1, <1>4, WorkerDone
    <2>2. StagedNone' = StagedNone
      BY <1>4, DiskKept
    <2>3. OnSimple /\ ~Newest /\ ~HasWorking
      BY <1>1, <1>2, <2>1 DEF WriterInv, Places
    <2> USE <1>0, <1>1, <1>2, <1>4, <2>1, <2>2, <2>3 DEF WriterInv
    <2>4. Phases'
      BY DEF Phases, Rests, Nowhere
    <2>5. Shapes' /\ Orders'
      BY DEF Shapes, Orders, Rests, GvisorSteps, SimpleSteps, Copying
    <2>6. Running'
      BY DEF Running, Rests, GvisorRuns, SimpleRuns
    <2>7. Places'
      BY DEF Places, Rests
    <2> QED
      BY <2>4, <2>5, <2>6, <2>7
  <1> QED
    BY <1>3, <1>4 DEF Boot

\* The old pair of a moved device goes.
LEMMA DropCurrentKeeps ==
  ASSUME Typed, WriterInv, DropCurrent
  PROVE  WriterInv'
  <1>0. /\ At("worker", "dropCurrent") /\ Then("worker", <<>>)
        /\ up' = up /\ spared' = spared /\ runtime' = runtime /\ handle' = handle
        /\ guests' = guests /\ OnSimple' = OnSimple
        /\ HasWorking' = HasWorking /\ Boots' = Boots /\ StagedNone' = StagedNone
    BY DiskKept DEF DropCurrent, process, memory
  <1>1. up = "serving" /\ "dropCurrent" \in W /\ Later \subseteq Rests /\ Queued
    BY <1>0, WorkerAt
  <1>2. After("dropCurrent") = Steps \ (Copying \cup {"clear", "dropCurrent"}) /\ ~HasCurrent'
    BY AfterValues DEF DropCurrent, HasCurrent
  <1>10. ~Newest'
    BY <1>2 DEF Newest
  <1>3. PICK rest \in SUBSET After("dropCurrent") :
          /\ R' = R /\ Later' \subseteq Later
          /\ W = {"dropCurrent"} \cup rest
          /\ W' = rest \/ (rest = {} /\ W' \subseteq Later)
    BY <1>0, <1>1, WorkerDone
  <1>4. ~HasWorking /\ {"record", "boot", "publish"} \cap W = {}
    BY <1>2, <1>3 DEF WriterInv, Places, Shapes, MoveSteps, PickSteps, Copying
  <1> USE <1>0, <1>1, <1>2, <1>3, <1>4, <1>10 DEF WriterInv
  <1>5. Phases'
    BY DEF Phases, Rests
  <1>6. Shapes'
    BY DEF Shapes, Rests, GvisorSteps, SimpleSteps, Copying
  <1>7. Orders'
    BY DEF Orders, Rests, Copying
  <1>8. Running'
    BY DEF Running, Shapes, Rests, GvisorRuns, SimpleRuns
  <1>9. Places'
    BY DEF Places, Rests
  <1> QED
    BY <1>5, <1>6, <1>7, <1>8, <1>9

\* A step that is not a failed removal of a moved device's old record.
Removes == StepFails("worker") => ~At("worker", "dropRecord")

LEMMA WorkerKeeps ==
  ASSUME Typed, WriterInv, Removes, Worker
  PROVE  WriterInv'
  <1>1. CASE Interrupted
    BY <1>1, FailKeeps, DiskKept DEF Interrupted, Kept, process, memory, disk
  <1>2. CASE StepFails("worker")
    <2>1. PICK step \in Failing \ {"abort"} : At("worker", step)
      BY <1>2 DEF StepFails
    <2>2. step \notin {"abort", "dropRecord", "moved"}
      BY <1>2, <2>1, StorageAssumption DEF Removes, IO
    <2> QED
      BY <1>2, <2>1, <2>2, FailKeeps, DiskKept DEF StepFails, Kept, process, memory, disk
  <1> QED
    BY <1>1, <1>2, OperateKeeps, SettleKeeps, MoveKeeps, MovedKeeps, PickKeeps, SaveKeeps,
       ClearKeeps, BootSteps, RecordKeeps, StartKeeps, AbortKeeps, HaltKeeps, CloseKeeps,
       PublishKeeps, PlantKeeps, EndKeeps, BootKeeps, DropCurrentKeeps, QuietStepsKeep
       DEF Worker

-----------------------------------------------------------------------------
(* Recovery and the manager keep the invariant. *)

\* What a step that recovery is at tells.
LEMMA RecoveryAt ==
  ASSUME Typed, WriterInv, NEW step, At("recovery", step)
  PROVE  /\ step \in R /\ Queued
         /\ \/ up = "starting" /\ W = {}
            \/ /\ up = "serving" /\ "serve" \notin R
               /\ \/ runtime # Nowhere /\ spared = Runtimes /\ "clear" \notin R
                  \/ handle = "none" /\ spared = {} /\ W = {}
         /\ \E rest \in SUBSET After(step) : R = {step} \cup rest
         /\ Later \subseteq Rests
  <1>1. step \in R /\ \E rest \in SUBSET After(step) : R = {step} \cup rest
    BY HeadAhead DEF Typed, R, Processes
  <1>2. up \in {"down", "starting", "serving"} /\ Queued
    BY DEF Typed, MemoryOK
  <1> QED
    BY <1>1, <1>2, LaterRests DEF WriterInv, Phases

\* Recovery does a step of which the invariant asks nothing, or it fails.
LEMMA RecoveryQuiet ==
  ASSUME Typed, WriterInv, W' = W, Later' \subseteq Later, R # {}, R' \subseteq R \cup {"remove"},
         "fence" \in R => "fence" \in R' \/ R' = {},
         up' = up, spared' = spared, runtime' = runtime, handle' = handle,
         guests' \subseteq guests, HasCurrent' = HasCurrent, Newest' = Newest,
         HasWorking' = HasWorking,
         OnSimple' = OnSimple, Boots' = Boots, StagedNone' => StagedNone
  PROVE  WriterInv'
  <1> USE DEF WriterInv
  <1>1. Phases'
    BY DEF Phases
  <1>2. Shapes' /\ Orders'
    BY DEF Shapes, Orders
  <1>3. Running'
    BY DEF Running, GvisorRuns, SimpleRuns
  <1>4. Places'
    BY DEF Places
  <1> QED
    BY <1>1, <1>2, <1>3, <1>4

LEMMA RecoverQuietly ==
  ASSUME Typed, WriterInv,
         Sweep \/ Unstage \/ FenceSimple \/ DetachStages \/ RemoveStages \/ StepFails("recovery")
  PROVE  WriterInv'
  <1>0. Queued
    BY DEF Typed
  <1>1. CASE Sweep \/ Unstage \/ FenceSimple \/ RemoveStages
    <2>1. PICK step : /\ At("recovery", step) /\ Then("recovery", <<>>)
                      /\ step \in {"sweep", "unstage", "fenceSimple", "remove"}
      BY <1>1 DEF Sweep, Unstage, FenceSimple, RemoveStages
    <2>2. PICK rest \in SUBSET After(step) :
            W' = W /\ Later' \subseteq Later /\ R = {step} \cup rest /\ R' = rest
      BY <1>0, <2>1, FollowsNothing, RecoveryGoesOn
    <2>3. OnSimple' = OnSimple
      BY <1>1 DEF Sweep, Unstage, FenceSimple, RemoveStages, OnSimple, Typed, DiskOK,
         Trees, disk
    <2>4. StagedNone' => StagedNone
      BY <1>1 DEF Sweep, Unstage, FenceSimple, RemoveStages, making, StagedNone
    <2>5. guests' \subseteq guests
      BY <1>1 DEF Sweep, Unstage, FenceSimple, RemoveStages
    <2> QED
      BY <1>1, <2>1, <2>2, <2>3, <2>4, <2>5, RecoveryQuiet, DiskKept
         DEF Sweep, Unstage, FenceSimple, RemoveStages, process, memory, disk
  <1>2. CASE DetachStages
    <2>1. PICK rest \in SUBSET After("detach") :
            W' = W /\ Later' \subseteq Later /\ R = {"detach"} \cup rest /\ R' = {"remove"} \cup rest
      BY <1>0, <1>2, StepFollows, RecoveryGoesOn DEF DetachStages
    <2>2. StagedNone' => StagedNone
      BY <1>2 DEF DetachStages, StagedNone
    <2> QED
      BY <1>2, <2>1, <2>2, RecoveryQuiet, DiskKept DEF DetachStages, process, memory, disk
  <1>3. CASE StepFails("recovery")
    <2>1. W' = W /\ Later' \subseteq Later /\ R' = {} /\ R # {}
      BY <1>0, <1>3, RecoveryEnds DEF StepFails
    <2>2. UNCHANGED making
      BY <1>3 DEF StepFails, Fail
    <2> QED
      BY <1>3, <2>1, <2>2, RecoveryQuiet, DiskKept DEF StepFails, process, memory, disk
  <1> QED
    BY <1>1, <1>2, <1>3

\* A recorded sandbox that nothing took over ends.
LEMMA FenceKeeps ==
  ASSUME Typed, WriterInv, Fence
  PROVE  WriterInv'
  <1>0. /\ At("recovery", "fence")
        /\ up' = up /\ spared' = spared /\ runtime' = runtime /\ handle' = handle
        /\ HasCurrent' = HasCurrent /\ Newest' = Newest
        /\ OnSimple' = OnSimple /\ StagedNone' = StagedNone
    BY DiskKept DEF Fence, process, memory
  <1>1. PICK rest \in SUBSET After("fence") :
          W' = W /\ Later' \subseteq Later /\ R = {"fence"} \cup rest /\ R' = rest
    BY <1>0, FollowsNothing, RecoveryGoesOn DEF Fence, Typed
  <1>2. CASE Boots /\ "gvisor" \notin spared
    <2>1. /\ guests' = guests \ {"gvisor"} /\ (HasWorking' => HasWorking) /\ ~Boots'
      BY <1>2, BootDropped DEF Fence, Boots
    <2>2. W = {} /\ up # "down"
      BY <1>0, <1>2, RecoveryAt DEF Runtimes
    <2> USE <1>0, <1>1, <2>1, <2>2 DEF WriterInv
    <2>3. Phases' /\ Shapes' /\ Orders'
      BY DEF Phases, Shapes, Orders
    <2>4. Running'
      BY DEF Running, GvisorRuns, SimpleRuns
    <2>5. Places'
      BY DEF Places
    <2> QED
      BY <2>3, <2>4, <2>5
  <1>3. CASE ~(Boots /\ "gvisor" \notin spared)
    <2>1. guests' = guests /\ HasWorking' = HasWorking /\ Boots' = Boots
      BY <1>3, DiskKept DEF Fence, Boots
    <2>2. up = "starting" /\ GvisorRuns => runtime = "gvisor"
      BY <1>3 DEF WriterInv, Running, Phases
    <2> USE <1>0, <1>1, <2>1, <2>2 DEF WriterInv
    <2>3. Phases' /\ Shapes' /\ Orders'
      BY DEF Phases, Shapes, Orders
    <2>4. Running'
      BY DEF Running, GvisorRuns, SimpleRuns
    <2>5. Places'
      BY DEF Places
    <2> QED
      BY <2>3, <2>4, <2>5
  <1> QED
    BY <1>2, <1>3

\* Recovery saves what a crash left.
LEMMA RecoverySaves ==
  ASSUME Typed, WriterInv, Save("recovery")
  PROVE  WriterInv'
  <1>0. /\ At("recovery", "save")
        /\ up' = up /\ spared' = spared /\ runtime' = runtime /\ handle' = handle
        /\ guests' = guests
        /\ HasWorking' = HasWorking /\ OnSimple' = OnSimple /\ Boots' = Boots
    BY DiskKept DEF Save, process, memory
  <1>1. Queued /\ After("save") = Steps \ (Copying \cup {"clear", "fence"})
    BY AfterValues DEF Typed
  <1>2. CASE Then("recovery", <<>>) /\ UNCHANGED <<making, current, newer>>
    <2>1. PICK rest \in SUBSET After("save") :
            W' = W /\ Later' \subseteq Later /\ R = {"save"} \cup rest /\ R' = rest
      BY <1>0, <1>1, <1>2, FollowsNothing, RecoveryGoesOn
    <2> QED
      BY <1>0, <1>2, <2>1, RecoveryQuiet, DiskKept
  <1>3. CASE Fail("recovery") /\ UNCHANGED <<current, newer>>
    <2>1. W' = W /\ Later' \subseteq Later /\ R' = {} /\ R # {}
      BY <1>0, <1>1, <1>3, RecoveryEnds
    <2>2. UNCHANGED making
      BY <1>3 DEF Fail
    <2> QED
      BY <1>0, <1>3, <2>1, <2>2, RecoveryQuiet, DiskKept
  <1>4. CASE /\ "gvisor" \notin spared /\ Whole /\ Then("recovery", <<"clear">>)
             /\ UNCHANGED making
             /\ current' = [system |-> working.system, home |-> working.home,
                            reset |-> working.manifest]
    <2>1. PICK rest \in SUBSET After("save") :
            W' = W /\ Later' \subseteq Later /\ R = {"save"} \cup rest /\ R' = {"clear"} \cup rest
      BY <1>0, <1>1, <1>4, StepFollows, RecoveryGoesOn
    <2>2. HasCurrent' /\ HasWorking /\ StagedNone' = StagedNone
      BY <1>4, DiskKept DEF HasCurrent, NoPair, Whole, HasWorking, NoWorking
    <2>3. W = {} /\ (up = "starting" \/ (up = "serving" /\ spared = {} /\ handle = "none"
                                            /\ "serve" \notin R))
      BY <1>0, <1>4, RecoveryAt DEF Runtimes
    <2>4. ~GvisorRuns /\ ~SimpleRuns /\ HasCurrent
      BY <1>1, <1>4, <2>1, <2>2, <2>3 DEF WriterInv, Running, Phases, Places, Nowhere
    <2> USE <1>0, <1>1, <2>1, <2>2, <2>3, <2>4 DEF WriterInv
    <2>5. Phases' /\ Shapes' /\ Orders'
      BY DEF Phases, Shapes, Orders
    <2>6. Running'
      BY DEF Running, GvisorRuns, SimpleRuns
    <2>7. Places'
      BY DEF Places
    <2> QED
      BY <2>5, <2>6, <2>7
  <1> QED
    BY <1>2, <1>3, <1>4 DEF Save

LEMMA RecoveryClears ==
  ASSUME Typed, WriterInv, Clear("recovery")
  PROVE  WriterInv'
  <1>0. /\ At("recovery", "clear")
        /\ up' = up /\ spared' = spared /\ runtime' = runtime /\ handle' = handle
        /\ guests' = guests /\ HasCurrent' = HasCurrent /\ Newest' = Newest /\ OnSimple' = OnSimple
        /\ StagedNone' = StagedNone
    BY DiskKept DEF Clear, process, memory
  <1>1. "clear" \in R /\ W = {} /\ Queued
    BY <1>0, RecoveryAt
  <1>2. CASE UNCHANGED todo /\ HasWorking /\ (Boots' => Boots)
    <2>1. W' = W /\ R' = R /\ Later' = Later
      BY <1>2 DEF W, R, Ahead, Later
    <2> USE <1>0, <1>1, <1>2, <2>1 DEF WriterInv
    <2>2. Phases' /\ Shapes' /\ Orders'
      BY DEF Phases, Shapes, Orders
    <2>3. Running'
      BY DEF Running, GvisorRuns, SimpleRuns
    <2>4. Places'
      BY DEF Places
    <2> QED
      BY <2>2, <2>3, <2>4
  <1>3. CASE Then("recovery", <<>>) /\ UNCHANGED working
    <2>1. PICK rest \in SUBSET After("clear") :
            W' = W /\ Later' \subseteq Later /\ R = {"clear"} \cup rest /\ R' = rest
      BY <1>0, <1>1, <1>3, FollowsNothing, RecoveryGoesOn
    <2> QED
      BY <1>0, <1>3, <2>1, RecoveryQuiet, DiskKept
  <1>4. ASSUME NEW file \in {"manifest", "system", "home"}, working[file] # Absent,
               working' = [working EXCEPT ![file] = Absent]
        PROVE  HasWorking /\ (Boots' => Boots)
    BY <1>4 DEF Typed, DiskOK, Workings, HasWorking, NoWorking, Boots
  <1>5. ASSUME working.boot, working' = [working EXCEPT !.boot = FALSE]
        PROVE  HasWorking /\ (Boots' => Boots)
    BY <1>5, BootsWorking, BootDropped DEF Boots
  <1> QED
    BY <1>2, <1>3, <1>4, <1>5 DEF Clear

LEMMA ServeKeeps ==
  ASSUME Typed, WriterInv, Serve
  PROVE  WriterInv'
  <1>0. /\ At("recovery", "serve") /\ up' = "serving"
        /\ spared' = spared /\ runtime' = runtime /\ handle' = handle
        /\ guests' = guests
        /\ HasCurrent' = HasCurrent /\ Newest' = Newest
        /\ HasWorking' = HasWorking /\ OnSimple' = OnSimple
        /\ Boots' = Boots /\ StagedNone' = StagedNone
    BY DiskKept DEF Serve, memory, disk
  <1>1. W' = W /\ Later' \subseteq Later /\ R = {"serve"} /\ R' = {}
    BY <1>0, FollowsNothing, RecoveryGoesOn, AfterValues DEF Serve, Typed, Last
  <1>2. up = "starting" /\ W = {} /\ Later = {}
    BY <1>0, RecoveryAt, LaterRests
  <1> USE <1>0, <1>1, <1>2 DEF WriterInv
  <1>3. Phases' /\ Shapes' /\ Orders'
    BY DEF Phases, Shapes, Orders
  <1>4. Running'
    BY DEF Running, Phases, GvisorRuns, SimpleRuns, Nowhere
  <1>5. Places'
    BY DEF Places
  <1> QED
    BY <1>3, <1>4, <1>5

LEMMA RecoverKeeps ==
  ASSUME Typed, WriterInv, Recover
  PROVE  WriterInv'
  BY RecoverQuietly, FenceKeeps, RecoverySaves, RecoveryClears, ServeKeeps DEF Recover

\* The manager ends: the disk and the guests stay.
LEMMA EndsKeeps ==
  ASSUME Typed, WriterInv, Ends, UNCHANGED <<disk, guests>>
  PROVE  WriterInv'
  <1>1. W' = {} /\ R' = {} /\ Later' = {}
    BY EndsQueue DEF NothingAhead, W, R, Processes
  <1>2. /\ up' = "down" /\ spared' = {} /\ runtime' = Nowhere /\ handle' = "none"
        /\ guests' = guests
        /\ HasCurrent' = HasCurrent /\ Newest' = Newest
        /\ HasWorking' = HasWorking /\ OnSimple' = OnSimple
        /\ Boots' = Boots /\ ~StagedNone'
    BY DiskKept DEF Ends, disk, StagedNone
  <1> USE <1>1, <1>2 DEF WriterInv
  <1>3. Phases' /\ Shapes' /\ Orders'
    BY DEF Phases, Shapes, Orders
  <1>4. Running'
    BY DEF Running, GvisorRuns, SimpleRuns, Nowhere
  <1>5. Places'
    BY DEF Places, Nowhere
  <1> QED
    BY <1>3, <1>4, <1>5

\* The manager starts, and takes over the guest that was left.
LEMMA LaunchKeeps ==
  ASSUME Typed, WriterInv, Launch
  PROVE  WriterInv'
  <1>0. /\ up = "down" /\ up' = "starting" /\ guests' = guests
        /\ HasCurrent' = HasCurrent /\ Newest' = Newest
        /\ HasWorking' = HasWorking /\ OnSimple' = OnSimple
        /\ Boots' = Boots /\ StagedNone' = StagedNone
    BY DiskKept DEF Launch, disk
  <1>1. W = {} /\ R = {} /\ Later = {} /\ runtime = Nowhere /\ handle = "none"
    BY <1>0, LaterRests DEF WriterInv, Phases, Typed
  <1>2. W' = W /\ Later' = Later
        /\ R' = {"sweep", "unstage", "fenceSimple", "detach", "fence", "save", "serve"}
    BY RecoveryGiven DEF Launch, Typed, W, R
  <1>3. \/ runtime' = Nowhere /\ handle' = "none" /\ spared' = {}
        \/ runtime' \in guests /\ handle' = "up" /\ spared' = {runtime'}
    BY <1>1 DEF Launch, LeftRunning
  <1>4. guests \subseteq {"gvisor", "simple"} /\ Nowhere \notin guests
    BY DEF Typed, GhostsOK, Runtimes, Nowhere
  <1> USE <1>0, <1>1, <1>2, <1>3, <1>4 DEF WriterInv
  <1>5. Phases' /\ Shapes' /\ Orders'
    BY DEF Phases, Shapes, Orders
  <1>6. runtime' = "gvisor" => ~SimpleRuns
    BY BootsWorking DEF Running, GvisorRuns, Nowhere
  <1>7. runtime' = "simple" => ~Newest /\ ~HasWorking
    BY DEF Running, SimpleRuns, Nowhere
  <1>8. Running'
    BY <1>6 DEF Running, GvisorRuns, SimpleRuns
  <1>9. Places'
    BY <1>7 DEF Places
  <1> QED
    BY <1>5, <1>8, <1>9

\* Nothing is ahead of an idle manager.
LEMMA IdleAhead ==
  ASSUME Idle
  PROVE  W = {} /\ R = {} /\ Later = {}
  BY NothingQueued DEF Idle, NothingAhead, W, R, Processes

\* The worker is given a request, a hibernation or a drain.
LEMMA GivenKeeps ==
  ASSUME Typed, WriterInv, up = "serving", W = {},
         NEW what \in Operations \cup {"settle"}, NEW two \in Rests,
         \/ W' = {"pick", what}
         \/ W' = {"hibernate"} /\ (runtime = Nowhere => two = "exit"),
         "clear" \notin R, R # {} => runtime # Nowhere /\ spared = Runtimes,
         R' = R, Later' \subseteq {two},
         up' = up, spared' = spared, runtime' = runtime, guests' = guests,
         handle' = handle \/ (handle # "none" /\ handle' # "none"),
         UNCHANGED <<making, disk>>
  PROVE  WriterInv'
  <1>1. /\ HasCurrent' = HasCurrent /\ Newest' = Newest
        /\ HasWorking' = HasWorking /\ OnSimple' = OnSimple
        /\ Boots' = Boots /\ StagedNone' = StagedNone
    BY DiskKept DEF disk
  <1> USE <1>1 DEF WriterInv
  <1>2. Phases'
    BY DEF Phases, Operations
  <1>3. Shapes' /\ Orders'
    BY DEF Shapes, Orders, GvisorSteps, SimpleSteps, PickSteps, Copying, Operations
  <1>4. Running'
    BY DEF Running, GvisorRuns, SimpleRuns, Operations
  <1>5. Places'
    BY DEF Places, Operations
  <1> QED
    BY <1>2, <1>3, <1>4, <1>5

LEMMA RequestKeeps ==
  ASSUME Typed, WriterInv,
         Wake \/ Hibernate \/ Checkpoint \/ Reset \/ SettleStopped \/ Exited \/ Drain
  PROVE  WriterInv'
  <1>1. CASE Wake \/ Hibernate \/ Checkpoint \/ Reset \/ SettleStopped
    <2>1. /\ up = "serving" /\ Idle
          /\ UNCHANGED <<up, spared, runtime, guests, handle, making, disk>>
      BY <1>1 DEF Wake, Hibernate, Checkpoint, Reset, SettleStopped, Request, Admitted,
         process
    <2>2. W = {} /\ R = {} /\ Later = {}
      BY <2>1, IdleAhead
    <2>3. \E what \in Operations \cup {"settle"}, two \in Rests :
            \/ todo' = [todo EXCEPT !.worker = << <<"pick", what>>, <<two>> >>]
            \/ todo' = [todo EXCEPT !.worker = << <<"pick", what>> >>]
      <3>1. /\ "settle" \in Operations \cup {"settle"} /\ Operations \subseteq Operations \cup {"settle"}
            /\ {"wake", "hibernate", "checkpoint", "reset"} \subseteq Operations
            /\ {"wake", "settle"} \subseteq Rests
        BY DEF Operations, Rests
      <3> QED
        BY <1>1, <3>1 DEF Wake, Hibernate, Checkpoint, Reset, SettleStopped, Request
    <2>4. PICK what \in Operations \cup {"settle"}, two \in Rests :
            W' = {"pick", what} /\ R' = R /\ Later' \subseteq {two}
      BY <2>3, WorkerGiven DEF Typed, W, R
    <2> QED
      BY <2>1, <2>2, <2>4, GivenKeeps
  <1>2. CASE Exited
    <2>1. /\ up = "serving" /\ todo["worker"] = <<>> /\ handle = "up" /\ handle' = "kept"
          /\ todo' = [todo EXCEPT !.worker = << <<"hibernate">>, <<"settle">> >>]
          /\ UNCHANGED <<up, spared, runtime, guests, making, disk>>
      BY <1>2 DEF Exited, process
    <2>2. W = {} /\ "settle" \in Rests /\ "settle" \in Operations \cup {"settle"}
      BY <2>1 DEF W, Ahead, Rests
    <2>3. W' = {"hibernate"} /\ R' = R /\ Later' \subseteq {"settle"}
      BY <2>1, <2>2, WorkerGiven DEF Typed, W, R
    <2>4. /\ runtime # Nowhere /\ (R # {} => spared = Runtimes) /\ "clear" \notin R
      BY <2>1 DEF WriterInv, Phases
    <2> QED
      BY <2>1, <2>2, <2>3, <2>4, GivenKeeps
  <1>3. CASE Drain
    <2>1. /\ up = "serving" /\ Idle
          /\ todo' = [todo EXCEPT !.worker = << <<"hibernate">>, <<"exit">> >>]
          /\ UNCHANGED <<up, spared, runtime, handle, guests, making, disk>>
      BY <1>3 DEF Drain, process, memory
    <2>2. W = {} /\ R = {} /\ "exit" \in Rests /\ "settle" \in Operations \cup {"settle"}
      BY <2>1, IdleAhead DEF Rests
    <2>3. W' = {"hibernate"} /\ R' = R /\ Later' \subseteq {"exit"}
      BY <2>1, <2>2, WorkerGiven DEF Typed, W, R
    <2> QED
      BY <2>1, <2>2, <2>3, GivenKeeps
  <1> QED
    BY <1>1, <1>2, <1>3

\* What only the manager's memory sees.
LEMMA StillKeeps ==
  ASSUME WriterInv, UNCHANGED <<todo, making, disk>>,
         up' = up, spared' = spared, runtime' = runtime, handle' = handle,
         guests' \subseteq guests
  PROVE  WriterInv'
  <1>1. W' = W /\ R' = R /\ Later' = Later
    BY DEF W, R, Ahead, Later
  <1>2. /\ HasCurrent' = HasCurrent /\ Newest' = Newest
        /\ HasWorking' = HasWorking /\ OnSimple' = OnSimple
        /\ Boots' = Boots /\ StagedNone' = StagedNone
    BY DiskKept DEF disk
  <1> USE <1>1, <1>2 DEF WriterInv
  <1>3. Phases' /\ Shapes' /\ Orders'
    BY DEF Phases, Shapes, Orders
  <1>4. Running'
    BY DEF Running, GvisorRuns, SimpleRuns
  <1>5. Places'
    BY DEF Places
  <1> QED
    BY <1>3, <1>4, <1>5

LEMMA ReconcileKeeps ==
  ASSUME Typed, WriterInv, Reconcile
  PROVE  WriterInv'
  <1>0. /\ up = "serving" /\ Idle
        /\ UNCHANGED <<up, runtime, handle, guests, making, disk>>
        /\ spared' = IF handle # "none" THEN Runtimes ELSE {}
    BY DEF Reconcile, Admitted, memory
  <1>1. W = {} /\ R = {}
    BY <1>0, IdleAhead
  <1>2. W' = W /\ Later' = Later /\ R' = {"unstage", "fenceSimple", "detach", "fence", "save"}
    BY RecoveryGiven DEF Reconcile, Typed, W, R
  <1>3. /\ HasCurrent' = HasCurrent /\ Newest' = Newest
        /\ HasWorking' = HasWorking /\ OnSimple' = OnSimple
        /\ Boots' = Boots /\ StagedNone' = StagedNone
    BY <1>0, DiskKept DEF disk
  <1> USE <1>0, <1>1, <1>2, <1>3 DEF WriterInv
  <1>4. Phases' /\ Shapes' /\ Orders'
    BY DEF Phases, Shapes, Orders
  <1>5. Running'
    BY DEF Running, GvisorRuns, SimpleRuns
  <1>6. Places'
    BY DEF Places
  <1> QED
    BY <1>4, <1>5, <1>6

LEMMA ManageKeeps ==
  ASSUME Typed, WriterInv, Manage
  PROVE  WriterInv'
  <1>1. CASE Crash \/ Exit \/ Leave
    BY <1>1, EndsKeeps DEF Crash, Exit, Leave
  <1>2. CASE SetIsolation \/ Signal("stop") \/ Signal("leave")
    BY <1>2, StillKeeps DEF SetIsolation, Signal, process, memory
  <1> QED
    BY <1>1, <1>2, LaunchKeeps, RequestKeeps, ReconcileKeeps DEF Manage

\* A guest writes, and only to the storage it runs on.
LEMMA WriteKeeps ==
  ASSUME Typed, WriterInv, NEW r \in Runtimes, NEW v \in {"system", "home"}, Write(r, v)
  PROVE  WriterInv'
  <1>0. /\ UNCHANGED <<todo, making>> /\ up' = up /\ spared' = spared /\ runtime' = runtime
        /\ handle' = handle /\ guests' = guests /\ HasCurrent' = HasCurrent /\ Newest' = Newest
        /\ StagedNone' = StagedNone
    BY DiskKept DEF Write, process, memory
  <1>1. W' = W /\ R' = R /\ Later' = Later
    BY <1>0 DEF W, R, Ahead, Later
  <1>2. OnSimple' = OnSimple /\ Boots' = Boots /\ HasWorking' = HasWorking
    <2>1. CASE r = "gvisor"
      <3>1. UNCHANGED tree /\ working' = [working EXCEPT ![v] = writes + 1] /\ GvisorRuns
        BY <2>1 DEF Write, GvisorRuns
      <3>2. Boots /\ HasWorking
        BY <3>1, BootsWorking DEF WriterInv, Running
      <3>3. working'.boot = working.boot
        BY <3>1 DEF Typed, DiskOK, Workings
      <3>4. Boots' /\ HasWorking'
        <4>1. working'.boot /\ ~NoWorking.boot
          BY <3>2, <3>3 DEF Boots, NoWorking
        <4>2. working' # NoWorking
          BY <4>1
        <4> QED
          BY <4>1, <4>2 DEF Boots, HasWorking
      <3> QED
        BY <3>1, <3>2, <3>4, DiskKept
    <2>2. CASE r # "gvisor"
      <3>1. UNCHANGED working /\ tree' = [tree EXCEPT ![v] = writes + 1]
        BY <2>2 DEF Write
      <3>2. OnSimple' = OnSimple
        BY <3>1 DEF OnSimple, Typed, DiskOK, Trees
      <3> QED
        BY <3>1, <3>2, DiskKept
    <2> QED
      BY <2>1, <2>2
  <1> USE <1>0, <1>1, <1>2 DEF WriterInv
  <1>3. Phases' /\ Shapes' /\ Orders'
    BY DEF Phases, Shapes, Orders
  <1>4. Running'
    BY DEF Running, GvisorRuns, SimpleRuns
  <1>5. Places'
    BY DEF Places
  <1> QED
    BY <1>3, <1>4, <1>5

-----------------------------------------------------------------------------
LEMMA WriterInit == Init => WriterInv
  <1> SUFFICES ASSUME Init PROVE WriterInv
    OBVIOUS
  <1>1. W = {} /\ R = {} /\ Later = {}
    BY IdleAhead DEF Init, Idle
  <1>2. ~GvisorRuns /\ ~SimpleRuns /\ ~HasWorking /\ ~StagedNone
    BY DEF Init, GvisorRuns, SimpleRuns, HasWorking, StagedNone
  <1>3. up = "down" /\ runtime = Nowhere /\ handle = "none"
    BY DEF Init
  <1> USE <1>1, <1>2, <1>3
  <1>4. Phases /\ Shapes /\ Orders
    BY DEF Phases, Shapes, Orders
  <1>5. Running /\ Places
    BY DEF Running, Places, Nowhere
  <1> QED
    BY <1>4, <1>5 DEF WriterInv

LEMMA WriterStep ==
  ASSUME [Removes]_vars, Typed, WriterInv, [Next]_vars
  PROVE  WriterInv'
  <1>1. CASE UNCHANGED vars
    BY <1>1, StillKeeps DEF vars, process, memory
  <1>2. CASE \E r \in Runtimes : GuestExits(r)
    BY <1>2, StillKeeps DEF GuestExits, process, memory
  <1>3. CASE \E r \in Runtimes : \E v \in {"system", "home"} : Write(r, v)
    BY <1>3, WriteKeeps
  <1> QED
    BY <1>1, <1>2, <1>3, WorkerKeeps, RecoverKeeps, ManageKeeps DEF Next

LEMMA WriterAlone == Typed /\ WriterInv => OneWriter
  <1> SUFFICES ASSUME Typed, WriterInv PROVE OneWriter
    OBVIOUS
  <1>1. guests \subseteq {"gvisor", "simple"}
    BY DEF Typed, GhostsOK, Runtimes
  <1>2. ~("gvisor" \in guests /\ "simple" \in guests)
    BY BootsWorking DEF WriterInv, Running, GvisorRuns, SimpleRuns
  <1>3. guests = {} \/ guests = {"gvisor"} \/ guests = {"simple"}
    BY <1>1, <1>2
  <1>4. Cardinality({}) = 0 /\ Cardinality({"gvisor"}) = 1 /\ Cardinality({"simple"}) = 1
    BY FS_EmptySet, FS_Singleton
  <1> QED
    BY <1>3, <1>4 DEF OneWriter

\* Whatever crashes, failed steps, handovers, reconciles and moves came before,
\* the device runs on one runtime at a time: recovery fences a recorded sandbox
\* before a worker is made, and a worker begins no boot while a sandbox it
\* started, or a close that failed, may still run.  It holds as long as no step
\* is a failed removal of a moved device's old record: the worker would go on
\* with a tree that the next one drops in favour of the newer images, without
\* ending a proot whose process.json the manager had no time to write.
THEOREM StorageOneWriter == Spec /\ [][Removes]_vars => []OneWriter
  <1>1. Init => Typed /\ WriterInv
    BY TypedInit, WriterInit
  <1>2. Typed /\ WriterInv /\ [Next]_vars /\ [Removes]_vars => (Typed /\ WriterInv)'
    BY TypedStep, WriterStep
  <1>3. Typed /\ WriterInv => OneWriter
    BY WriterAlone
  <1> QED
    BY <1>1, <1>2, <1>3, PTL DEF Spec

-----------------------------------------------------------------------------
(* Nothing disturbs a guest that runs on.                                   *)

\* The steps of a reset that replace a system.
Replacing == {"wipe", "out", "in"}

\* A reset replaces the system only after it stopped the guest.
Halted ==
    /\ "wipe" \in W /\ "close" \notin W => handle = "none"
    /\ W \cap {"out", "in"} # {} /\ "end" \notin W => ~SimpleRuns

LEMMA HaltedFree == W' \cap Replacing = {} => Halted'
  BY DEF Halted, Replacing

\* The worker's program ends.
LEMMA HaltedEnds ==
  ASSUME Typed, NEW step, At("worker", step), Done("worker") \/ Fail("worker")
  PROVE  Halted'
  <1>1. W' \subseteq Rests
    BY WorkerEnds DEF Typed
  <1> QED
    BY <1>1, HaltedFree DEF Rests, Replacing

\* The worker's program is replaced.
LEMMA HaltedTurns ==
  ASSUME Typed, NEW step, At("worker", step), NEW program \in Program, Ordered(program),
         StepsOf(program) \cap Replacing = {},
         todo' = [todo EXCEPT !.worker[1] = program]
  PROVE  Halted'
  BY WorkerTurns, HaltedFree DEF Typed

\* The worker goes on with steps that replace no system.
LEMMA HaltedGoesOn ==
  ASSUME Typed, Halted, NEW step, step \notin {"end", "close"}, At("worker", step),
         NEW more, Follows(step, more), Then("worker", more), StepsOf(more) \cap Replacing = {},
         handle' \in {handle, "none"}, SimpleRuns' => SimpleRuns
  PROVE  Halted'
  <1>1. /\ Later \subseteq Rests
        /\ \E rest \in SUBSET After(step) :
              /\ W = {step} \cup rest
              /\ W' = StepsOf(more) \cup rest \/ W' \subseteq Later
    BY WorkerGoesOn DEF Typed
  <1>2. CASE W' \subseteq Later
    BY <1>1, <1>2, HaltedFree DEF Rests, Replacing
  <1>3. CASE \E rest \in SUBSET After(step) : W = {step} \cup rest /\ W' = StepsOf(more) \cup rest
    BY <1>3 DEF Halted, Replacing
  <1> QED
    BY <1>1, <1>2, <1>3

LEMMA HaltedDone ==
  ASSUME Typed, Halted, NEW step, step \notin {"end", "close"}, At("worker", step),
         Then("worker", <<>>), handle' \in {handle, "none"}, SimpleRuns' => SimpleRuns
  PROVE  Halted'
  <1>1. Follows(step, <<>>) /\ StepsOf(<<>>) = {}
    BY FollowsNothing
  <1> QED
    BY <1>1, HaltedGoesOn

\* What is ahead stays, and no proot starts.
LEMMA HaltedStays ==
  ASSUME Halted, W' = W, handle' = handle, SimpleRuns' => SimpleRuns
  PROVE  Halted'
  BY DEF Halted

LEMMA HaltedByWorker ==
  ASSUME Typed, WriterInv, Halted, Worker
  PROVE  Halted'
  <1> USE HaltedEnds, HaltedDone, HaltedTurns, HaltedGoesOn DEF SimpleRuns
  <1>1. CASE Operate
    <2>1. PICK what \in Operations : At("worker", what) /\ Then("worker", Script(what))
      BY <1>1 DEF Operate
    <2>2. Follows(what, Script(what))
      BY ScriptFollows, FollowsNothing DEF Script, Operations
    <2>3. PICK rest \in SUBSET After(what) :
            /\ W = {what} \cup rest
            /\ \/ W' = StepsOf(Script(what)) \cup rest
               \/ W' \subseteq Later
      BY <2>1, <2>2, WorkerGoesOn DEF Typed
    <2>4. Later \subseteq Rests /\ rest \subseteq {"move", "moved"}
      BY <2>3, LaterRests, AfterValues DEF Operations, Last, Typed
    <2>5. /\ "wipe" \in StepsOf(Script(what)) => "close" \in StepsOf(Script(what))
          /\ StepsOf(Script(what)) \cap {"out", "in"} # {} => "end" \in StepsOf(Script(what))
      BY ScriptSteps
    <2> QED
      BY <2>3, <2>4, <2>5 DEF Halted, Rests
  <1>2. CASE Settle \/ Move \/ Pick
    BY <1>2, MoveFollows, FollowsNothing DEF Settle, Move, Pick, Replacing, process, memory
  <1>3. CASE Moved \/ Save("worker")
    BY <1>3, StepFollows DEF Moved, Save, Replacing, process, memory
  <1>4. CASE Interrupted \/ StepFails("worker")
    BY <1>4 DEF Interrupted, StepFails
  <1>5. CASE Clear("worker")
    <2>1. At("worker", "clear") /\ handle' = handle /\ guests' = guests
      BY <1>5 DEF Clear, memory
    <2>2. CASE UNCHANGED todo
      <3>1. W' = W
        BY <2>2 DEF W, Ahead
      <3> QED
        BY <2>1, <3>1, HaltedStays
    <2> QED
      BY <1>5, <2>1, <2>2 DEF Clear
  <1>6. CASE First \/ StageWorking \/ Halt \/ Publish \/ Wipe \/ Answer \/ Plant
    BY <1>6 DEF First, StageWorking, Halt, Publish, Wipe, Answer, Plant, memory
  <1>7. CASE Unnote \/ Note \/ In \/ Pin \/ Discard \/ Mount \/ Raze \/ Build
    BY <1>7 DEF Unnote, Note, In, Pin, Discard, Mount, Raze, Build, memory
  <1>8. CASE CopyVolume("copySystem", "system") \/ CopyVolume("copyHome", "home")
    BY <1>8 DEF CopyVolume, memory
  <1>9. CASE DropCurrent \/ DropGenerations \/ Make \/ DropRecord \/ DropTree
    BY <1>9 DEF DropCurrent, DropGenerations, Make, DropRecord, DropTree, memory
  <1>10. /\ <<"abort">> \in Program /\ Ordered(<<"abort">>) /\ StepsOf(<<"abort">>) = {"abort"}
         /\ <<"answer">> \in Program /\ Ordered(<<"answer">>) /\ StepsOf(<<"answer">>) = {"answer"}
    BY SoleSteps DEF Steps, Free, Last
  <1>11. CASE Record \/ Out
    BY <1>10, <1>11 DEF Record, Out, Replacing, memory
  <1>12. CASE Start \/ Boot
    <2>1. PICK step \in {"start", "boot"} :
            /\ At("worker", step)
            /\ \/ Then("worker", <<>>) \/ Fail("worker")
               \/ todo' = [todo EXCEPT !.worker[1] = <<"abort">>]
      BY <1>12 DEF Start, Boot
    <2>2. CASE Then("worker", <<>>)
      <3>1. W \cap Replacing = {} /\ Later \subseteq Rests
        BY <2>1, WorkerAt DEF WriterInv, Shapes, Replacing
      <3>2. W' \subseteq W \/ W' \subseteq Later
        BY <2>1, <2>2, WorkerDone DEF Typed
      <3> QED
        BY <3>1, <3>2, HaltedFree DEF Rests, Replacing
    <2> QED
      BY <1>10, <2>1, <2>2 DEF Replacing
  <1>13. CASE Abort
    BY <1>13 DEF Abort
  <1>14. CASE Capture
    <2>1. <<"halt", "close">> \in Program /\ Ordered(<<"halt", "close">>)
          /\ StepsOf(<<"halt", "close">>) = {"halt", "close"}
      BY AfterValues, OrderedShort DEF Free, Last, Copying, Steps, Program, StepsOf
    <2> QED
      BY <1>14, <2>1 DEF Capture, Replacing, memory
  <1>15. CASE Close
    <2>1. At("worker", "close") /\ guests' = guests
      BY <1>15 DEF Close
    <2>2. CASE handle' = "none"
      <3>1. ~SimpleRuns
        BY <2>1, WorkerAt DEF WriterInv, Running, Shapes, GvisorSteps
      <3> QED
        BY <2>1, <2>2, <3>1 DEF Halted
    <2>3. CASE Fail("worker")
      BY <2>1, <2>3
    <2> QED
      BY <1>15, <2>2, <2>3 DEF Close
  <1>16. CASE End
    <2>1. At("worker", "end")
      BY <1>16 DEF End
    <2>2. CASE ~SimpleRuns' /\ handle' = "none"
      BY <2>1, <2>2 DEF Halted
    <2>3. CASE Fail("worker")
      BY <2>1, <2>3
    <2>4. CASE ~OnSimple /\ handle' = "none" /\ UNCHANGED guests
      BY <2>2, <2>4 DEF WriterInv, Running, SimpleRuns
    <2> QED
      BY <1>16, <2>2, <2>3, <2>4 DEF End
  <1> QED
    BY <1>1, <1>2, <1>3, <1>4, <1>5, <1>6, <1>7, <1>8, <1>9, <1>11, <1>12, <1>13, <1>14,
       <1>15, <1>16 DEF Worker

LEMMA HaltedByRecovery ==
  ASSUME Typed, WriterInv, Halted, Recover
  PROVE  Halted'
  <1>1. PICK step : At("recovery", step)
    BY DEF Recover, Sweep, Unstage, FenceSimple, DetachStages, RemoveStages, Fence, Save,
       Clear, Serve, StepFails
  <1>2. handle' = handle /\ (SimpleRuns' => SimpleRuns)
    BY DEF Recover, Sweep, Unstage, FenceSimple, DetachStages, RemoveStages, Fence, Save,
       Clear, Serve, StepFails, memory, SimpleRuns
  <1>3. W' = W
    <2>1. CASE UNCHANGED todo
      BY <2>1 DEF W, Ahead
    <2>2. CASE Fail("recovery")
      BY <1>1, <2>2, RecoveryEnds DEF Typed
    <2>3. ASSUME NEW s, NEW more, At("recovery", s), Follows(s, more), Then("recovery", more)
          PROVE  W' = W
      BY <2>3, RecoveryGoesOn DEF Typed
    <2> QED
      BY <2>1, <2>2, <2>3, FollowsNothing, StepFollows DEF Recover, Sweep, Unstage,
         FenceSimple, DetachStages, RemoveStages, Fence, Save, Clear, Serve, StepFails
  <1> QED
    BY <1>2, <1>3, HaltedStays

LEMMA HaltedByManager ==
  ASSUME Typed, WriterInv, Halted, Manage
  PROVE  Halted'
  <1>1. CASE Crash \/ Exit \/ Leave
    <2>1. W' = {}
      BY <1>1, EndsQueue DEF Crash, Exit, Leave, NothingAhead, W, Processes
    <2> QED
      BY <2>1, HaltedFree
  <1>2. CASE Launch \/ Reconcile
    <2>1. W' = W /\ W = {}
      BY <1>2, RecoveryGiven, IdleAhead DEF Launch, Reconcile, Admitted, Typed, W, WriterInv,
         Phases
    <2> QED
      BY <2>1, HaltedFree
  <1>3. CASE SetIsolation \/ Signal("stop") \/ Signal("leave")
    <2>1. UNCHANGED todo /\ UNCHANGED guests /\ handle' = handle
      BY <1>3 DEF SetIsolation, Signal, memory
    <2>2. W' = W
      BY <2>1 DEF W, Ahead
    <2> QED
      BY <2>1, <2>2, HaltedStays DEF SimpleRuns
  <1>4. CASE Wake \/ Hibernate \/ Checkpoint \/ Reset \/ SettleStopped \/ Exited \/ Drain
    <2>1. /\ {"settle"} \cup Operations \subseteq Operations \cup {"settle"}
          /\ {"wake", "hibernate", "checkpoint", "reset"} \subseteq Operations
          /\ {"wake", "settle", "exit"} \subseteq Rests
      BY DEF Operations, Rests
    <2>2. \E what \in Operations \cup {"settle"}, two \in Rests :
            \/ todo' = [todo EXCEPT !.worker = << <<"pick", what>>, <<two>> >>]
            \/ todo' = [todo EXCEPT !.worker = << <<"pick", what>> >>]
            \/ todo' = [todo EXCEPT !.worker = << <<"hibernate">>, <<two>> >>]
      BY <1>4, <2>1 DEF Wake, Hibernate, Checkpoint, Reset, SettleStopped, Request, Exited,
         Drain
    <2>3. \E what \in Operations \cup {"settle"} : W' \in {{"pick", what}, {"hibernate"}}
      BY <2>2, WorkerGiven DEF Typed, W
    <2> QED
      BY <2>3, HaltedFree DEF Operations, Replacing
  <1> QED
    BY <1>1, <1>2, <1>3, <1>4 DEF Manage

LEMMA HaltedInit == Init => Halted
  BY IdleAhead DEF Init, Idle, Halted

LEMMA HaltedStep ==
  ASSUME Typed, WriterInv, Halted, [Next]_vars
  PROVE  Halted'
  <1>1. CASE \/ UNCHANGED vars
             \/ \E r \in Runtimes : GuestExits(r) \/ \E v \in {"system", "home"} : Write(r, v)
    <2>1. UNCHANGED todo /\ guests' \subseteq guests /\ handle' = handle
      BY <1>1 DEF vars, memory, GuestExits, Write
    <2>2. W' = W
      BY <2>1 DEF W, Ahead
    <2> QED
      BY <2>1, <2>2, HaltedStays DEF SimpleRuns
  <1> QED
    BY <1>1, HaltedByWorker, HaltedByRecovery, HaltedByManager DEF Next

\* A volume that a step does not name in an EXCEPT.
LEMMA VolumesKept ==
  ASSUME Typed
  PROVE  /\ \A x : working' = [working EXCEPT !.boot = x]
                   => working'.system = working.system /\ working'.home = working.home
         /\ \A x : \/ tree' = [tree EXCEPT !.record = x]
                   \/ tree' = [tree EXCEPT !.old = x]
                   \/ tree' = [tree EXCEPT !.process = x]
                   => tree'.system = tree.system /\ tree'.home = tree.home
  BY DEF Typed, DiskOK, Workings, Trees

\* While a sandbox runs, only its own writes change the working pair, and only
\* a checkpoint publishes.
LEMMA SandboxUndisturbed ==
  ASSUME Typed, WriterInv, Halted, GvisorRuns, Next
  PROVE  /\ writes' = writes => working'.system = working.system /\ working'.home = working.home
         /\ current' = current \/ staged # NoPair
  <1>1. CASE Worker
    <2>1. /\ up = "serving" /\ runtime = "gvisor" /\ (handle # "none" \/ W = {"abort"})
          /\ "clear" \notin W /\ HasWorking /\ HasCurrent
      <3>1. \E step : At("worker", step)
        BY <1>1 DEF Worker, Operate, Settle, Move, Moved, Pick, Interrupted, Save, Clear, First,
           StageWorking, Record, Start, Abort, Halt, Close, Capture, Publish, Wipe, Answer,
           Plant, End, Unnote, Boot, Note, Out, In, Pin, Discard, Mount, CopyVolume, Raze,
           Build, DropCurrent, DropGenerations, Make, DropRecord, DropTree, StepFails
      <3>2. up = "serving"
        BY <3>1, WorkerAt
      <3> QED
        BY <3>2, BootsWorking DEF WriterInv, Running, Shapes, Places
    <2>2. \A step : At("worker", step) => step \in W /\ \E rest \in SUBSET After(step) : W = {step} \cup rest
      BY WorkerAt
    <2>3. CASE UNCHANGED <<current, working>>
      BY <2>3
    <2>4. CASE Save("worker")
      <3>1. At("worker", "save") /\ UNCHANGED working
        BY <2>4 DEF Save
      <3>2. handle # "none"
        BY <2>1, <2>2, <3>1
      <3> QED
        BY <2>4, <3>1, <3>2 DEF Save
    <2>5. CASE Clear("worker")
      BY <2>1, <2>2, <2>5 DEF Clear
    <2>6. CASE First \/ StageWorking
      BY <2>1, <2>6 DEF First, StageWorking, HasCurrent
    <2>7. CASE Record \/ Abort \/ Close
      BY <2>7, VolumesKept DEF Record, Abort, Close
    <2>8. CASE Publish
      <3>1. At("worker", "publish") /\ UNCHANGED working
        BY <2>8 DEF Publish
      <3>2. "publish" \in W /\ "capture" \notin W /\ "make" \notin W
        BY <2>2, <3>1, AfterValues
      <3> QED
        BY <2>8, <3>1, <3>2 DEF Publish, WriterInv, Places, StagedNone
    <2>9. CASE Wipe
      <3>1. At("worker", "wipe")
        BY <2>9 DEF Wipe
      <3>2. "wipe" \in W /\ "close" \notin W
        BY <2>2, <3>1, AfterValues
      <3> QED
        BY <2>1, <3>2 DEF Halted
    <2>10. CASE DropCurrent
      <3>1. "dropCurrent" \in W
        BY <2>2, <2>10 DEF DropCurrent
      <3> QED
        BY <2>1, <3>1 DEF WriterInv, Shapes, Nowhere
    <2> QED
      BY <1>1, <2>3, <2>4, <2>5, <2>6, <2>7, <2>8, <2>9, <2>10 DEF Worker, Operate, Settle,
         Move, Moved, Pick, Interrupted, Start, Halt, Capture, Answer, Plant, End, Unnote, Boot,
         Note, Out, In, Pin, Discard, Mount, CopyVolume, Raze, Build, DropGenerations, Make,
         DropRecord, DropTree, StepFails, disk
  <1>2. CASE Recover
    <2>1. CASE UNCHANGED <<current, working>>
      BY <2>1
    <2>2. CASE Save("recovery")
      <3>1. At("recovery", "save") /\ UNCHANGED working
        BY <2>2 DEF Save
      <3>2. "save" \in R /\ "fence" \notin R
        BY <3>1, RecoveryAt, AfterValues
      <3>3. "gvisor" \in spared
        BY <3>1, <3>2, RecoveryAt DEF WriterInv, Running, Phases, Runtimes, Nowhere
      <3> QED
        BY <2>2, <3>1, <3>3 DEF Save
    <2>3. CASE Clear("recovery")
      BY <2>3, RecoveryAt DEF Clear, WriterInv, Running
    <2>4. CASE Fence
      BY <2>4, VolumesKept DEF Fence
    <2> QED
      BY <1>2, <2>1, <2>2, <2>3, <2>4 DEF Recover, Sweep, Unstage, FenceSimple, DetachStages,
         RemoveStages, Serve, StepFails, disk
  <1>3. CASE Manage
    BY <1>3 DEF Manage, Launch, Crash, Wake, Hibernate, Checkpoint, Reset, SettleStopped,
       SetIsolation, Reconcile, Exited, Signal, Drain, Exit, Leave, Request, disk
  <1>4. CASE \E r \in Runtimes : GuestExits(r) \/ \E v \in {"system", "home"} : Write(r, v)
    <2>1. CASE \E r \in Runtimes : GuestExits(r)
      BY <2>1 DEF GuestExits, disk
    <2>2. CASE \E r \in Runtimes : \E v \in {"system", "home"} : Write(r, v)
      BY <2>2 DEF Write, Typed, GhostsOK
    <2> QED
      BY <1>4, <2>1, <2>2
  <1> QED
    BY <1>1, <1>2, <1>3, <1>4 DEF Next

\* While a proot runs, only its own writes change its tree's volumes.
LEMMA ProotUndisturbed ==
  ASSUME Typed, WriterInv, Halted, SimpleRuns, Next, writes' = writes
  PROVE  tree'.system = tree.system /\ tree'.home = tree.home
  <1>1. CASE UNCHANGED tree
    BY <1>1
  <1>2. \A step : At("worker", step) => step \in W /\ \E rest \in SUBSET After(step) : W = {step} \cup rest
    BY WorkerAt
  <1>3. CASE Plant
    BY <1>3 DEF Plant, WriterInv, Running
  <1>4. CASE Out \/ In
    <2>1. PICK step \in {"out", "in"} : At("worker", step)
      BY <1>4 DEF Out, In
    <2>2. W \cap {"out", "in"} # {} /\ "end" \notin W
      BY <1>2, <2>1, AfterValues
    <2> QED
      BY <2>2 DEF Halted
  <1>5. CASE Raze \/ Build
    <2>1. runtime = "gvisor"
      BY <1>5, WorkerAt DEF Raze, Build, GvisorSteps, Copying
    <2> QED
      BY <2>1 DEF WriterInv, Running
  <1>6. CASE DropTree \/ DropRecord
    BY <1>2, <1>6 DEF DropTree, DropRecord, WriterInv, Running
  <1>7. CASE Unnote \/ Note \/ Pin \/ Discard \/ Unstage \/ FenceSimple
    <2>1. \/ UNCHANGED tree
          \/ \E x : \/ tree' = [tree EXCEPT !.record = x]
                   \/ tree' = [tree EXCEPT !.old = x]
                   \/ tree' = [tree EXCEPT !.process = x]
      BY <1>7 DEF Unnote, Note, Pin, Discard, Unstage, FenceSimple
    <2> QED
      BY <2>1, VolumesKept
  <1>8. CASE Worker
    BY <1>1, <1>3, <1>4, <1>5, <1>6, <1>7, <1>8 DEF Worker, Operate, Settle, Move, Moved, Pick,
       Interrupted, Save, Clear, First, StageWorking, Record, Start, Abort, Halt, Close, Capture,
       Publish, Wipe, Answer, End, Boot, Mount, CopyVolume, DropCurrent, DropGenerations, Make,
       StepFails, disk
  <1>9. CASE Recover
    BY <1>1, <1>7, <1>9 DEF Recover, Sweep, DetachStages, RemoveStages, Fence, Save, Clear,
       Serve, StepFails, disk
  <1>10. CASE Manage
    BY <1>1, <1>10 DEF Manage, Launch, Crash, Wake, Hibernate, Checkpoint, Reset, SettleStopped,
       SetIsolation, Reconcile, Exited, Signal, Drain, Exit, Leave, Request, disk
  <1>11. CASE \E r \in Runtimes : GuestExits(r) \/ \E v \in {"system", "home"} : Write(r, v)
    BY <1>1, <1>11 DEF GuestExits, Write, disk, Typed, GhostsOK
  <1> QED
    BY <1>8, <1>9, <1>10, <1>11 DEF Next

\* A guest that runs on keeps its volumes, whatever operations, reconciles,
\* crashes, restarts and handovers come meanwhile: the storage beside it is only
\* saved, reset, moved or removed once it ended, and what is published beside it
\* is a checkpoint's own pair.  As with one writer, no step is a failed removal of
\* a moved device's old record.
THEOREM StorageUndisturbed == Spec /\ [][Removes]_vars => Undisturbed
  <1> DEFINE Inv == Typed /\ WriterInv /\ Halted
  <1>1. Init => Inv
    BY TypedInit, WriterInit, HaltedInit
  <1>2. Inv /\ [Next]_vars /\ [Removes]_vars => Inv'
    BY TypedStep, WriterStep, HaltedStep
  <1>3. ASSUME Inv, Next, NEW r \in guests \cap guests'
        PROVE  /\ Mounted(r)' # Mounted(r) => writes' # writes
               /\ r = "gvisor" /\ current' # current => staged # NoPair
    <2>1. r \in {"gvisor", "simple"}
      BY <1>3 DEF Typed, GhostsOK, Runtimes
    <2>2. CASE r = "gvisor"
      BY <1>3, <2>2, SandboxUndisturbed DEF GvisorRuns, Mounted
    <2>3. CASE r = "simple"
      BY <1>3, <2>3, ProotUndisturbed DEF SimpleRuns, Mounted
    <2> QED
      BY <2>1, <2>2, <2>3
  <1>4. Inv /\ [Next]_vars
          => [\A r \in guests \cap guests' :
                /\ Mounted(r)' # Mounted(r) => writes' # writes
                /\ r = "gvisor" /\ current' # current => staged # NoPair]_vars
    BY <1>3
  <1> QED
    BY <1>1, <1>2, <1>4, PTL DEF Spec, Undisturbed

-----------------------------------------------------------------------------
(* What was last written is kept.                                           *)

\* An id of a reset that is not older than the last answer.
Recent(id) == answered <= id /\ id <= asked

LatestPair == current.system = live.system /\ current.home = live.home /\ Recent(current.reset)
LatestWorking == working.system = live.system /\ working.home = live.home /\ Recent(working.manifest)
LatestTree == tree.system \in {live.system, Absent} /\ tree.home = live.home /\ Recent(tree.record)

\* A saved working pair is being cleared.
Saving == "clear" \in R \/ ("clear" \in W /\ "dropCurrent" \notin W)

\* The storage that holds what the volumes last held.
Stored ==
    /\ Whole => LatestWorking
    /\ HasCurrent /\ (Saving \/ (~Whole /\ (runtime = "gvisor" \/ Newest \/ ~OnSimple)))
         => LatestPair
    /\ Saving => Newest
    /\ OnSimple /\ ~Whole /\ ~Newest => LatestTree
    /\ ~HasCurrent /\ ~OnSimple => live = [system |-> 0, home |-> 0] /\ answered = 0

\* The storage that a guest or the worker uses.
Used ==
    /\ GvisorRuns => Whole
    /\ SimpleRuns => ~HasCurrent /\ tree.system # Absent
    /\ runtime = "gvisor" /\ handle # "none" => Whole
    /\ runtime = "gvisor" /\ ~HasCurrent /\ OnSimple => "moved" \in W /\ W \subseteq {"dropGenerations", "moved"}
    /\ runtime = "simple" /\ HasCurrent => "moved" \in W /\ W \subseteq {"dropRecord", "dropTree", "moved"}
    /\ runtime = "gvisor" /\ OnSimple /\ HasCurrent /\ ~Newest /\ ~Whole => tree.record = current.reset
    /\ runtime = Nowhere /\ (up = "serving" \/ (up = "starting" /\ R # {} /\ R \cap {"save", "clear"} = {}))
         => working.manifest = Absent
    /\ "clear" \in W \cup R /\ runtime = "gvisor" => handle = "none"

\* What a wake, a checkpoint and a reset found.
Found ==
    /\ W # {} => R = {}
    /\ "capture" \in W => "publish" \in W
    /\ "capture" \in W \/ ("publish" \in W /\ runtime = "gvisor") => handle # "none"
    /\ W \cap {"record", "start", "abort"} # {} /\ "stage" \notin W => Whole
    /\ W \cap {"stage", "record"} # {} => "start" \in W
    /\ "start" \in W /\ W \cap {"save", "clear", "first"} # {} => "stage" \in W
    /\ W \cap {"stage", "wipe"} # {} /\ "first" \notin W => HasCurrent
    /\ "wipe" \in W /\ W \cap {"save", "clear"} = {} => working.manifest = Absent
    /\ "out" \in W /\ "plant" \notin W => OnSimple
    /\ W \cap {"in", "pin"} # {} /\ "out" \notin W => OnSimple
    /\ "in" \in W /\ "out" \notin W => tree.record # op
    /\ W \cap {"reset", "wipe", "out", "in", "pin", "answer"} # {} => op = asked
    /\ "answer" \in W /\ W \cap {"wipe", "pin"} = {} =>
         \/ runtime = "gvisor" /\ ~Whole /\ HasCurrent /\ current.reset = op
         \/ runtime = "simple" /\ OnSimple /\ tree.record = op

\* What a move copied, and what it leaves.
Moves ==
    /\ "moved" \in W /\ runtime = "gvisor" /\ W \cap {"hibernate", "save"} = {}
          /\ ("clear" \notin W \/ "dropCurrent" \in W)
         => working.manifest = Absent
    /\ W \cap Copying # {} => "build" \in W /\ HasCurrent
    /\ "mount" \in W => {"copySystem", "copyHome"} \subseteq W
    /\ W \cap Copying # {} \/ ("dropCurrent" \in W /\ "moved" \in W)
         => W \subseteq Copying \cup {"clear", "dropCurrent", "dropGenerations", "moved"}
    /\ W \cap Copying # {} /\ "mount" \notin W =>
         /\ stage = "held" /\ staged.reset = current.reset
         /\ "copySystem" \notin W => staged.system = current.system
         /\ "copyHome" \notin W => staged.home = current.home
    /\ "dropCurrent" \in W /\ "build" \notin W => OnSimple /\ newer = "simple"
    /\ "make" \in W => "publish" \in W
    /\ "publish" \in W /\ runtime = "simple" => OnSimple /\ "dropRecord" \in W
    /\ "publish" \in W /\ "make" \notin W /\ runtime = "simple" /\ stage = "held" =>
         /\ tree.system # Absent
         /\ staged = [system |-> tree.system, home |-> tree.home, reset |-> tree.record]
    /\ W \cap {"dropRecord", "dropTree"} # {} /\ "publish" \notin W => Newest
    /\ "moved" \in W /\ runtime = "simple" /\ W \cap {"move", "publish", "dropRecord"} = {} => ~OnSimple

\* Pairs of one moment.
Moments ==
    /\ HasCurrent => [system |-> current.system, home |-> current.home] \in moments
    /\ "publish" \in W /\ "capture" \notin W /\ runtime = "gvisor" /\ stage = "held" =>
         [system |-> staged.system, home |-> staged.home] \in moments

LatestInv == Stored /\ Used /\ Found /\ Moves /\ Moments

\* A step that is neither a failed removal of a moved device's old storage nor
\* the handling of a guest's exit while a reconcile runs.
Completes ==
    /\ StepFails("worker") => \A step \in {"dropGenerations", "dropRecord", "dropTree"} :
                                ~At("worker", step)
    /\ Exited => todo.recovery = <<>>

USE DEF HasCurrent, Newest

-----------------------------------------------------------------------------
(* What a step leaves as it is. *)

\* Everything the invariant speaks of but the steps, the guests, the worker's
\* memory and the stage.
StillDisk ==
    /\ UNCHANGED <<up, op, current, newer, live, moments, asked, answered>>
    /\ working'.manifest = working.manifest /\ working'.system = working.system
    /\ working'.home = working.home
    /\ tree'.record = tree.record /\ tree'.system = tree.system /\ tree'.home = tree.home

Still == runtime' = runtime /\ StillDisk

LEMMA StillViews ==
  ASSUME StillDisk
  PROVE  /\ Whole' = Whole /\ HasCurrent' = HasCurrent /\ Newest' = Newest /\ OnSimple' = OnSimple
         /\ LatestWorking' = LatestWorking /\ LatestPair' = LatestPair /\ LatestTree' = LatestTree
  BY DEF StillDisk, Whole, OnSimple, LatestWorking, LatestPair, LatestTree, Recent

\* What a step the worker is at tells.
LEMMA WorkerHas ==
  ASSUME Typed, WriterInv, LatestInv, NEW step, At("worker", step)
  PROVE  /\ step \in W /\ up = "serving" /\ R = {} /\ Queued /\ Later \subseteq Rests
         /\ \E rest \in SUBSET After(step) : W = {step} \cup rest
         /\ step \in GvisorSteps => runtime = "gvisor"
         /\ step \in SimpleSteps => runtime = "simple"
  BY WorkerAt DEF LatestInv, Found

\* The worker does a step.
LEMMA WorkerDoes ==
  ASSUME Typed, WriterInv, LatestInv, NEW step, At("worker", step), Then("worker", <<>>)
  PROVE  /\ up = "serving" /\ R = {} /\ R' = {}
         /\ \E rest \in SUBSET After(step) :
              W = {step} \cup rest /\ (W' = rest \/ (rest = {} /\ W' \subseteq Rests))
  <1>1. up = "serving" /\ R = {} /\ Queued
    BY WorkerHas
  <1> QED
    BY <1>1, WorkerDone

\* The worker's program ends.
LEMMA LatestEnds ==
  ASSUME Typed, WriterInv, LatestInv, Completes, NEW step, At("worker", step),
         Done("worker") \/ Fail("worker"),
         step \notin {"dropGenerations", "dropRecord", "dropTree", "moved"},
         Still, guests' \subseteq guests,
         runtime = "gvisor" /\ handle' # "none" => Whole
  PROVE  LatestInv'
  <1>1. up = "serving" /\ R = {} /\ step \in W
    BY WorkerHas
  <1>2. R' = {} /\ W' \subseteq Rests
    BY <1>1, WorkerEnds DEF Typed
  <1>3. /\ runtime = "gvisor" => HasCurrent \/ ~OnSimple
        /\ runtime = "simple" => ~HasCurrent
    BY <1>1 DEF LatestInv, Used
  <1> USE <1>1, <1>2, <1>3, StillViews DEF LatestInv, Rests
  <1>4. Stored'
    BY DEF Stored, Saving, Still, StillDisk
  <1>5. Used'
    BY DEF Used, Still, StillDisk, GvisorRuns, SimpleRuns
  <1>6. Found' /\ Moves' /\ Moments'
    BY DEF Found, Moves, Moments, Still, StillDisk, Copying
  <1> QED
    BY <1>4, <1>5, <1>6

\* The worker does a step that leaves the storage.
LEMMA LatestStill ==
  ASSUME Typed, WriterInv, LatestInv, Completes, NEW step, At("worker", step),
         Then("worker", <<>>),
         step \in {"record", "start", "halt", "close", "unnote", "note", "end", "boot", "discard",
                   "dropGenerations"},
         Still, UNCHANGED making,
         GvisorRuns' => Whole, SimpleRuns' => ~HasCurrent /\ tree.system # Absent,
         runtime = "gvisor" /\ handle' # "none" => Whole,
         W \cap {"capture", "publish"} # {} => handle' = handle,
         "clear" \in W /\ runtime = "gvisor" => handle' \in {handle, "none"}
  PROVE  LatestInv'
  <1>1. up = "serving" /\ R = {} /\ R' = {}
    BY WorkerDoes
  <1>2. PICK rest \in SUBSET After(step) : W = {step} \cup rest /\ (W' = rest \/ (rest = {} /\ W' \subseteq Rests))
    BY WorkerDoes
  <1>7. step = "start" => rest = {}
    BY <1>2, AfterValues DEF Last
  <1> USE <1>1, <1>2, <1>7, StillViews DEF LatestInv, Rests
  <1>3. Stored'
    BY DEF Stored, Saving, Still, StillDisk
  <1>4. Used'
    BY DEF Used, Still, StillDisk
  <1>5. Found'
    BY DEF Found, Still, StillDisk
  <1>6. Moves' /\ Moments'
    BY DEF Moves, Moments, Still, StillDisk, Copying, making
  <1> QED
    BY <1>3, <1>4, <1>5, <1>6

\* The worker turns to a program that closes the sandbox.
LEMMA LatestTurns ==
  ASSUME Typed, WriterInv, LatestInv, NEW step, At("worker", step),
         NEW program \in Program, Ordered(program), StepsOf(program) \subseteq {"abort", "halt", "close"},
         todo' = [todo EXCEPT !.worker[1] = program],
         Still, handle' = handle, Whole,
         GvisorRuns' => Whole, SimpleRuns' => SimpleRuns
  PROVE  LatestInv'
  <1>1. up = "serving" /\ R = {} /\ step \in W
    BY WorkerHas
  <1>2. R' = {} /\ W' \subseteq {"abort", "halt", "close"}
    BY <1>1, WorkerTurns DEF Typed
  <1>3. HasWorking /\ HasCurrent /\ runtime # "simple" /\ runtime # Nowhere
    BY <1>1 DEF Whole, HasWorking, NoWorking, WriterInv, Places, LatestInv, Used
  <1> USE <1>1, <1>2, <1>3, StillViews DEF LatestInv
  <1>4. Stored' /\ Used'
    BY DEF Stored, Used, Saving, Still, StillDisk
  <1>5. Found' /\ Moves' /\ Moments'
    BY DEF Found, Moves, Moments, Still, StillDisk, Copying
  <1> QED
    BY <1>4, <1>5

LEMMA StillSteps ==
  ASSUME Typed, UNCHANGED <<up, op, current, newer, ghosts>>,
         \/ UNCHANGED working \/ \E x : working' = [working EXCEPT !.boot = x],
         \/ UNCHANGED tree \/ \E x : tree' = [tree EXCEPT !.process = x]
         \/ \E x : tree' = [tree EXCEPT !.old = x]
  PROVE  StillDisk /\ (runtime' = runtime => Still)
  <1>1. /\ working'.manifest = working.manifest /\ working'.system = working.system
        /\ working'.home = working.home
    BY DEF Typed, DiskOK, Workings
  <1>2. tree'.record = tree.record /\ tree'.system = tree.system /\ tree'.home = tree.home
    BY DEF Typed, DiskOK, Trees
  <1> QED
    BY <1>1, <1>2 DEF Still, StillDisk, ghosts

LEMMA LatestSandbox ==
  ASSUME Typed, WriterInv, LatestInv, Completes, Record \/ Start \/ Abort \/ Halt \/ Close
  PROVE  LatestInv'
  <1>1. Still
    BY StillSteps DEF Record, Start, Abort, Halt, Close, process, memory, disk, ghosts
  <1>2. /\ GvisorRuns => Whole
        /\ SimpleRuns => ~HasCurrent /\ tree.system # Absent
        /\ runtime = "gvisor" /\ handle # "none" => Whole
    BY DEF LatestInv, Used
  <1>3. /\ <<"abort">> \in Program /\ Ordered(<<"abort">>) /\ StepsOf(<<"abort">>) = {"abort"}
    BY SoleSteps DEF Free, Steps
  <1>4. CASE Record
    <2>1. At("worker", "record") /\ handle' = handle /\ guests' = guests /\ UNCHANGED making
      BY <1>4 DEF Record, memory
    <2>2. Whole
      BY <2>1, WorkerHas, AfterValues DEF LatestInv, Found
    <2>3. CASE Then("worker", <<>>)
      BY <1>1, <1>2, <2>1, <2>2, <2>3, LatestStill DEF GvisorRuns, SimpleRuns
    <2>4. CASE todo' = [todo EXCEPT !.worker[1] = <<"abort">>]
      BY <1>1, <1>2, <1>3, <2>1, <2>2, <2>4, LatestTurns DEF GvisorRuns, SimpleRuns
    <2> QED
      BY <1>4, <2>3, <2>4 DEF Record
  <1>5. CASE Start
    <2>1. /\ At("worker", "start") /\ guests' \subseteq guests \cup {"gvisor"} /\ UNCHANGED making
      BY <1>5 DEF Start
    <2>2. Whole /\ W = {"start"}
      BY <2>1, WorkerHas, AfterValues DEF LatestInv, Found, Last
    <2>3. CASE Then("worker", <<>>)
      BY <1>1, <1>2, <2>1, <2>2, <2>3, LatestStill DEF GvisorRuns, SimpleRuns
    <2>4. CASE todo' = [todo EXCEPT !.worker[1] = <<"abort">>] /\ handle' = handle
      BY <1>1, <1>2, <1>3, <2>1, <2>2, <2>4, LatestTurns DEF GvisorRuns, SimpleRuns
    <2> QED
      BY <1>5, <2>3, <2>4 DEF Start
  <1>6. CASE Abort
    <2>1. At("worker", "abort") /\ guests' \subseteq guests /\ Fail("worker")
      BY <1>6 DEF Abort
    <2>2. Whole
      BY <2>1, WorkerAt DEF LatestInv, Found, WriterInv, Shapes
    <2> QED
      BY <1>1, <2>1, <2>2, LatestEnds
  <1>7. CASE Halt
    <2>1. At("worker", "halt") /\ guests' \subseteq guests /\ handle' = handle
      BY <1>7 DEF Halt, memory
    <2>2. CASE Then("worker", <<>>) /\ UNCHANGED making
      BY <1>1, <1>2, <2>1, <2>2, LatestStill DEF GvisorRuns, SimpleRuns
    <2>3. CASE Fail("worker")
      BY <1>1, <1>2, <2>1, <2>3, LatestEnds
    <2> QED
      BY <1>7, <2>2, <2>3 DEF Halt
  <1>8. CASE Close
    <2>1. /\ At("worker", "close") /\ guests' = guests
          /\ handle' \in {handle, "none"} \/ (handle # "none" /\ handle' = "kept")
      BY <1>8 DEF Close
    <2>2. CASE Then("worker", <<>>) /\ UNCHANGED making /\ handle' \in {handle, "none"}
      <3>1. "close" \in W /\ runtime = "gvisor"
        BY <2>1, WorkerAt DEF GvisorSteps
      <3>2. W \cap {"capture", "publish"} = {}
        BY <3>1 DEF WriterInv, Shapes, LatestInv, Found
      <3> QED
        BY <1>1, <1>2, <2>1, <2>2, <3>2, LatestStill DEF GvisorRuns, SimpleRuns
    <2>3. CASE Fail("worker")
      BY <1>1, <1>2, <2>1, <2>3, LatestEnds
    <2> QED
      BY <1>8, <2>2, <2>3 DEF Close
  <1> QED
    BY <1>4, <1>5, <1>6, <1>7, <1>8

LEMMA LatestProot ==
  ASSUME Typed, WriterInv, LatestInv, Completes,
         Unnote \/ Note \/ End \/ Boot \/ Discard \/ DropGenerations \/ Interrupted
         \/ StepFails("worker")
  PROVE  LatestInv'
  <1>1. Still
    BY StillSteps DEF Unnote, Note, End, Boot, Discard, DropGenerations, Interrupted,
       StepFails, process, memory, disk, ghosts
  <1>2. /\ GvisorRuns => Whole
        /\ SimpleRuns => ~HasCurrent /\ tree.system # Absent
        /\ runtime = "gvisor" /\ handle # "none" => Whole
    BY DEF LatestInv, Used
  <1>3. CASE Unnote \/ Note \/ Discard \/ DropGenerations
    BY <1>1, <1>2, <1>3, LatestStill DEF Unnote, Note, Discard, DropGenerations, GvisorRuns,
       SimpleRuns, memory
  <1>4. CASE Interrupted \/ StepFails("worker")
    <2>1. /\ Fail("worker") /\ handle' = handle /\ guests' = guests
          /\ \E step : /\ At("worker", step)
                       /\ step \notin {"dropGenerations", "dropRecord", "dropTree", "moved"}
      BY <1>4, StorageAssumption DEF Interrupted, StepFails, memory, Completes, IO
    <2> QED
      BY <1>1, <1>2, <2>1, LatestEnds
  <1>5. CASE End
    <2>1. At("worker", "end") /\ handle' \in {handle, "none"} /\ guests' \subseteq guests
      BY <1>5 DEF End
    <2>2. CASE Then("worker", <<>>) /\ UNCHANGED making
      <3>1. "end" \in W /\ runtime = "simple"
        BY <2>1, WorkerAt DEF SimpleSteps
      <3>2. W \cap {"capture", "publish"} = {}
        BY <3>1 DEF WriterInv, Shapes, GvisorSteps
      <3> QED
        BY <1>1, <1>2, <2>1, <2>2, <3>2, LatestStill DEF GvisorRuns, SimpleRuns
    <2>3. CASE Fail("worker")
      BY <1>1, <1>2, <2>1, <2>3, LatestEnds
    <2> QED
      BY <1>5, <2>1, <2>2, <2>3 DEF End
  <1>6. CASE Boot
    <2>1. At("worker", "boot") /\ "boot" \in W /\ runtime = "simple"
      BY <1>6, WorkerAt DEF Boot, SimpleSteps
    <2>2. CASE Fail("worker") /\ UNCHANGED <<handle, guests>>
      BY <1>1, <1>2, <2>1, <2>2, LatestEnds
    <2>3. CASE /\ tree.system # Absent /\ guests' = guests \cup {"simple"} /\ handle' = "up"
               /\ Then("worker", <<>>) /\ UNCHANGED making
      <3>1. ~HasCurrent /\ W \cap {"capture", "publish"} = {}
        BY <2>1 DEF LatestInv, Used, WriterInv, Shapes
      <3> QED
        BY <1>1, <1>2, <2>1, <2>3, <3>1, LatestStill DEF GvisorRuns, SimpleRuns
    <2> QED
      BY <1>6, <2>2, <2>3 DEF Boot
  <1> QED
    BY <1>3, <1>4, <1>5, <1>6

\* The steps that only choose what the worker does.
LEMMA LatestOperate ==
  ASSUME Typed, WriterInv, LatestInv, Operate
  PROVE  LatestInv'
  <1>1. PICK what \in Operations : At("worker", what) /\ Then("worker", Script(what))
    BY DEF Operate
  <1>2. Follows(what, Script(what))
    BY ScriptFollows, FollowsNothing DEF Script, Operations
  <1>3. Still /\ UNCHANGED making /\ handle' = handle /\ guests' = guests
    BY StillSteps DEF Operate, process, memory, disk
  <1>4. up = "serving" /\ R = {} /\ R' = {} /\ what \in W
    BY <1>1, <1>2, WorkerHas, WorkerGoesOn
  <1>5. PICK rest \in SUBSET After(what) :
          /\ W = {what} \cup rest
          /\ \/ W' = StepsOf(Script(what)) \cup rest
             \/ StepsOf(Script(what)) = {} /\ rest = {} /\ W' \subseteq Rests
    BY <1>1, <1>2, WorkerHas, WorkerGoesOn
  <1>6. rest \subseteq (IF what = "hibernate" THEN {"move", "moved"} ELSE {})
    BY AfterValues DEF Operations, Last
  <1>7. LET steps == StepsOf(Script(what)) IN
         \/ steps = {} /\ (what = "hibernate" => runtime = Nowhere)
         \/ /\ runtime = "gvisor" /\ handle = "none" /\ what = "wake"
            /\ steps = {"save", "first", "stage", "record", "start"}
         \/ /\ runtime = "gvisor" /\ what \in {"hibernate", "reset", "checkpoint"}
            /\ \/ what = "hibernate" /\ steps = {"halt", "close", "save"}
               \/ what = "checkpoint" /\ handle # "none" /\ steps = {"capture", "publish"}
               \/ /\ what = "reset"
                  /\ steps = {"halt", "close", "save", "first", "wipe", "answer"}
         \/ /\ runtime = "simple" /\ what \in {"wake", "hibernate", "reset"}
            /\ \/ what = "wake" /\ steps = {"plant", "end", "boot", "note"}
               \/ what = "hibernate" /\ steps = {"end", "unnote"}
               \/ /\ what = "reset"
                  /\ steps = {"end", "unnote", "plant", "out", "in", "pin", "discard",
                              "answer"}
    BY ScriptSteps
  <1>8. what # "hibernate" => rest = {}
    BY <1>6
  <1>9. runtime = Nowhere => "moved" \notin W
    BY DEF WriterInv, Shapes
  <1>10. /\ "move" \in rest \/ "moved" \notin rest
         /\ runtime = "gvisor" /\ what = "hibernate" => "save" \in StepsOf(Script(what))
    BY <1>4, <1>5, <1>7, <1>8 DEF WriterInv, Orders, Nowhere
  <1> USE <1>3, <1>4, <1>5, <1>6, <1>7, <1>9, <1>10, StillViews DEF LatestInv, Operations
  <1>11. Stored'
    BY DEF Stored, Saving, Still, StillDisk, Rests
  <1>12. Used'
    BY DEF Used, Still, StillDisk, GvisorRuns, SimpleRuns, Rests
  <1>13. Found'
    BY DEF Found, Still, StillDisk, Rests
  <1>14. Moves'
    BY DEF Moves, Still, StillDisk, making, Copying, Rests
  <1>15. Moments'
    BY DEF Moments, Still, StillDisk, making, Rests
  <1> QED
    BY <1>11, <1>12, <1>13, <1>14, <1>15

LEMMA LatestSettle ==
  ASSUME Typed, WriterInv, LatestInv, Completes, Settle
  PROVE  LatestInv'
  <1>1. /\ Still /\ UNCHANGED making /\ handle' = handle /\ guests' = guests
        /\ At("worker", "settle")
    BY StillSteps DEF Settle, process, memory, disk
  <1>2. CASE Done("worker")
    BY <1>1, <1>2, LatestEnds DEF LatestInv, Used
  <1>3. CASE handle = "none" /\ Then("worker", <<"hibernate", "move", "moved">>)
    <2>1. up = "serving" /\ R = {} /\ R' = {} /\ W = {"settle"} /\ W' = {"hibernate", "move", "moved"}
      BY <1>1, <1>3, WorkerHas, MoveFollows, WorkerGoesOn, AfterValues DEF Last
    <2> USE <1>1, <2>1, StillViews DEF LatestInv
    <2>2. Stored' /\ Used'
      BY DEF Stored, Used, Saving, Still, StillDisk, GvisorRuns, SimpleRuns
    <2>3. Found' /\ Moves' /\ Moments'
      BY DEF Found, Moves, Moments, Still, StillDisk, Copying
    <2> QED
      BY <2>2, <2>3
  <1> QED
    BY <1>2, <1>3 DEF Settle

LEMMA LatestMove ==
  ASSUME Typed, WriterInv, LatestInv, Move
  PROVE  LatestInv'
  <1>1. /\ Still /\ UNCHANGED making /\ handle' = handle /\ guests' = guests
        /\ At("worker", "move")
    BY StillSteps DEF Move, process, memory, disk
  <1>2. /\ up = "serving" /\ R = {} /\ W = {"move", "moved"} /\ handle = "none"
        /\ runtime # Nowhere
    BY <1>1, WorkerHas, AfterValues DEF WriterInv, Orders, Shapes
  <1>3. PICK more :
          /\ Follows("move", more) /\ Then("worker", more)
          /\ \/ /\ runtime = "gvisor" /\ HasCurrent
                /\ StepsOf(more) = {"mount", "copySystem", "copyHome", "raze", "build", "clear",
                                    "dropCurrent", "dropGenerations"}
             \/ /\ runtime = "simple" /\ OnSimple
                /\ StepsOf(more) = {"make", "publish", "dropRecord", "dropTree"}
             \/ /\ ~(runtime = "gvisor" /\ HasCurrent) /\ ~(runtime = "simple" /\ OnSimple)
                /\ StepsOf(more) = {}
    BY MoveFollows, FollowsNothing DEF Move
  <1>4. R' = {} /\ W' = StepsOf(more) \cup {"moved"}
    BY <1>1, <1>2, <1>3, WorkerHas, WorkerGoesOn, AfterValues
  <1> USE <1>1, <1>2, <1>3, <1>4, StillViews DEF LatestInv
  <1>5. Stored'
    BY DEF Stored, Saving, Still, StillDisk
  <1>6. Used'
    BY DEF Used, Still, StillDisk, GvisorRuns, SimpleRuns
  <1>7. Found' /\ Moments'
    BY DEF Found, Moments, Still, StillDisk
  <1>8. Moves'
    BY DEF Moves, Still, StillDisk, Copying
  <1> QED
    BY <1>5, <1>6, <1>7, <1>8

LEMMA LatestMoved ==
  ASSUME Typed, WriterInv, LatestInv, Moved
  PROVE  LatestInv'
  <1>1. /\ StillDisk /\ UNCHANGED making /\ handle' = handle /\ guests' = guests
        /\ At("worker", "moved") /\ Then("worker", <<"settle">>) /\ runtime' = Other(runtime)
    BY StillSteps DEF Moved, process, disk
  <1>2. /\ up = "serving" /\ R = {} /\ W = {"moved"} /\ handle = "none"
        /\ \/ runtime = "gvisor" /\ runtime' = "simple"
           \/ runtime = "simple" /\ runtime' = "gvisor"
    <2>1. up = "serving" /\ R = {} /\ W = {"moved"}
      BY <1>1, WorkerHas, AfterValues DEF Last
    <2>2. handle = "none" /\ runtime \in {"gvisor", "simple"}
      BY <2>1 DEF WriterInv, Shapes, Typed, MemoryOK, Runtimes
    <2> QED
      BY <1>1, <2>1, <2>2 DEF Other
  <1>3. R' = {} /\ W' = {"settle"}
    BY <1>1, <1>2, WorkerHas, WorkerGoesOn, StepFollows, AfterValues DEF Last
  <1>4. /\ runtime = "gvisor" => ~HasCurrent
        /\ runtime = "simple" => ~OnSimple
    BY <1>2 DEF WriterInv, Places, LatestInv, Moves
  <1>5. ~Whole
    BY <1>2 DEF WriterInv, Places, HasWorking, Whole, NoWorking
  <1> USE <1>1, <1>2, <1>3, <1>4, <1>5, StillViews DEF LatestInv
  <1>6. Stored'
    BY DEF Stored, Saving, StillDisk
  <1>7. Used'
    BY DEF Used, StillDisk, GvisorRuns, SimpleRuns, Nowhere
  <1>8. Found' /\ Moves' /\ Moments'
    BY DEF Found, Moves, Moments, StillDisk, Copying
  <1> QED
    BY <1>6, <1>7, <1>8

LEMMA LatestPick ==
  ASSUME Typed, WriterInv, LatestInv, Pick
  PROVE  LatestInv'
  <1>1. /\ StillDisk /\ UNCHANGED making /\ handle' = handle /\ guests' = guests
        /\ At("worker", "pick")
    BY StillSteps DEF Pick, process, disk
  <1>2. up = "serving" /\ R = {} /\ "pick" \in W /\ Later \subseteq Rests
    BY <1>1, WorkerHas
  <1>3. PICK more :
          /\ Follows("pick", more) /\ Then("worker", more)
          /\ \/ StepsOf(more) = {} /\ runtime # Nowhere /\ runtime' = runtime
             \/ /\ StepsOf(more) = {} /\ runtime = Nowhere /\ runtime' # Nowhere
                /\ runtime' = "gvisor" => ~OnSimple
                /\ runtime' = "simple" => ~OnGvisor
             \/ /\ runtime = Nowhere /\ runtime' = runtime /\ OnSimple /\ newer = "simple"
                /\ StepsOf(more) = {"clear", "dropCurrent", "dropGenerations", "pick"}
             \/ /\ runtime = Nowhere /\ runtime' = runtime /\ OnGvisor /\ newer # "simple"
                /\ StepsOf(more) = {"dropRecord", "dropTree", "pick"}
    BY MoveFollows, FollowsNothing DEF Pick, Typed, MemoryOK, Runtimes, Nowhere
  <1>4. PICK rest \in SUBSET After("pick") :
          /\ R' = {} /\ W = {"pick"} \cup rest
          /\ W' = StepsOf(more) \cup rest \/ (StepsOf(more) = {} /\ rest = {} /\ W' \subseteq Rests)
    BY <1>1, <1>2, <1>3, WorkerHas, WorkerGoesOn
  <1>5. rest \subseteq {"wake", "hibernate", "checkpoint", "reset", "settle"}
    BY <1>4, AfterValues
  <1>6. /\ OnGvisor => HasCurrent
        /\ runtime = Nowhere => ~Whole /\ handle = "none"
        /\ HasCurrent /\ newer # "simple" => Newest
    BY <1>2 DEF OnGvisor, WriterInv, Places, Phases, LatestInv, Used, Whole, Typed, DiskOK, Runtimes
  <1>7. HasCurrent => OnGvisor
    BY DEF OnGvisor
  <1> USE <1>1, <1>2, <1>3, <1>4, <1>5, <1>6, <1>7, StillViews DEF LatestInv, Rests
  <1>8. Stored'
    BY DEF Stored, Saving, StillDisk
  <1>9. Used'
    BY DEF Used, StillDisk, GvisorRuns, SimpleRuns
  <1>10. Found' /\ Moments'
    BY DEF Found, Moments, StillDisk
  <1>11. Moves'
    BY DEF Moves, StillDisk, Copying, Nowhere
  <1> QED
    BY <1>8, <1>9, <1>10, <1>11

-----------------------------------------------------------------------------
(* The steps of a gVisor device. *)

\* What the volumes hold now is a pair of one moment.
LEMMA LivePair ==
  ASSUME Typed
  PROVE  /\ live = [system |-> live.system, home |-> live.home]
         /\ [system |-> live.system, home |-> live.home] \in moments
         /\ live.system \in 0 .. MaxWrites /\ live.home \in 0 .. MaxWrites
         /\ asked \in Nat /\ answered \in Nat /\ op \in Nat /\ Absent = -1
  <1>1. live \in [system : 0 .. MaxWrites, home : 0 .. MaxWrites] /\ live \in moments
    BY DEF Typed, GhostsOK
  <1>2. live = [system |-> live.system, home |-> live.home]
    BY <1>1
  <1> QED
    BY <1>1, <1>2 DEF Typed, GhostsOK, MemoryOK, Absent

\* What follows from a whole working pair.
LEMMA WholeHas ==
  ASSUME WriterInv, Whole
  PROVE  HasWorking /\ HasCurrent /\ runtime # "simple" /\ ~SimpleRuns
  BY DEF Whole, HasWorking, NoWorking, WriterInv, Places, Running

LEMMA LatestSave ==
  ASSUME Typed, WriterInv, LatestInv, Completes, Save("worker")
  PROVE  LatestInv'
  <1>1. /\ At("worker", "save")
        /\ UNCHANGED <<up, op, runtime, handle, working, tree, guests, live, moments, asked, answered>>
    BY DEF Save, process, memory, ghosts
  <1>2. /\ up = "serving" /\ R = {} /\ "save" \in W /\ runtime = "gvisor"
    BY <1>1, WorkerHas DEF GvisorSteps
  <1>3. CASE Fail("worker") /\ UNCHANGED <<current, newer>>
    <2>1. Still
      BY <1>1, <1>3, StillSteps DEF ghosts, Still, StillDisk
    <2> QED
      BY <1>1, <1>2, <1>3, <2>1, LatestEnds DEF LatestInv, Used
  <1>4. CASE working.manifest = Absent /\ Then("worker", <<>>) /\ UNCHANGED <<making, current, newer>>
    <2>1. Still
      BY <1>1, <1>4 DEF ghosts, Still, StillDisk
    <2>2. PICK rest \in SUBSET After("save") :
            /\ R' = {} /\ W = {"save"} \cup rest
            /\ W' = rest \/ (rest = {} /\ W' \subseteq Rests)
      BY <1>1, <1>4, WorkerDoes
    <2> USE <1>1, <1>2, <1>4, <2>1, <2>2, StillViews DEF LatestInv, Rests
    <2>3. "clear" \notin W'
      BY AfterValues
    <2>4. Stored'
      BY <2>3 DEF Stored, Saving, Still, StillDisk
    <2>5. Used'
      BY <2>3 DEF Used, Still, StillDisk, GvisorRuns, SimpleRuns
    <2>6. Found'
      BY DEF Found, Still, StillDisk, GvisorSteps, WriterInv, Shapes
    <2>7. Moves' /\ Moments'
      BY DEF Moves, Moments, Still, StillDisk, Copying, making
    <2> QED
      BY <2>4, <2>5, <2>6, <2>7
  <1>5. CASE /\ handle = "none" /\ Whole /\ Then("worker", <<"clear">>) /\ UNCHANGED making
             /\ current' = [system |-> working.system, home |-> working.home,
                            reset |-> working.manifest]
             /\ newer' = "gvisor"
    <2>1. PICK rest \in SUBSET After("save") :
            R' = {} /\ W = {"save"} \cup rest /\ W' = {"clear"} \cup rest
      <3>1. Follows("save", <<"clear">>) /\ StepsOf(<<"clear">>) = {"clear"}
        BY StepFollows
      <3> QED
        BY <1>1, <1>2, <1>5, <3>1, WorkerHas, WorkerGoesOn
    <2>2. /\ HasWorking /\ HasCurrent /\ ~SimpleRuns /\ LatestWorking
          /\ working.system # Absent
      BY <1>5, WholeHas DEF LatestInv, Stored, Whole
    <2>3. /\ HasCurrent' /\ Newest' /\ LatestPair' /\ LatestWorking' /\ Whole' = Whole
          /\ OnSimple' = OnSimple /\ ~SimpleRuns'
      BY <1>1, <1>5, <2>2 DEF NoPair, LatestPair, LatestWorking, Recent, Whole, OnSimple, SimpleRuns
    <2>4. W' \cap Copying = {} /\ "dropCurrent" \notin W /\ "pick" \notin W
      <3>1. W \cap Copying = {} /\ "pick" \notin W
        BY <2>1 DEF LatestInv, Moves, Copying, WriterInv, Shapes, PickSteps
      <3>2. "dropCurrent" \notin W
        BY <2>1, <3>1 DEF LatestInv, Moves, Copying, WriterInv, Shapes
      <3> QED
        BY <2>1, <3>1, <3>2 DEF Copying
    <2> USE <1>1, <1>2, <1>5, <2>1, <2>2, <2>3, <2>4 DEF LatestInv
    <2>5. Stored' /\ Used'
      BY DEF Stored, Used, Nowhere
    <2>6. Found'
      BY DEF Found
    <2>7. Moves'
      BY DEF Moves, WriterInv, Shapes
    <2>8. Moments'
      BY LivePair DEF Moments, LatestPair, WriterInv, Shapes
    <2> QED
      BY <2>5, <2>6, <2>7, <2>8
  <1> QED
    BY <1>1, <1>3, <1>4, <1>5 DEF Save

LEMMA ClearedWorking ==
  ASSUME Typed, NEW file \in {"manifest", "system", "home"},
         working' = [working EXCEPT ![file] = Absent]
  PROVE  ~Whole' /\ (working.manifest = Absent => working'.manifest = Absent)
  BY DEF Typed, DiskOK, Workings, Whole

LEMMA LatestClear ==
  ASSUME Typed, WriterInv, LatestInv, Clear("worker")
  PROVE  LatestInv'
  <1>1. /\ At("worker", "clear")
        /\ UNCHANGED <<up, op, runtime, handle, current, newer, tree, guests, making, live,
                       moments, asked, answered>>
        /\ HasCurrent' = HasCurrent /\ Newest' = Newest /\ OnSimple' = OnSimple
        /\ LatestPair' = LatestPair /\ LatestTree' = LatestTree
    BY DEF Clear, process, memory, ghosts, OnSimple, LatestPair, LatestTree, Recent
  <1>2. /\ up = "serving" /\ R = {} /\ "clear" \in W /\ ~GvisorRuns
    BY <1>1, WorkerHas DEF WriterInv, Running
  <1>3. ASSUME NEW file \in {"manifest", "system", "home"},
               working' = [working EXCEPT ![file] = Absent], UNCHANGED todo
        PROVE  LatestInv'
    <2>1. W' = W /\ R' = R
      BY <1>3 DEF W, R, Ahead
    <2>2. ~Whole' /\ (working.manifest = Absent => working'.manifest = Absent)
      BY <1>3, ClearedWorking
    <2>3. "dropCurrent" \in W => ~Whole
      <3>1. CASE "moved" \in W
        <4>1. runtime = "gvisor"
          BY <1>2, <3>1 DEF WriterInv, Shapes, Typed, MemoryOK, Runtimes
        <4> QED
          BY <1>2, <3>1, <4>1 DEF LatestInv, Moves, Copying, Whole
      <3>2. CASE runtime = Nowhere
        BY <1>2, <3>2 DEF LatestInv, Used, Whole
      <3> QED
        BY <3>1, <3>2 DEF WriterInv, Shapes
    <2>4. W \cap {"start", "record"} # {} => "stage" \in W
      BY <1>2 DEF LatestInv, Found
    <2>5. "abort" \notin W
      BY <1>2 DEF WriterInv, Shapes
    <2> USE <1>1, <1>2, <2>1, <2>2, <2>3, <2>4, <2>5 DEF LatestInv
    <2>6. Stored'
      BY DEF Stored, Saving
    <2>7. Used'
      BY DEF Used, GvisorRuns, SimpleRuns, Stored, Saving
    <2>8. Found'
      BY DEF Found
    <2>9. Moves' /\ Moments'
      BY DEF Moves, Moments, making
    <2> QED
      BY <2>6, <2>7, <2>8, <2>9
  <1>4. CASE working' = [working EXCEPT !.boot = FALSE] /\ UNCHANGED todo
    <2>1. W' = W /\ R' = R
      BY <1>4 DEF W, R, Ahead
    <2>2. Still
      BY <1>1, <1>4, StillSteps DEF ghosts, Still, StillDisk, Clear
    <2> USE <1>1, <1>2, <2>1, <2>2, StillViews DEF LatestInv
    <2>3. Stored' /\ Used'
      BY DEF Stored, Used, Saving, Still, StillDisk, GvisorRuns, SimpleRuns
    <2>4. Found'
      BY DEF Found, Still, StillDisk
    <2>5. Moves' /\ Moments'
      BY DEF Moves, Moments, Still, StillDisk, making
    <2> QED
      BY <2>3, <2>4, <2>5
  <1>5. CASE ~HasWorking /\ Then("worker", <<>>) /\ UNCHANGED working
    <2>1. Still /\ ~Whole /\ working.manifest = Absent
      BY <1>1, <1>5 DEF Still, StillDisk, HasWorking, NoWorking, Whole
    <2>2. PICK rest \in SUBSET After("clear") :
            /\ R' = {} /\ W = {"clear"} \cup rest
            /\ W' = rest \/ (rest = {} /\ W' \subseteq Rests)
      BY <1>1, <1>5, WorkerDoes
    <2>3. "clear" \notin W'
      BY <2>2, AfterValues DEF Rests
    <2> USE <1>1, <1>2, <2>1, <2>2, <2>3, StillViews DEF LatestInv, Rests
    <2>4. Stored'
      BY DEF Stored, Saving, Still, StillDisk
    <2>5. Used'
      BY DEF Used, Still, StillDisk, GvisorRuns, SimpleRuns
    <2>6. Found'
      BY DEF Found, Still, StillDisk, WriterInv, Shapes
    <2>7. Moves' /\ Moments'
      BY DEF Moves, Moments, Still, StillDisk, Copying, making
    <2> QED
      BY <2>4, <2>5, <2>6, <2>7
  <1> QED
    BY <1>3, <1>4, <1>5 DEF Clear

LEMMA LatestFirst ==
  ASSUME Typed, WriterInv, LatestInv, First
  PROVE  LatestInv'
  <1>1. /\ At("worker", "first") /\ Then("worker", <<>>)
        /\ UNCHANGED <<up, op, runtime, handle, working, tree, guests, making, live,
                       moments, asked, answered>>
    BY DEF First, process, memory, ghosts
  <1>2. /\ up = "serving" /\ R = {} /\ "first" \in W /\ runtime = "gvisor"
    BY <1>1, WorkerHas DEF GvisorSteps
  <1>3. PICK rest \in SUBSET After("first") :
          /\ R' = {} /\ W = {"first"} \cup rest
          /\ W' = rest \/ (rest = {} /\ W' \subseteq Rests)
    BY <1>1, WorkerDoes
  <1>4. "moved" \notin W /\ "publish" \notin W /\ "abort" \notin W
    BY <1>2 DEF WriterInv, Shapes, MoveSteps, Copying
  <1>5. W \cap (Copying \cup {"dropCurrent", "dropRecord", "dropTree", "make", "in", "out", "pin"}) = {}
    BY <1>2, <1>4 DEF WriterInv, Shapes, Orders, SimpleSteps, PickSteps
  <1>6. W' \cap (Copying \cup {"dropCurrent", "dropRecord", "dropTree", "make", "moved", "publish"}) = {}
    BY <1>3, <1>4, <1>5 DEF Copying, Rests
  <1>7. CASE HasCurrent
    <2>1. Still
      BY <1>1, <1>7 DEF First, Still, StillDisk
    <2> USE <1>1, <1>2, <1>3, <1>4, <1>5, <1>7, <2>1, StillViews DEF LatestInv, Rests
    <2>2. Stored' /\ Used'
      BY DEF Stored, Used, Saving, Still, StillDisk, GvisorRuns, SimpleRuns
    <2>3. Found'
      BY DEF Found, Still, StillDisk
    <2>4. Moves' /\ Moments'
      BY <1>6 DEF Moves, Moments, Still, StillDisk, making
    <2> QED
      BY <2>2, <2>3, <2>4
  <1>8. CASE ~HasCurrent
    <2>1. ~OnSimple /\ live = [system |-> 0, home |-> 0] /\ answered = 0
      BY <1>2, <1>8 DEF LatestInv, Used, Stored
    <2>2. ~HasWorking /\ ~Whole /\ ~SimpleRuns /\ ~GvisorRuns
      BY <1>8, <2>1, WholeHas DEF WriterInv, Places, Running, LatestInv, Used
    <2>3. current' = [system |-> 0, home |-> 0, reset |-> 0] /\ newer' = "gvisor"
      BY <1>8 DEF First
    <2>4. asked' >= 0 /\ live.system = 0 /\ live.home = 0
      BY <1>1, <2>1, LivePair
    <2>5. /\ HasCurrent' /\ Newest' /\ ~Whole' /\ ~OnSimple' /\ ~SimpleRuns' /\ ~GvisorRuns'
          /\ LatestPair'
      BY <1>1, <2>1, <2>2, <2>3, <2>4 DEF NoPair, Whole, OnSimple, SimpleRuns, GvisorRuns, LatestPair,
         Recent, Absent
    <2>6. (handle = "none" /\ "answer" \notin W) \/ W \cap {"wipe", "pin"} # {}
      BY <1>2, <1>8, <2>2 DEF LatestInv, Used, Found
    <2> USE <1>1, <1>2, <1>3, <1>4, <1>5, <1>8, <2>2, <2>5, <2>6 DEF LatestInv, Rests
    <2>7. Stored' /\ Used'
      BY DEF Stored, Used
    <2>8. Found'
      BY DEF Found, Used
    <2>9. Moves' /\ Moments'
      BY <1>6, <2>3, <2>4, LivePair DEF Moves, Moments
    <2> QED
      BY <2>7, <2>8, <2>9
  <1> QED
    BY <1>7, <1>8

LEMMA LatestStage ==
  ASSUME Typed, WriterInv, LatestInv, Completes, StageWorking
  PROVE  LatestInv'
  <1>1. /\ At("worker", "stage")
        /\ UNCHANGED <<up, op, runtime, handle, current, newer, tree, guests, live,
                       moments, asked, answered>>
    BY DEF StageWorking, process, memory, ghosts
  <1>2. /\ up = "serving" /\ R = {} /\ "stage" \in W /\ runtime = "gvisor"
    BY <1>1, WorkerHas DEF GvisorSteps
  <1>3. CASE Fail("worker") /\ UNCHANGED working
    <2>1. Still
      BY <1>1, <1>3 DEF Still, StillDisk
    <2> QED
      BY <1>1, <1>3, <2>1, LatestEnds DEF LatestInv, Used
  <1>4. CASE /\ ~HasWorking /\ Then("worker", <<>>) /\ UNCHANGED making
             /\ working' = [manifest |-> current.reset, system |-> current.system,
                            home |-> current.home, boot |-> FALSE]
    <2>1. PICK rest \in SUBSET After("stage") :
            /\ R' = {} /\ W = {"stage"} \cup rest
            /\ W' = rest \/ (rest = {} /\ W' \subseteq Rests)
      BY <1>1, <1>4, WorkerDoes
    <2>2. /\ W \subseteq {"stage", "record", "start"} /\ HasCurrent /\ ~Whole
          /\ W' \subseteq {"record", "start"} \cup Rests /\ "start" \in W'
      <3>1. rest \cap {"save", "clear", "first", "stage"} = {}
        BY <2>1, AfterValues
      <3>2. "start" \in W
        BY <1>2 DEF LatestInv, Found
      <3> QED
        BY <1>4, <2>1, <3>1, <3>2 DEF LatestInv, Found, WriterInv, Shapes, Whole, HasWorking, NoWorking
    <2>3. LatestPair /\ ~GvisorRuns /\ ~SimpleRuns
      BY <1>2, <2>2 DEF LatestInv, Stored, Used
    <2>4. /\ current.reset # Absent /\ current.system # Absent /\ current.home # Absent
          /\ current.reset \in Int
      BY <2>3, LivePair DEF LatestPair, Recent, Typed, DiskOK, Pairs, Ids
    <2>5. /\ HasCurrent' /\ Whole' /\ ~SimpleRuns' /\ OnSimple' = OnSimple /\ Newest' = Newest
          /\ LatestWorking'
      BY <1>1, <1>4, <2>2, <2>3, <2>4 DEF Whole, OnSimple, SimpleRuns, LatestPair, LatestWorking, Recent
    <2> USE <1>1, <1>2, <1>4, <2>1, <2>2, <2>3, <2>5 DEF LatestInv, Rests
    <2>6. Stored' /\ Used'
      BY DEF Stored, Used, Saving, Nowhere
    <2>7. Found'
      BY DEF Found
    <2>8. Moves' /\ Moments'
      BY DEF Moves, Moments, Copying
    <2> QED
      BY <2>6, <2>7, <2>8
  <1> QED
    BY <1>1, <1>3, <1>4 DEF StageWorking

LEMMA LatestCapture ==
  ASSUME Typed, WriterInv, LatestInv, Completes, Capture
  PROVE  LatestInv'
  <1>1. At("worker", "capture") /\ Still /\ handle' = handle /\ guests' = guests
    BY DEF Capture, process, memory, disk, ghosts, Still, StillDisk
  <1>2. /\ up = "serving" /\ R = {} /\ "capture" \in W /\ runtime = "gvisor"
    BY <1>1, WorkerHas DEF GvisorSteps
  <1>3. /\ W = {"capture", "publish"} /\ Whole /\ handle # "none"
        /\ (GvisorRuns => Whole) /\ ~SimpleRuns
    BY <1>2, WholeHas DEF LatestInv, Found, WriterInv, Shapes, Used
  <1>4. CASE Fail("worker")
    BY <1>1, <1>3, <1>4, LatestEnds
  <1>5. CASE todo' = [todo EXCEPT !.worker[1] = <<"halt", "close">>]
    <2>1. /\ <<"halt", "close">> \in Program /\ Ordered(<<"halt", "close">>)
          /\ StepsOf(<<"halt", "close">>) = {"halt", "close"}
      BY AfterValues, OrderedShort DEF Program, StepsOf, Steps, Free, Last
    <2> QED
      BY <1>1, <1>3, <1>5, <2>1, LatestTurns DEF GvisorRuns, SimpleRuns
  <1>6. CASE /\ Then("worker", <<>>) /\ stage' = "held"
             /\ staged' = [system |-> working.system, home |-> working.home,
                           reset |-> working.manifest]
    <2>1. PICK rest \in SUBSET After("capture") :
            /\ R' = {} /\ W = {"capture"} \cup rest
            /\ W' = rest \/ (rest = {} /\ W' \subseteq Rests)
      BY <1>1, <1>6, WorkerDoes
    <2>2. W' \subseteq {"capture", "publish"} /\ "publish" \in W' /\ LatestWorking
      BY <1>3, <2>1 DEF LatestInv, Stored
    <2>3. HasCurrent
      BY <1>3, WholeHas
    <2> USE <1>1, <1>2, <1>3, <2>1, <2>2, <2>3, StillViews DEF LatestInv
    <2>4. Stored' /\ Used'
      BY DEF Stored, Used, Saving, Still, StillDisk, GvisorRuns, SimpleRuns
    <2>5. Found'
      BY DEF Found, Still, StillDisk
    <2>6. Moves'
      BY DEF Moves, Still, StillDisk, Copying
    <2>7. Moments'
      BY <1>6, LivePair DEF Moments, Still, StillDisk, LatestWorking
    <2> QED
      BY <2>4, <2>5, <2>6, <2>7
  <1> QED
    BY <1>1, <1>4, <1>5, <1>6 DEF Capture

LEMMA LatestPublish ==
  ASSUME Typed, WriterInv, LatestInv, Completes, Publish
  PROVE  LatestInv'
  <1>1. /\ At("worker", "publish")
        /\ UNCHANGED <<up, op, runtime, handle, working, tree, guests, live,
                       moments, asked, answered>>
    BY DEF Publish, process, memory, ghosts
  <1>2. /\ up = "serving" /\ R = {} /\ "publish" \in W
        /\ OnSimple' = OnSimple /\ Whole' = Whole /\ LatestWorking' = LatestWorking
    BY <1>1, WorkerHas DEF OnSimple, Whole, LatestWorking, Recent
  <1>3. CASE Fail("worker") /\ UNCHANGED <<current, newer>>
    <2>1. Still
      BY <1>1, <1>3 DEF Still, StillDisk
    <2> QED
      BY <1>1, <1>3, <2>1, LatestEnds DEF LatestInv, Used
  <1>4. CASE /\ stage = "held" /\ current' = staged /\ newer' = "gvisor"
             /\ stage' = "none" /\ staged' = NoPair /\ Then("worker", <<>>)
    <2>1. PICK rest \in SUBSET After("publish") :
            /\ R' = {} /\ W = {"publish"} \cup rest
            /\ W' = rest \/ (rest = {} /\ W' \subseteq Rests)
      BY <1>1, <1>4, WorkerDoes
    <2>2. rest \subseteq {"dropRecord", "dropTree", "moved"}
      BY <2>1, AfterValues
    <2>3. HasCurrent' /\ Newest'
      BY <1>2, <1>4, <2>1, <2>2 DEF WriterInv, Places, StagedNone
    <2>4. CASE runtime = "gvisor"
      <3>1. rest = {} /\ handle # "none" /\ Whole /\ ~SimpleRuns
        BY <1>2, <2>1, <2>2, <2>4, WholeHas DEF WriterInv, Shapes, LatestInv, Found, Used
      <3> USE <1>1, <1>2, <1>4, <2>1, <2>3, <2>4, <3>1 DEF LatestInv, Rests
      <3>2. Stored' /\ Used'
        BY DEF Stored, Used, Saving, GvisorRuns, SimpleRuns
      <3>3. Found' /\ Moves' /\ Moments'
        BY DEF Found, Moves, Moments, Copying
      <3> QED
        BY <3>2, <3>3
    <2>5. CASE runtime = "simple" /\ "moved" \in W
      <3>1. /\ W' = rest /\ "dropRecord" \in W' /\ "moved" \in W' /\ OnSimple
            /\ tree.system # Absent
            /\ current' = [system |-> tree.system, home |-> tree.home, reset |-> tree.record]
        BY <1>2, <1>4, <2>1, <2>2, <2>5 DEF LatestInv, Moves
      <3>2. ~HasCurrent /\ ~Whole /\ ~SimpleRuns
        BY <1>2, <2>1, <2>2, <2>5, WholeHas DEF LatestInv, Used, WriterInv, Running
      <3>3. handle = "none" /\ ~GvisorRuns
        BY <2>5, <3>2 DEF WriterInv, Shapes, LatestInv, Used
      <3>4. LatestTree
        BY <3>1, <3>2 DEF LatestInv, Stored
      <3>5. LatestPair'
        BY <1>1, <3>1, <3>4 DEF LatestTree, LatestPair, Recent
      <3> USE <1>1, <1>2, <1>4, <2>1, <2>2, <2>3, <2>5, <3>1, <3>2, <3>3, <3>5 DEF LatestInv
      <3>6. Stored' /\ Used'
        BY DEF Stored, Used, Saving, GvisorRuns, SimpleRuns
      <3>7. Found' /\ Moves'
        BY DEF Found, Moves, Copying
      <3>8. Moments'
        BY <3>4, LivePair DEF Moments, LatestTree
      <3> QED
        BY <3>6, <3>7, <3>8
    <2> QED
      BY <1>2, <2>4, <2>5 DEF WriterInv, Shapes
  <1> QED
    BY <1>1, <1>3, <1>4 DEF Publish

LEMMA LatestWipe ==
  ASSUME Typed, WriterInv, LatestInv, Wipe
  PROVE  LatestInv'
  <1>1. /\ At("worker", "wipe") /\ Then("worker", <<>>)
        /\ UNCHANGED <<up, op, runtime, handle, working, tree, guests, making, asked, answered>>
    BY DEF Wipe, WipeSystem, process, memory, ghosts
  <1>2. /\ up = "serving" /\ R = {} /\ "wipe" \in W /\ runtime = "gvisor"
        /\ OnSimple' = OnSimple /\ Whole' = Whole
    BY <1>1, WorkerHas DEF GvisorSteps, OnSimple, Whole
  <1>3. PICK rest \in SUBSET After("wipe") :
          /\ R' = {} /\ W = {"wipe"} \cup rest
          /\ W' = rest \/ (rest = {} /\ W' \subseteq Rests)
    BY <1>1, WorkerDoes
  <1>4. rest \subseteq {"answer"}
    BY <1>3, AfterValues
  <1>5. ~Whole /\ HasCurrent /\ op = asked /\ ~GvisorRuns /\ handle = "none" /\ ~SimpleRuns
    BY <1>2, <1>3, <1>4 DEF LatestInv, Found, Used, Whole
  <1>6. LatestPair /\ answered <= asked
    BY <1>2, <1>5, LivePair DEF LatestInv, Stored, LatestPair, Recent, Typed, DiskOK, Pairs, Ids
  <1>7. /\ HasCurrent' /\ LatestPair' /\ current'.reset = op
        /\ Newest' \/ (UNCHANGED <<current, newer, live>>)
        /\ [system |-> current'.system, home |-> current'.home] \in moments'
        /\ LatestTree' = LatestTree \/ Newest'
    <2>1. CASE current.reset = op
      <3>1. UNCHANGED <<current, newer, live, moments>>
        BY <2>1 DEF Wipe, ghosts
      <3> QED
        BY <1>1, <1>5, <1>6, <2>1, <3>1, LivePair DEF LatestPair, LatestTree, Recent
    <2>2. CASE current.reset # op
      <3>1. /\ current' = [current EXCEPT !.system = 0, !.reset = op] /\ newer' = "gvisor"
            /\ live' = [live EXCEPT !.system = 0]
            /\ moments' = moments \cup {[live EXCEPT !.system = 0]}
        BY <2>2 DEF Wipe, WipeSystem
      <3>2. current'.system = 0 /\ current'.home = current.home /\ current'.reset = op
        BY <3>1 DEF Typed, DiskOK, Pairs
      <3>4. current' # NoPair
        BY <3>2 DEF NoPair, Absent
      <3>3. live'.system = 0 /\ live'.home = live.home /\ [live EXCEPT !.system = 0] = [system |-> 0, home |-> live.home]
        BY <3>1, LivePair
      <3> QED
        BY <1>1, <1>5, <1>6, <3>1, <3>2, <3>3, <3>4, LivePair DEF LatestPair, Recent
    <2> QED
      BY <2>1, <2>2
  <1> USE <1>1, <1>2, <1>3, <1>4, <1>5, <1>6, <1>7 DEF LatestInv, Rests
  <1>8. Stored' /\ Used'
    BY DEF Stored, Used, Saving, GvisorRuns, SimpleRuns
  <1>9. Found'
    BY DEF Found
  <1>10. Moves' /\ Moments'
    BY DEF Moves, Moments, Copying
  <1> QED
    BY <1>8, <1>9, <1>10

LEMMA LatestAnswer ==
  ASSUME Typed, WriterInv, LatestInv, Answer
  PROVE  LatestInv'
  <1>1. /\ At("worker", "answer") /\ Then("worker", <<>>) /\ answered' = op
        /\ UNCHANGED <<up, op, runtime, handle, current, newer, working, tree, guests, making,
                       live, moments, asked>>
        /\ HasCurrent' = HasCurrent /\ Newest' = Newest /\ OnSimple' = OnSimple /\ Whole' = Whole
    BY DEF Answer, process, memory, disk, OnSimple, Whole
  <1>2. up = "serving" /\ R = {} /\ "answer" \in W
    BY <1>1, WorkerHas
  <1>3. W = {"answer"} /\ R' = {} /\ W' \subseteq Rests
    <2>1. PICK rest \in SUBSET After("answer") :
            /\ R' = {} /\ W = {"answer"} \cup rest
            /\ W' = rest \/ (rest = {} /\ W' \subseteq Rests)
      BY <1>1, WorkerDoes
    <2> QED
      BY <2>1, AfterValues DEF Last
  <1>4. op = asked /\ op \in Nat
    BY <1>3, LivePair DEF LatestInv, Found
  <1>5. \/ runtime = "gvisor" /\ ~Whole /\ HasCurrent /\ current.reset = op
        \/ runtime = "simple" /\ OnSimple /\ tree.record = op
    BY <1>3 DEF LatestInv, Found
  <1>6. CASE runtime = "gvisor" /\ ~Whole /\ HasCurrent /\ current.reset = op
    <2>1. LatestPair
      BY <1>6 DEF LatestInv, Stored
    <2>2. LatestPair'
      BY <1>1, <1>4, <1>6, <2>1 DEF LatestPair, Recent
    <2>3. OnSimple /\ ~Newest => LatestTree'
      <3> SUFFICES ASSUME OnSimple, ~Newest PROVE LatestTree'
        OBVIOUS
      <3>1. LatestTree /\ tree.record = op
        BY <1>6 DEF LatestInv, Stored, Used
      <3> QED
        BY <1>1, <1>4, <3>1 DEF LatestTree, Recent
    <2> USE <1>1, <1>2, <1>3, <1>6, <2>1, <2>2, <2>3 DEF LatestInv, Rests
    <2>4. Stored' /\ Used'
      BY DEF Stored, Used, Saving, GvisorRuns, SimpleRuns
    <2>5. Found' /\ Moves' /\ Moments'
      BY DEF Found, Moves, Moments, Copying
    <2> QED
      BY <2>4, <2>5
  <1>7. CASE runtime = "simple" /\ OnSimple /\ tree.record = op
    <2>1. ~Whole /\ ~HasCurrent
      BY <1>3, <1>7, WholeHas DEF LatestInv, Used
    <2>2. LatestTree
      BY <1>7, <2>1 DEF LatestInv, Stored
    <2>3. LatestTree'
      BY <1>1, <1>4, <1>7, <2>2 DEF LatestTree, Recent
    <2> USE <1>1, <1>2, <1>3, <1>7, <2>1, <2>3 DEF LatestInv, Rests
    <2>4. Stored' /\ Used'
      BY DEF Stored, Used, Saving, GvisorRuns, SimpleRuns
    <2>5. Found' /\ Moves' /\ Moments'
      BY DEF Found, Moves, Moments, Copying
    <2> QED
      BY <2>4, <2>5
  <1> QED
    BY <1>5, <1>6, <1>7

-----------------------------------------------------------------------------
(* The steps of a Simple Isolation device. *)

\* What a worker on the tree knows, outside a move.
LEMMA TreeHas ==
  ASSUME Typed, WriterInv, LatestInv, NEW step \in {"plant", "out", "in", "pin"}, step \in W
  PROVE  /\ runtime = "simple" /\ ~HasCurrent /\ ~Whole /\ ~HasWorking /\ ~GvisorRuns
         /\ W \cap ({"moved", "publish", "abort", "start", "stage", "record", "clear", "save", "make",
                     "dropCurrent", "dropRecord", "dropTree", "wipe", "capture"} \cup Copying) = {}
         /\ OnSimple => LatestTree
  <1>1. runtime = "simple"
    BY DEF WriterInv, Shapes, SimpleSteps
  <1>2. ~HasCurrent /\ ~Whole /\ ~HasWorking
    BY <1>1, WholeHas DEF LatestInv, Used, WriterInv, Places
  <1>3. "moved" \notin W
    BY DEF WriterInv, Shapes, MoveSteps, Copying
  <1>4. W \cap ({"moved", "publish", "abort", "start", "stage", "record", "clear", "save", "make",
                     "dropCurrent", "dropRecord", "dropTree", "wipe", "capture"} \cup Copying) = {}
    BY <1>1, <1>3 DEF WriterInv, Shapes, Orders, GvisorSteps, Copying, PickSteps
  <1> QED
    BY <1>1, <1>2, <1>4 DEF LatestInv, Stored, Used

LEMMA LatestPlant ==
  ASSUME Typed, WriterInv, LatestInv, Plant
  PROVE  LatestInv'
  <1>1. /\ At("worker", "plant") /\ Then("worker", <<>>)
        /\ UNCHANGED <<up, op, runtime, handle, current, working, guests, making,
                       live, moments, asked, answered>>
        /\ HasCurrent' = HasCurrent /\ Whole' = Whole
    BY DEF Plant, process, memory, ghosts, Whole
  <1>2. up = "serving" /\ R = {} /\ "plant" \in W
    BY <1>1, WorkerHas
  <1>3. PICK rest \in SUBSET After("plant") :
          /\ R' = {} /\ W = {"plant"} \cup rest
          /\ W' = rest \/ (rest = {} /\ W' \subseteq Rests)
    BY <1>1, WorkerDoes
  <1>4. /\ runtime = "simple" /\ ~HasCurrent /\ ~Whole /\ ~HasWorking /\ ~GvisorRuns
        /\ W \cap ({"moved", "publish", "abort", "start", "stage", "record", "clear", "save", "make",
                    "dropCurrent", "dropRecord", "dropTree", "wipe", "capture"} \cup Copying) = {}
        /\ OnSimple => LatestTree
    BY <1>2, TreeHas
  <1>5. W' \cap ({"moved", "publish", "abort", "start", "stage", "record", "clear", "save", "make",
                  "dropCurrent", "dropRecord", "dropTree", "wipe", "capture"} \cup Copying) = {}
    BY <1>3, <1>4 DEF Rests, Copying
  <1>6. OnSimple' /\ LatestTree' /\ (SimpleRuns => tree'.system # Absent)
        /\ (OnSimple => UNCHANGED tree)
    <2>1. CASE OnSimple
      BY <1>1, <1>4, <2>1 DEF Plant, OnSimple, LatestTree, Recent, LatestInv, Used
    <2>2. CASE ~OnSimple
      <3>1. live = [system |-> 0, home |-> 0] /\ answered = 0 /\ ~SimpleRuns
        BY <1>4, <2>2 DEF LatestInv, Stored, WriterInv, Running
      <3>2. tree' = [NoTree EXCEPT !.record = 0, !.system = 0, !.home = 0]
        BY <2>2 DEF Plant
      <3>3. tree'.record = 0 /\ tree'.system = 0 /\ tree'.home = 0
        BY <3>2 DEF NoTree
      <3> QED
        BY <1>1, <2>2, <3>1, <3>3, LivePair DEF OnSimple, LatestTree, Recent
    <2> QED
      BY <2>1, <2>2
  <1>7. ~OnSimple => /\ W \cap {"in", "pin"} = {} \/ "out" \in W
                     /\ "answer" \notin W \/ "pin" \in W
    BY <1>4 DEF LatestInv, Found
  <1> USE <1>1, <1>2, <1>3, <1>4, <1>5, <1>6, <1>7 DEF LatestInv, Rests
  <1>8. Stored' /\ Used'
    BY DEF Stored, Used, Saving, GvisorRuns, SimpleRuns, Nowhere
  <1>9. Found'
    BY DEF Found
  <1>10. Moves' /\ Moments'
    BY DEF Moves, Moments
  <1> QED
    BY <1>8, <1>9, <1>10

LEMMA LatestOut ==
  ASSUME Typed, WriterInv, LatestInv, Completes, Halted, Out
  PROVE  LatestInv'
  <1>1. /\ At("worker", "out")
        /\ UNCHANGED <<up, op, runtime, handle, current, working, newer, guests,
                       live, moments, asked, answered>>
        /\ HasCurrent' = HasCurrent /\ Whole' = Whole /\ Newest' = Newest
    BY DEF Out, process, memory, ghosts, Whole
  <1>2. /\ up = "serving" /\ R = {} /\ "out" \in W
    BY <1>1, WorkerHas
  <1>3. /\ runtime = "simple" /\ ~HasCurrent /\ ~Whole /\ ~HasWorking /\ ~GvisorRuns
        /\ W \cap ({"moved", "publish", "abort", "start", "stage", "record", "clear", "save", "make",
                    "dropCurrent", "dropRecord", "dropTree", "wipe", "capture"} \cup Copying) = {}
        /\ OnSimple => LatestTree
    BY <1>2, TreeHas
  <1>4. PICK rest \in SUBSET {"in", "pin", "discard", "answer"} : W = {"out"} \cup rest
    BY <1>1, WorkerHas, AfterValues
  <1>5. OnSimple /\ op = asked /\ ~SimpleRuns
    BY <1>4 DEF LatestInv, Found, Halted
  <1>6. CASE /\ tree.record = op /\ UNCHANGED <<making, tree>>
             /\ todo' = [todo EXCEPT !.worker[1] = <<"answer">>]
    <2>1. <<"answer">> \in Program /\ Ordered(<<"answer">>) /\ StepsOf(<<"answer">>) = {"answer"}
      BY SoleSteps DEF Steps, Last
    <2>2. R' = {} /\ W' = {"answer"}
      BY <1>1, <1>2, <1>6, <2>1, WorkerTurns DEF Typed
    <2>3. Still
      BY <1>1, <1>6 DEF Still, StillDisk
    <2> USE <1>1, <1>2, <1>3, <1>5, <1>6, <2>2, <2>3, StillViews DEF LatestInv
    <2>4. Stored' /\ Used'
      BY DEF Stored, Used, Saving, Still, StillDisk, GvisorRuns, SimpleRuns, Nowhere
    <2>5. Found' /\ Moves' /\ Moments'
      BY DEF Found, Moves, Moments, Copying, Still, StillDisk
    <2> QED
      BY <2>4, <2>5
  <1>7. CASE Fail("worker") /\ UNCHANGED tree
    <2>1. Still
      BY <1>1, <1>7 DEF Still, StillDisk
    <2> QED
      BY <1>1, <1>3, <1>7, <2>1, LatestEnds
  <1>8. CASE /\ tree.record # op /\ tree.system # Absent /\ Then("worker", <<>>) /\ UNCHANGED making
             /\ tree' = [tree EXCEPT !.old = tree.system, !.system = Absent]
    <2>1. R' = {} /\ (W' = rest \/ (rest = {} /\ W' \subseteq Rests))
      <3>1. PICK after \in SUBSET After("out") :
            /\ R' = {} /\ W = {"out"} \cup after
            /\ W' = after \/ (after = {} /\ W' \subseteq Rests)
        BY <1>1, <1>8, WorkerDoes
      <3>2. after \subseteq {"in", "pin", "discard", "answer"}
        BY <3>1, AfterValues
      <3> QED
        BY <1>4, <3>1, <3>2
    <2>2. tree'.record = tree.record /\ tree'.system = Absent /\ tree'.home = tree.home
      BY <1>8 DEF Typed, DiskOK, Trees
    <2>3. OnSimple' /\ LatestTree' /\ ~SimpleRuns'
      BY <1>1, <1>3, <1>5, <2>2 DEF OnSimple, LatestTree, Recent, SimpleRuns
    <2>4. "answer" \notin W \/ "pin" \in W
      BY <1>3, <1>4, <1>8 DEF LatestInv, Found
    <2> USE <1>1, <1>2, <1>3, <1>4, <1>5, <1>8, <2>1, <2>2, <2>3, <2>4 DEF LatestInv, Rests
    <2>5. Stored' /\ Used'
      BY DEF Stored, Used, Saving, GvisorRuns, Nowhere
    <2>6. Found' /\ Moves' /\ Moments'
      BY DEF Found, Moves, Moments, Copying
    <2> QED
      BY <2>5, <2>6
  <1> QED
    BY <1>6, <1>7, <1>8 DEF Out

LEMMA LatestIn ==
  ASSUME Typed, WriterInv, LatestInv, Halted, In
  PROVE  LatestInv'
  <1>1. /\ At("worker", "in") /\ Then("worker", <<>>)
        /\ UNCHANGED <<up, op, runtime, handle, current, working, newer, guests, making,
                       asked, answered>>
        /\ HasCurrent' = HasCurrent /\ Whole' = Whole /\ Newest' = Newest
    BY DEF In, WipeSystem, process, memory, Whole
  <1>2. /\ up = "serving" /\ R = {} /\ "in" \in W
    BY <1>1, WorkerHas
  <1>3. /\ runtime = "simple" /\ ~HasCurrent /\ ~Whole /\ ~HasWorking /\ ~GvisorRuns
        /\ OnSimple => LatestTree
    BY <1>2, TreeHas
  <1>4. PICK rest \in SUBSET After("in") :
          /\ R' = {} /\ W = {"in"} \cup rest
          /\ W' = rest \/ (rest = {} /\ W' \subseteq Rests)
    BY <1>1, WorkerDoes
  <1>5. rest \subseteq {"pin", "discard", "answer"}
    BY <1>4, AfterValues
  <1>6. OnSimple /\ op = asked /\ ~SimpleRuns /\ tree.record # op
    BY <1>4, <1>5 DEF LatestInv, Found, Halted
  <1>7. "answer" \notin W \/ "pin" \in W
    BY <1>3, <1>4, <1>5, <1>6 DEF LatestInv, Found
  <1>8. tree'.record = tree.record /\ tree'.system = 0 /\ tree'.home = tree.home
    BY DEF In, Typed, DiskOK, Trees
  <1>9. live'.system = 0 /\ live'.home = live.home
    BY LivePair DEF In, WipeSystem, Typed, GhostsOK
  <1>10. OnSimple' /\ LatestTree' /\ ~SimpleRuns'
    BY <1>1, <1>3, <1>6, <1>8, <1>9 DEF OnSimple, LatestTree, Recent, SimpleRuns
  <1> USE <1>1, <1>2, <1>3, <1>4, <1>5, <1>6, <1>7, <1>8, <1>10 DEF LatestInv, Rests
  <1>11. Stored' /\ Used'
    BY DEF Stored, Used, Saving, GvisorRuns, Nowhere
  <1>12. Found' /\ Moves' /\ Moments'
    BY DEF Found, Moves, Moments, Copying
  <1> QED
    BY <1>11, <1>12

LEMMA LatestPin ==
  ASSUME Typed, WriterInv, LatestInv, Pin
  PROVE  LatestInv'
  <1>1. /\ At("worker", "pin") /\ Then("worker", <<>>)
        /\ UNCHANGED <<up, op, runtime, handle, current, working, guests, making,
                       live, moments, asked, answered>>
        /\ HasCurrent' = HasCurrent /\ Whole' = Whole
    BY DEF Pin, process, memory, ghosts, Whole
  <1>2. /\ up = "serving" /\ R = {} /\ "pin" \in W
    BY <1>1, WorkerHas
  <1>3. /\ runtime = "simple" /\ ~HasCurrent /\ ~Whole /\ ~HasWorking /\ ~GvisorRuns
        /\ OnSimple => LatestTree
    BY <1>2, TreeHas
  <1>4. PICK rest \in SUBSET After("pin") :
          /\ R' = {} /\ W = {"pin"} \cup rest
          /\ W' = rest \/ (rest = {} /\ W' \subseteq Rests)
    BY <1>1, WorkerDoes
  <1>5. rest \subseteq {"discard", "answer"}
    BY <1>4, AfterValues
  <1>6. OnSimple /\ op = asked
    BY <1>4, <1>5 DEF LatestInv, Found
  <1>7. tree'.record = op /\ tree'.system = tree.system /\ tree'.home = tree.home
    BY DEF Pin, Typed, DiskOK, Trees
  <1>8. answered <= asked
    BY <1>3, <1>6, LivePair DEF LatestTree, Recent, Typed, DiskOK, Trees, Ids
  <1>9. OnSimple' /\ LatestTree'
    BY <1>1, <1>3, <1>6, <1>7, <1>8, LivePair DEF OnSimple, LatestTree, Recent
  <1> USE <1>1, <1>2, <1>3, <1>4, <1>5, <1>6, <1>7, <1>9 DEF LatestInv, Rests
  <1>10. Stored' /\ Used'
    BY DEF Stored, Used, Saving, GvisorRuns, SimpleRuns, Nowhere
  <1>11. Found' /\ Moves' /\ Moments'
    BY DEF Found, Moves, Moments, Copying
  <1> QED
    BY <1>10, <1>11

-----------------------------------------------------------------------------
(* The steps of a move. *)

\* What a worker that copies a device's pair knows.
LEMMA CopyHas ==
  ASSUME Typed, WriterInv, LatestInv, NEW step \in Copying, step \in W
  PROVE  /\ runtime = "gvisor" /\ HasCurrent /\ ~Whole /\ ~GvisorRuns /\ ~SimpleRuns
         /\ LatestPair /\ working.manifest = Absent /\ handle = "none"
         /\ {"build", "clear", "dropCurrent", "moved"} \subseteq W
         /\ W \subseteq Copying \cup {"clear", "dropCurrent", "dropGenerations", "moved"}
  <1>1. runtime = "gvisor" /\ {"clear", "dropCurrent", "moved"} \subseteq W
    BY DEF WriterInv, Shapes, Orders, GvisorSteps
  <1>2. /\ W \subseteq Copying \cup {"clear", "dropCurrent", "dropGenerations", "moved"}
        /\ HasCurrent /\ "build" \in W
    BY DEF LatestInv, Moves
  <1>3. working.manifest = Absent
    BY <1>1, <1>2 DEF LatestInv, Moves, Copying
  <1>4. ~Whole /\ ~GvisorRuns /\ ~SimpleRuns /\ handle = "none"
    BY <1>1, <1>2, <1>3 DEF LatestInv, Used, Whole
  <1>5. LatestPair
    BY <1>1, <1>2, <1>4 DEF LatestInv, Stored
  <1> QED
    BY <1>1, <1>2, <1>3, <1>4, <1>5

\* Nothing on the disk changes while the pair is copied.
LEMMA LatestCopies ==
  ASSUME Typed, WriterInv, LatestInv, NEW step \in {"mount", "copySystem", "copyHome"},
         At("worker", step), Then("worker", <<>>),
         Still, handle' = handle, guests' = guests,
         stage' = "held", staged'.reset = current.reset,
         "mount" \notin W' => /\ "copySystem" \notin W' => staged'.system = current.system
                              /\ "copyHome" \notin W' => staged'.home = current.home
  PROVE  LatestInv'
  <1>1. up = "serving" /\ R = {} /\ step \in W /\ step \in Copying
    BY WorkerHas DEF Copying
  <1>2. /\ runtime = "gvisor" /\ HasCurrent /\ ~Whole /\ ~GvisorRuns /\ ~SimpleRuns
        /\ working.manifest = Absent
        /\ {"build", "clear", "dropCurrent", "moved"} \subseteq W
        /\ W \subseteq Copying \cup {"clear", "dropCurrent", "dropGenerations", "moved"}
    BY <1>1, CopyHas
  <1>3. PICK rest \in SUBSET After(step) :
          /\ R' = {} /\ W = {step} \cup rest
          /\ W' = rest \/ (rest = {} /\ W' \subseteq Rests)
    BY WorkerDoes
  <1>4. W' = rest /\ {"build", "clear", "dropCurrent", "moved"} \subseteq W'
    BY <1>2, <1>3
  <1>5. "mount" \in W' => {"copySystem", "copyHome"} \subseteq W'
    BY <1>2, <1>3, <1>4, AfterValues DEF LatestInv, Moves
  <1> USE <1>1, <1>2, <1>3, <1>4, <1>5, StillViews DEF LatestInv
  <1>6. Stored' /\ Used'
    BY DEF Stored, Used, Saving, Still, StillDisk, GvisorRuns, SimpleRuns
  <1>7. Found'
    BY DEF Found, Still, StillDisk, Copying
  <1>8. Moves' /\ Moments'
    BY DEF Moves, Moments, Still, StillDisk, Copying
  <1> QED
    BY <1>6, <1>7, <1>8

LEMMA LatestMount ==
  ASSUME Typed, WriterInv, LatestInv, Mount
  PROVE  LatestInv'
  <1>1. /\ At("worker", "mount") /\ Then("worker", <<>>) /\ stage' = "held"
        /\ staged' = [NoPair EXCEPT !.reset = current.reset]
        /\ Still /\ handle' = handle /\ guests' = guests
    BY DEF Mount, process, memory, disk, ghosts, Still, StillDisk
  <1>2. staged'.reset = current.reset
    BY <1>1 DEF NoPair
  <1>3. "mount" \notin W' => "copySystem" \in W' /\ "copyHome" \in W'
    <2>1. PICK rest \in SUBSET After("mount") :
            /\ R' = {} /\ W = {"mount"} \cup rest
            /\ W' = rest \/ (rest = {} /\ W' \subseteq Rests)
      BY <1>1, WorkerDoes
    <2> QED
      BY <2>1 DEF LatestInv, Moves
  <1> QED
    BY <1>1, <1>2, <1>3, LatestCopies

LEMMA LatestCopyVolume ==
  ASSUME Typed, WriterInv, LatestInv,
         CopyVolume("copySystem", "system") \/ CopyVolume("copyHome", "home")
  PROVE  LatestInv'
  <1>1. ASSUME NEW step \in {"copySystem", "copyHome"}, NEW volume \in {"system", "home"},
               step = "copySystem" <=> volume = "system", CopyVolume(step, volume)
        PROVE  LatestInv'
    <2>1. At("worker", step) /\ Still /\ handle' = handle /\ guests' = guests
      BY <1>1 DEF CopyVolume, process, memory, disk, ghosts, Still, StillDisk
    <2>2. PICK rest \in SUBSET After(step) : W = {step} \cup rest
      BY <2>1, WorkerHas
    <2>3. "mount" \notin W
      BY <2>2, AfterValues
    <2>4. /\ stage = "held" /\ staged.reset = current.reset
          /\ "copySystem" \notin W => staged.system = current.system
          /\ "copyHome" \notin W => staged.home = current.home
      BY <2>2, <2>3 DEF LatestInv, Moves, Copying
    <2>5. /\ stage' = "held" /\ staged' = [staged EXCEPT ![volume] = current[volume]]
          /\ Then("worker", <<>>)
      BY <1>1, <2>4 DEF CopyVolume
    <2>6. /\ staged'.reset = current.reset
          /\ volume = "system" => staged'.system = current.system /\ staged'.home = staged.home
          /\ volume = "home" => staged'.home = current.home /\ staged'.system = staged.system
      BY <2>4, <2>5 DEF Typed, DiskOK, Pairs
    <2>7. PICK after \in SUBSET After(step) :
            /\ R' = {} /\ W = {step} \cup after
            /\ W' = after \/ (after = {} /\ W' \subseteq Rests)
      BY <2>1, <2>5, WorkerDoes
    <2>8. W' = after
      BY <2>1, <2>2, <2>7, WorkerHas, CopyHas DEF Copying
    <2>9. /\ "copySystem" \notin W' => staged'.system = current.system
          /\ "copyHome" \notin W' => staged'.home = current.home
      BY <1>1, <2>4, <2>6, <2>7, <2>8
    <2> QED
      BY <2>1, <2>5, <2>6, <2>9, LatestCopies
  <1> QED
    BY <1>1

LEMMA LatestRaze ==
  ASSUME Typed, WriterInv, LatestInv, Raze
  PROVE  LatestInv'
  <1>1. /\ At("worker", "raze") /\ Then("worker", <<>>) /\ tree' = NoTree
        /\ UNCHANGED <<up, op, runtime, handle, current, working, newer, guests, making,
                       live, moments, asked, answered>>
        /\ HasCurrent' = HasCurrent /\ Whole' = Whole /\ Newest' = Newest /\ LatestPair' = LatestPair
    BY DEF Raze, process, memory, ghosts, Whole, LatestPair, Recent
  <1>2. up = "serving" /\ R = {} /\ "raze" \in W /\ "raze" \in Copying
    BY <1>1, WorkerHas DEF Copying
  <1>3. /\ runtime = "gvisor" /\ HasCurrent /\ ~Whole /\ ~GvisorRuns /\ ~SimpleRuns
        /\ working.manifest = Absent /\ LatestPair
        /\ {"build", "clear", "dropCurrent", "moved"} \subseteq W
        /\ W \subseteq Copying \cup {"clear", "dropCurrent", "dropGenerations", "moved"}
    BY <1>2, CopyHas
  <1>4. PICK rest \in SUBSET After("raze") :
          /\ R' = {} /\ W = {"raze"} \cup rest
          /\ W' = rest \/ (rest = {} /\ W' \subseteq Rests)
    BY <1>1, WorkerDoes
  <1>5. /\ W' = rest /\ {"build", "clear", "dropCurrent", "moved"} \subseteq W'
        /\ "mount" \notin W
    BY <1>3, <1>4, AfterValues
  <1>6. ~OnSimple'
    BY <1>1 DEF OnSimple, NoTree
  <1> USE <1>1, <1>2, <1>3, <1>4, <1>5, <1>6 DEF LatestInv
  <1>7. Stored' /\ Used'
    BY DEF Stored, Used, Saving, GvisorRuns, SimpleRuns
  <1>8. Found'
    BY DEF Found, Copying
  <1>9. Moves' /\ Moments'
    BY DEF Moves, Moments, Copying, making
  <1> QED
    BY <1>7, <1>8, <1>9

LEMMA LatestBuild ==
  ASSUME Typed, WriterInv, LatestInv, Build
  PROVE  LatestInv'
  <1>1. /\ At("worker", "build") /\ Then("worker", <<>>) /\ newer' = "simple"
        /\ tree' = [NoTree EXCEPT !.record = staged.reset, !.system = staged.system,
                                  !.home = staged.home]
        /\ UNCHANGED <<up, op, runtime, handle, current, working, guests,
                       live, moments, asked, answered>>
        /\ HasCurrent' = HasCurrent /\ Whole' = Whole /\ LatestPair' = LatestPair
    BY DEF Build, process, memory, ghosts, Whole, LatestPair, Recent
  <1>2. up = "serving" /\ R = {} /\ "build" \in W /\ "build" \in Copying
    BY <1>1, WorkerHas DEF Copying
  <1>3. /\ runtime = "gvisor" /\ HasCurrent /\ ~Whole /\ ~GvisorRuns /\ ~SimpleRuns
        /\ working.manifest = Absent /\ LatestPair
        /\ {"build", "clear", "dropCurrent", "moved"} \subseteq W
        /\ W \subseteq Copying \cup {"clear", "dropCurrent", "dropGenerations", "moved"}
    BY <1>2, CopyHas
  <1>4. PICK rest \in SUBSET After("build") :
          /\ R' = {} /\ W = {"build"} \cup rest
          /\ W' = rest \/ (rest = {} /\ W' \subseteq Rests)
    BY <1>1, WorkerDoes
  <1>5. /\ W' = rest /\ {"clear", "dropCurrent", "moved"} \subseteq W'
        /\ W' \cap Copying = {} /\ W \cap {"mount", "copySystem", "copyHome"} = {}
        /\ W' \subseteq {"clear", "dropCurrent", "dropGenerations", "moved"}
    BY <1>3, <1>4, AfterValues DEF Copying
  <1>6. staged = [system |-> current.system, home |-> current.home, reset |-> current.reset]
    BY <1>2, <1>5 DEF LatestInv, Moves, Typed, DiskOK, Pairs
  <1>7. /\ tree'.record = current.reset /\ tree'.system = current.system
        /\ tree'.home = current.home
    BY <1>1, <1>6 DEF NoTree
  <1>8. OnSimple' /\ LatestTree' /\ ~Newest'
    BY <1>1, <1>3, <1>7, LivePair DEF OnSimple, LatestTree, LatestPair, Recent, Typed, DiskOK,
       Pairs, Ids
  <1> USE <1>1, <1>2, <1>3, <1>4, <1>5, <1>7, <1>8 DEF LatestInv
  <1>9. Stored' /\ Used'
    BY DEF Stored, Used, Saving, GvisorRuns, SimpleRuns
  <1>10. Found'
    BY DEF Found
  <1>11. Moves' /\ Moments'
    BY DEF Moves, Moments, Copying
  <1> QED
    BY <1>9, <1>10, <1>11

\* What a worker that removes the older storage knows.
LEMMA DropHas ==
  ASSUME Typed, WriterInv, LatestInv,
         NEW step \in {"dropCurrent", "dropRecord", "dropTree"}, At("worker", step)
  PROVE  /\ up = "serving" /\ R = {} /\ step \in W
         /\ W \cap (Copying \cup {"publish", "make", "abort", "capture", "stage", "record", "start", "wipe",
                     "out", "in", "pin", "answer", "first", "plant"}) = {}
         /\ ~Whole /\ ~GvisorRuns /\ handle = "none"
         /\ step = "dropCurrent" => OnSimple /\ ~Newest /\ "clear" \notin W
                                    /\ W \cap {"dropRecord", "dropTree"} = {}
         /\ step # "dropCurrent" => Newest /\ LatestPair /\ ~SimpleRuns /\ "dropCurrent" \notin W
         /\ \/ "moved" \in W /\ runtime \in Runtimes
            \/ "pick" \in W /\ runtime = Nowhere
         /\ step # "dropCurrent" /\ "moved" \in W => runtime = "simple"
  <1>1. up = "serving" /\ R = {} /\ step \in W
    BY WorkerHas
  <1>2. PICK rest \in SUBSET After(step) : W = {step} \cup rest
    BY WorkerHas
  <1>3. /\ rest \cap (Copying \cup {"clear"}) = {} \/ step # "dropCurrent"
        /\ rest \cap {"make", "publish"} = {} \/ step = "dropCurrent"
    BY <1>2, AfterValues DEF Copying
  <1>4. \/ "moved" \in W /\ runtime \in Runtimes /\ (step # "dropCurrent" => runtime = "simple")
        \/ "pick" \in W /\ runtime = Nowhere /\ "moved" \notin W
    BY <1>1 DEF WriterInv, Shapes, Typed, MemoryOK
  <1>5. W \subseteq MoveSteps \cup PickSteps
    BY <1>4 DEF WriterInv, Shapes
  <1>6. W \cap {"abort", "capture", "stage", "record", "start", "wipe", "out", "in", "pin",
                "answer", "first", "plant"} = {}
    BY <1>5 DEF MoveSteps, PickSteps, Copying
  <1>7. W \cap (Copying \cup {"publish", "make"}) = {}
    <2>1. CASE step = "dropCurrent"
      <3>1. W \cap Copying = {}
        BY <1>2, <1>3, <2>1 DEF Copying
      <3>2. CASE "moved" \in W
        BY <1>1, <2>1, <3>1, <3>2 DEF LatestInv, Moves, Copying
      <3>3. CASE "pick" \in W
        BY <3>1, <3>3 DEF WriterInv, Shapes, PickSteps
      <3> QED
        BY <1>4, <3>1, <3>2, <3>3
    <2>2. CASE step # "dropCurrent"
      <3>1. W \cap {"publish", "make"} = {}
        BY <1>2, <1>3, <2>2
      <3>2. CASE "moved" \in W /\ runtime = "simple"
        BY <3>1, <3>2 DEF WriterInv, Shapes, GvisorSteps, Copying
      <3>3. CASE "pick" \in W
        BY <3>1, <3>3 DEF WriterInv, Shapes, PickSteps, Copying
      <3> QED
        BY <1>4, <2>2, <3>1, <3>2, <3>3
    <2> QED
      BY <2>1, <2>2
  <1>8. CASE step = "dropCurrent"
    <2>1. ~HasWorking /\ "clear" \notin W
      BY <1>1, <1>2, <1>3, <1>8 DEF WriterInv, Places
    <2>2. OnSimple /\ ~Newest
      BY <1>1, <1>7, <1>8 DEF LatestInv, Moves, Copying
    <2>3. ~Whole
      BY <2>1, WholeHas
    <2>4. W \cap {"dropRecord", "dropTree"} = {}
      BY <1>7, <2>2 DEF LatestInv, Moves
    <2>5. handle = "none" /\ ~GvisorRuns
      BY <1>4, <2>3 DEF LatestInv, Used, WriterInv, Shapes, Phases
    <2> QED
      BY <1>1, <1>4, <1>6, <1>7, <1>8, <2>1, <2>2, <2>3, <2>4, <2>5 DEF Copying
  <1>9. CASE step # "dropCurrent"
    <2>1. Newest /\ ~SimpleRuns
      BY <1>1, <1>7, <1>9 DEF LatestInv, Moves, WriterInv, Running
    <2>2. ~Whole
      BY <1>1, <1>4, <1>9, WholeHas DEF LatestInv, Used, Whole
    <2>3. LatestPair
      BY <2>1, <2>2 DEF LatestInv, Stored
    <2>4. "dropCurrent" \notin W
      BY <1>7, <2>1 DEF LatestInv, Moves, Copying
    <2>5. handle = "none" /\ ~GvisorRuns
      BY <1>4, <2>2 DEF LatestInv, Used, WriterInv, Shapes, Phases
    <2> QED
      BY <1>1, <1>4, <1>6, <1>7, <1>9, <2>1, <2>2, <2>3, <2>4, <2>5 DEF Copying
  <1> QED
    BY <1>8, <1>9

LEMMA LatestDropCurrent ==
  ASSUME Typed, WriterInv, LatestInv, DropCurrent
  PROVE  LatestInv'
  <1>1. /\ At("worker", "dropCurrent") /\ Then("worker", <<>>) /\ current' = NoPair
        /\ UNCHANGED <<up, op, runtime, handle, working, tree, newer, guests, making,
                       live, moments, asked, answered>>
        /\ Whole' = Whole /\ OnSimple' = OnSimple /\ LatestTree' = LatestTree
        /\ ~HasCurrent' /\ ~Newest'
    BY DEF DropCurrent, process, memory, ghosts, Whole, OnSimple, LatestTree, Recent
  <1>2. /\ up = "serving" /\ R = {} /\ "dropCurrent" \in W
        /\ W \cap (Copying \cup {"publish", "make", "abort", "capture", "stage", "record", "start", "wipe",
                    "out", "in", "pin", "answer", "first", "plant"}) = {}
        /\ ~Whole /\ ~GvisorRuns /\ handle = "none"
        /\ OnSimple /\ ~Newest /\ "clear" \notin W
        /\ W \cap {"dropRecord", "dropTree"} = {}
        /\ \/ "moved" \in W /\ runtime \in Runtimes
           \/ "pick" \in W /\ runtime = Nowhere
    BY <1>1, DropHas
  <1>3. PICK rest \in SUBSET After("dropCurrent") :
          /\ R' = {} /\ W = {"dropCurrent"} \cup rest
          /\ W' = rest \/ (rest = {} /\ W' \subseteq Rests)
    BY <1>1, WorkerDoes
  <1>4. "dropCurrent" \notin rest /\ W' = rest
    BY <1>2, <1>3, AfterValues
  <1>5. LatestTree
    BY <1>2 DEF LatestInv, Stored
  <1>6. /\ runtime = "gvisor" => "moved" \in W' /\ W' \subseteq {"dropGenerations", "moved"}
        /\ "moved" \in W' => W' \subseteq {"dropGenerations", "moved"}
    BY <1>2, <1>3, <1>4 DEF LatestInv, Moves, Copying, Nowhere
  <1> USE <1>1, <1>2, <1>3, <1>4, <1>5, <1>6 DEF LatestInv
  <1>7. Stored' /\ Used'
    BY DEF Stored, Used, Saving, GvisorRuns, SimpleRuns
  <1>8. Found'
    BY DEF Found
  <1>9. Moves' /\ Moments'
    BY DEF Moves, Moments
  <1> QED
    BY <1>7, <1>8, <1>9

LEMMA LatestMake ==
  ASSUME Typed, WriterInv, LatestInv, Completes, Make
  PROVE  LatestInv'
  <1>1. At("worker", "make") /\ Still /\ handle' = handle /\ guests' = guests
    BY DEF Make, process, memory, disk, ghosts, Still, StillDisk
  <1>2. /\ up = "serving" /\ R = {} /\ "make" \in W /\ runtime = "simple"
        /\ {"publish", "moved"} \subseteq W
    BY <1>1, WorkerHas DEF SimpleSteps, LatestInv, Moves, WriterInv, Shapes
  <1>3. CASE Fail("worker")
    BY <1>1, <1>2, <1>3, LatestEnds
  <1>4. CASE /\ tree.system # Absent /\ Then("worker", <<>>) /\ stage' = "held"
             /\ staged' = [system |-> tree.system, home |-> tree.home, reset |-> tree.record]
    <2>1. PICK rest \in SUBSET After("make") :
            /\ R' = {} /\ W = {"make"} \cup rest
            /\ W' = rest \/ (rest = {} /\ W' \subseteq Rests)
      BY <1>1, <1>4, WorkerDoes
    <2>2. W \subseteq {"make", "publish", "dropRecord", "dropTree", "moved"} /\ W' = rest
          /\ {"publish", "moved"} \subseteq W'
      BY <1>2, <2>1 DEF WriterInv, Shapes
    <2>3. ~HasCurrent /\ ~Whole
      BY <1>2, WholeHas DEF LatestInv, Used
    <2> USE <1>1, <1>2, <1>4, <2>1, <2>2, <2>3, StillViews DEF LatestInv
    <2>4. Stored' /\ Used'
      BY DEF Stored, Used, Saving, Still, StillDisk, GvisorRuns, SimpleRuns
    <2>5. Found' /\ Moments'
      BY DEF Found, Moments, Still, StillDisk
    <2>6. Moves'
      BY DEF Moves, Still, StillDisk, Copying
    <2> QED
      BY <2>4, <2>5, <2>6
  <1> QED
    BY <1>1, <1>3, <1>4 DEF Make

LEMMA LatestDropTree ==
  ASSUME Typed, WriterInv, LatestInv, DropRecord \/ DropTree
  PROVE  LatestInv'
  <1>1. PICK step \in {"dropRecord", "dropTree"} :
          /\ At("worker", step) /\ Then("worker", <<>>)
          /\ tree' = NoTree \/ tree' = [tree EXCEPT !.record = Absent]
          /\ UNCHANGED <<up, op, runtime, handle, current, working, newer, guests, making,
                         live, moments, asked, answered>>
          /\ Whole' = Whole /\ HasCurrent' = HasCurrent /\ Newest' = Newest /\ LatestPair' = LatestPair
    BY DEF DropRecord, DropTree, process, memory, ghosts, Whole, LatestPair, Recent
  <1>2. /\ up = "serving" /\ R = {} /\ step \in W
        /\ W \cap (Copying \cup {"publish", "make", "abort", "capture", "stage", "record", "start", "wipe",
                    "out", "in", "pin", "answer", "first", "plant"}) = {}
        /\ ~Whole /\ ~GvisorRuns /\ handle = "none"
        /\ Newest /\ LatestPair /\ ~SimpleRuns /\ "dropCurrent" \notin W
        /\ \/ "moved" \in W /\ runtime = "simple"
           \/ "pick" \in W /\ runtime = Nowhere
    BY <1>1, DropHas
  <1>3. PICK rest \in SUBSET After(step) :
          /\ R' = {} /\ W = {step} \cup rest
          /\ W' = rest \/ (rest = {} /\ W' \subseteq Rests)
    BY <1>1, WorkerDoes
  <1>4. ~OnSimple'
    BY <1>1 DEF OnSimple, NoTree, Typed, DiskOK, Trees
  <1>5. W' = rest /\ ("moved" \in W => "moved" \in W')
    BY <1>2, <1>3
  <1> USE <1>1, <1>2, <1>3, <1>4, <1>5 DEF LatestInv
  <1>6. Stored' /\ Used'
    BY DEF Stored, Used, Saving, GvisorRuns, SimpleRuns
  <1>7. Found'
    BY DEF Found
  <1>8. Moves' /\ Moments'
    BY DEF Moves, Moments
  <1> QED
    BY <1>6, <1>7, <1>8

LEMMA LatestWorks ==
  ASSUME Typed, WriterInv, LatestInv, Halted, Completes, Worker
  PROVE  LatestInv'
  BY LatestOperate, LatestSettle, LatestMove, LatestMoved, LatestPick, LatestSave, LatestClear,
     LatestFirst, LatestStage, LatestSandbox, LatestCapture, LatestPublish, LatestWipe,
     LatestAnswer, LatestPlant, LatestProot, LatestOut, LatestIn, LatestPin, LatestMount,
     LatestCopyVolume, LatestRaze, LatestBuild, LatestDropCurrent, LatestMake, LatestDropTree
     DEF Worker

-----------------------------------------------------------------------------
(* Recovery and the manager. *)

\* A step that leaves the storage, with the worker at rest.
LEMMA LatestRests ==
  ASSUME Typed, LatestInv, W = {}, W' = {}, Still, handle' = handle, guests' \subseteq guests,
         "clear" \in R' => "clear" \in R,
         up = "starting" /\ R' # {} /\ R' \cap {"save", "clear"} = {}
           => \/ R # {} /\ R \cap {"save", "clear"} = {}
              \/ working.manifest = Absent \/ runtime # Nowhere
  PROVE  LatestInv'
  <1> USE StillViews DEF LatestInv
  <1>1. Stored'
    BY DEF Stored, Saving, Still, StillDisk
  <1>2. Used'
    BY DEF Used, Still, StillDisk, GvisorRuns, SimpleRuns
  <1>3. Found' /\ Moves' /\ Moments'
    BY DEF Found, Moves, Moments, Still, StillDisk, Copying
  <1> QED
    BY <1>1, <1>2, <1>3

\* The worker rests while recovery runs.
LEMMA RecoveryHas ==
  ASSUME Typed, WriterInv, LatestInv, NEW step, At("recovery", step)
  PROVE  step \in R /\ W = {} /\ up # "down"
  BY RecoveryAt DEF LatestInv, Found

LEMMA LatestFences ==
  ASSUME Typed, WriterInv, LatestInv,
         Sweep \/ Unstage \/ FenceSimple \/ DetachStages \/ RemoveStages \/ Fence
         \/ StepFails("recovery")
  PROVE  LatestInv'
  <1>1. Still /\ handle' = handle /\ guests' \subseteq guests
    <2>1. runtime' = runtime /\ handle' = handle /\ guests' \subseteq guests
      BY DEF Sweep, Unstage, FenceSimple, DetachStages, RemoveStages, Fence, StepFails, memory
    <2>2. /\ UNCHANGED <<up, op, current, newer, ghosts>>
          /\ UNCHANGED working \/ \E x : working' = [working EXCEPT !.boot = x]
          /\ UNCHANGED tree \/ (\E x : tree' = [tree EXCEPT !.process = x])
             \/ \E x : tree' = [tree EXCEPT !.old = x]
      BY DEF Sweep, Unstage, FenceSimple, DetachStages, RemoveStages, Fence, StepFails, memory,
         process, disk
    <2> QED
      BY <2>1, <2>2, StillSteps
  <1>2. CASE StepFails("recovery")
    <2>1. W' = W /\ R' = {} /\ R # {} /\ W = {}
      BY <1>2, RecoveryEnds, RecoveryHas DEF StepFails, Typed
    <2> QED
      BY <1>1, <2>1, LatestRests
  <1>3. CASE Sweep \/ Unstage \/ FenceSimple \/ RemoveStages \/ Fence
    <2>1. PICK step : /\ At("recovery", step) /\ Then("recovery", <<>>)
                      /\ step \in {"sweep", "unstage", "fenceSimple", "remove", "fence"}
      BY <1>3 DEF Sweep, Unstage, FenceSimple, RemoveStages, Fence
    <2>2. PICK rest \in SUBSET After(step) : W' = W /\ R = {step} \cup rest /\ R' = rest
      BY <2>1, FollowsNothing, RecoveryGoesOn DEF Typed
    <2>3. W = {}
      BY <2>1, RecoveryHas
    <2> QED
      BY <1>1, <2>1, <2>2, <2>3, LatestRests
  <1>4. CASE DetachStages
    <2>1. PICK rest \in SUBSET After("detach") :
            W' = W /\ R = {"detach"} \cup rest /\ R' = {"remove"} \cup rest
      BY <1>4, StepFollows, RecoveryGoesOn DEF DetachStages, Typed
    <2>2. W = {}
      BY <1>4, RecoveryHas DEF DetachStages
    <2> QED
      BY <1>1, <2>1, <2>2, LatestRests
  <1> QED
    BY <1>2, <1>3, <1>4

LEMMA LatestRecoverySave ==
  ASSUME Typed, WriterInv, LatestInv, Save("recovery")
  PROVE  LatestInv'
  <1>1. /\ At("recovery", "save")
        /\ UNCHANGED <<up, op, spared, runtime, handle, working, tree, guests, live, moments, asked,
                       answered>>
    BY DEF Save, process, memory, ghosts
  <1>2. W = {} /\ "save" \in R /\ up # "down"
    BY <1>1, RecoveryHas
  <1>3. CASE Fail("recovery") /\ UNCHANGED <<current, newer>>
    <2>1. W' = W /\ R' = {} /\ R # {}
      BY <1>1, <1>3, RecoveryEnds DEF Typed
    <2>2. Still
      BY <1>1, <1>3 DEF Still, StillDisk
    <2> QED
      BY <1>1, <1>2, <2>1, <2>2, LatestRests
  <1>4. CASE /\ "gvisor" \in spared \/ working.manifest = Absent
             /\ Then("recovery", <<>>) /\ UNCHANGED <<making, current, newer>>
    <2>1. PICK rest \in SUBSET After("save") : W' = W /\ R = {"save"} \cup rest /\ R' = rest
      BY <1>1, <1>4, FollowsNothing, RecoveryGoesOn DEF Typed
    <2>2. "clear" \notin R'
      BY <2>1, AfterValues
    <2>3. Still
      BY <1>1, <1>4 DEF Still, StillDisk
    <2>4. up = "starting" => working.manifest = Absent \/ runtime # Nowhere
      BY <1>4 DEF WriterInv, Phases
    <2> QED
      BY <1>1, <1>2, <2>1, <2>2, <2>3, <2>4, LatestRests
  <1>5. CASE /\ "gvisor" \notin spared /\ Whole /\ Then("recovery", <<"clear">>)
             /\ current' = [system |-> working.system, home |-> working.home,
                            reset |-> working.manifest]
             /\ newer' = "gvisor"
    <2>1. PICK rest \in SUBSET After("save") :
            W' = W /\ R = {"save"} \cup rest /\ R' = {"clear"} \cup rest
      BY <1>1, <1>5, StepFollows, RecoveryGoesOn DEF Typed
    <2>2. /\ HasCurrent /\ runtime # "simple" /\ ~SimpleRuns /\ LatestWorking
          /\ working.system # Absent
      BY <1>5, WholeHas DEF LatestInv, Stored, Whole
    <2>3. /\ HasCurrent' /\ Newest' /\ LatestPair' /\ LatestWorking' /\ Whole' = Whole
          /\ OnSimple' = OnSimple /\ ~SimpleRuns'
      BY <1>1, <1>5, <2>2 DEF NoPair, LatestPair, LatestWorking, Recent, Whole, OnSimple, SimpleRuns
    <2>4. runtime = "gvisor" => handle = "none"
      BY <1>1, <1>2, <1>5, RecoveryAt DEF WriterInv, Phases, Runtimes, Nowhere
    <2>5. up = "serving" => runtime # Nowhere
      BY <1>5 DEF LatestInv, Used, Whole
    <2> USE <1>1, <1>2, <1>5, <2>1, <2>2, <2>3, <2>4, <2>5 DEF LatestInv
    <2>6. Stored' /\ Used'
      BY DEF Stored, Used
    <2>7. Found' /\ Moves'
      BY DEF Found, Moves
    <2>8. Moments'
      BY LivePair DEF Moments, LatestPair
    <2> QED
      BY <2>6, <2>7, <2>8
  <1> QED
    BY <1>1, <1>3, <1>4, <1>5 DEF Save

LEMMA LatestRecoveryClear ==
  ASSUME Typed, WriterInv, LatestInv, Clear("recovery")
  PROVE  LatestInv'
  <1>1. /\ At("recovery", "clear")
        /\ UNCHANGED <<up, op, runtime, handle, current, newer, tree, guests, making, live,
                       moments, asked, answered>>
        /\ HasCurrent' = HasCurrent /\ Newest' = Newest /\ OnSimple' = OnSimple
        /\ LatestPair' = LatestPair
    BY DEF Clear, process, memory, ghosts, OnSimple, LatestPair, Recent
  <1>2. W = {} /\ "clear" \in R /\ ~GvisorRuns
    BY <1>1, RecoveryHas DEF WriterInv, Running
  <1>3. Saving /\ Newest /\ LatestPair
    BY <1>2 DEF Saving, LatestInv, Stored
  <1>4. ASSUME NEW file \in {"manifest", "system", "home"},
               working' = [working EXCEPT ![file] = Absent], UNCHANGED todo
        PROVE  LatestInv'
    <2>1. W' = W /\ R' = R
      BY <1>4 DEF W, R, Ahead
    <2>2. ~Whole' /\ (working.manifest = Absent => working'.manifest = Absent)
      BY <1>4, ClearedWorking
    <2> USE <1>1, <1>2, <1>3, <2>1, <2>2 DEF LatestInv
    <2>3. Stored' /\ Used'
      BY DEF Stored, Used, GvisorRuns, SimpleRuns
    <2>4. Found' /\ Moves' /\ Moments'
      BY DEF Found, Moves, Moments
    <2> QED
      BY <2>3, <2>4
  <1>5. CASE working' = [working EXCEPT !.boot = FALSE] /\ UNCHANGED todo
    <2>1. W' = W /\ R' = R
      BY <1>5 DEF W, R, Ahead
    <2>2. Still
      BY <1>1, <1>5, StillSteps DEF Clear
    <2> QED
      BY <1>1, <1>2, <2>1, <2>2, LatestRests
  <1>6. CASE ~HasWorking /\ Then("recovery", <<>>) /\ UNCHANGED working
    <2>1. PICK rest \in SUBSET After("clear") : W' = W /\ R = {"clear"} \cup rest /\ R' = rest
      BY <1>1, <1>6, FollowsNothing, RecoveryGoesOn DEF Typed
    <2>2. working.manifest = Absent
      BY <1>6 DEF HasWorking, NoWorking
    <2>3. Still
      BY <1>1, <1>6 DEF Still, StillDisk
    <2> QED
      BY <1>1, <1>2, <2>1, <2>2, <2>3, LatestRests
  <1> QED
    BY <1>4, <1>5, <1>6 DEF Clear

LEMMA LatestServe ==
  ASSUME Typed, WriterInv, LatestInv, Serve
  PROVE  LatestInv'
  <1>1. /\ At("recovery", "serve") /\ Then("recovery", <<>>) /\ up' = "serving"
        /\ UNCHANGED <<op, runtime, handle, current, newer, working, tree, guests, making, live,
                       moments, asked, answered>>
        /\ HasCurrent' = HasCurrent /\ Newest' = Newest /\ OnSimple' = OnSimple
        /\ Whole' = Whole /\ LatestPair' = LatestPair /\ LatestTree' = LatestTree
        /\ LatestWorking' = LatestWorking
    BY DEF Serve, memory, disk, ghosts, Whole, OnSimple, LatestPair, LatestTree, LatestWorking,
       Recent
  <1>2. W = {} /\ W' = {} /\ R = {"serve"} /\ R' = {}
    BY <1>1, RecoveryHas, FollowsNothing, RecoveryGoesOn, AfterValues DEF Typed, Last
  <1>3. up = "starting"
    BY <1>1, <1>2, RecoveryAt
  <1> USE <1>1, <1>2, <1>3 DEF LatestInv
  <1>4. Stored' /\ Used'
    BY DEF Stored, Used, Saving, GvisorRuns, SimpleRuns
  <1>5. Found' /\ Moves' /\ Moments'
    BY DEF Found, Moves, Moments, Copying
  <1> QED
    BY <1>4, <1>5

LEMMA LatestRecovers ==
  ASSUME Typed, WriterInv, LatestInv, Recover
  PROVE  LatestInv'
  BY LatestFences, LatestRecoverySave, LatestRecoveryClear, LatestServe DEF Recover

\* The manager's process ends.
LEMMA LatestGone ==
  ASSUME Typed, WriterInv, LatestInv, Ends, UNCHANGED <<disk, guests, ghosts>>
  PROVE  LatestInv'
  <1>1. W' = {} /\ R' = {}
    BY EndsQueue DEF NothingAhead, W, R, Processes
  <1>2. /\ up' = "down" /\ runtime' = Nowhere /\ handle' = "none" /\ guests' = guests
        /\ UNCHANGED <<current, newer, working, tree, live, moments, asked, answered>>
        /\ HasCurrent' = HasCurrent /\ Newest' = Newest /\ OnSimple' = OnSimple
        /\ Whole' = Whole /\ LatestPair' = LatestPair /\ LatestTree' = LatestTree
        /\ LatestWorking' = LatestWorking
    BY DEF Ends, disk, ghosts, Whole, OnSimple, LatestPair, LatestTree, LatestWorking, Recent
  <1> USE <1>1, <1>2 DEF LatestInv
  <1>3. Stored' /\ Used'
    BY DEF Stored, Used, Saving, GvisorRuns, SimpleRuns, Nowhere
  <1>4. Found' /\ Moves' /\ Moments'
    BY DEF Found, Moves, Moments, Copying
  <1> QED
    BY <1>3, <1>4

LEMMA LatestLaunch ==
  ASSUME Typed, WriterInv, LatestInv, Launch
  PROVE  LatestInv'
  <1>1. W = {} /\ R = {} /\ runtime = Nowhere /\ handle = "none"
    BY DEF Launch, WriterInv, Phases, Typed, MemoryOK
  <1>2. W' = W /\ R' = {"sweep", "unstage", "fenceSimple", "detach", "fence", "save", "serve"}
    BY RecoveryGiven DEF Launch, Typed, W, R
  <1>3. /\ up' = "starting" /\ guests' = guests
        /\ UNCHANGED <<current, newer, working, tree, live, moments, asked, answered>>
        /\ HasCurrent' = HasCurrent /\ Newest' = Newest /\ OnSimple' = OnSimple
        /\ Whole' = Whole /\ LatestPair' = LatestPair /\ LatestTree' = LatestTree
        /\ LatestWorking' = LatestWorking
    BY DEF Launch, disk, ghosts, Whole, OnSimple, LatestPair, LatestTree, LatestWorking, Recent
  <1>4. \/ runtime' = Nowhere
        \/ runtime' = "gvisor" /\ GvisorRuns
        \/ runtime' = "simple" /\ SimpleRuns
    <2>1. runtime' = Nowhere \/ runtime' \in guests
      BY <1>1 DEF Launch, LeftRunning
    <2>2. guests \subseteq {"gvisor", "simple"}
      BY DEF Typed, GhostsOK, Runtimes
    <2> QED
      BY <2>1, <2>2 DEF GvisorRuns, SimpleRuns
  <1>5. /\ runtime' = "gvisor" => Whole /\ HasCurrent
        /\ runtime' = "simple" => ~HasCurrent
    BY <1>4, WholeHas DEF LatestInv, Used, Nowhere
  <1> USE <1>1, <1>2, <1>3, <1>4, <1>5 DEF LatestInv
  <1>6. Stored' /\ Used'
    BY DEF Stored, Used, Saving, GvisorRuns, SimpleRuns, Nowhere
  <1>7. Found' /\ Moves' /\ Moments'
    BY DEF Found, Moves, Moments, Copying
  <1> QED
    BY <1>6, <1>7

\* The resting worker is given programs, or recovery a reconcile.
LEMMA LatestGiven ==
  ASSUME Typed, WriterInv, LatestInv, up = "serving", W = {},
         R' = {} \/ (W' = {} /\ "clear" \notin R'),
         W' \subseteq {"pick", "settle", "hibernate"} \cup Operations,
         "reset" \in W' => op' = asked',
         up' = up, runtime' = runtime, guests' = guests, UNCHANGED <<disk, live, moments, answered>>,
         handle' # "none" => handle # "none",
         asked \in Nat, asked' \in Nat, asked' >= asked
  PROVE  LatestInv'
  <1>1. /\ UNCHANGED <<current, newer, working, tree>>
        /\ HasCurrent' = HasCurrent /\ Newest' = Newest /\ OnSimple' = OnSimple /\ Whole' = Whole
    BY DEF disk, Whole, OnSimple
  <1>2. /\ LatestPair => LatestPair'
        /\ LatestTree => LatestTree'
        /\ LatestWorking => LatestWorking'
    BY <1>1 DEF LatestPair, LatestTree, LatestWorking, Recent, Typed, DiskOK, Pairs, Trees, Workings, Ids,
       Absent
  <1> USE <1>1, <1>2 DEF LatestInv, Operations
  <1>3. Stored'
    BY DEF Stored, Saving
  <1>4. Used'
    BY DEF Used, GvisorRuns, SimpleRuns
  <1>5. Found' /\ Moves' /\ Moments'
    BY DEF Found, Moves, Moments, Copying
  <1> QED
    BY <1>3, <1>4, <1>5

LEMMA LatestRequest ==
  ASSUME Typed, WriterInv, LatestInv, Completes,
         Wake \/ Hibernate \/ Checkpoint \/ Reset \/ SettleStopped \/ Exited \/ Drain \/ Reconcile
  PROVE  LatestInv'
  <1>1. asked \in Nat /\ asked >= asked
    BY LivePair
  <1>2. CASE Wake \/ Hibernate \/ Checkpoint \/ Reset \/ SettleStopped
    <2>1. /\ up = "serving" /\ Idle /\ op' \in Nat /\ asked' \in Nat /\ asked' >= asked
          /\ UNCHANGED <<up, runtime, guests, handle, disk, live, moments, answered>>
      BY <1>1, <1>2, LivePair DEF Wake, Hibernate, Checkpoint, Reset, SettleStopped, Request, Admitted,
         process
    <2>2. W = {} /\ R = {}
      BY <2>1, IdleAhead
    <2>3. \E what \in Operations \cup {"settle"}, two \in Rests :
            /\ \/ todo' = [todo EXCEPT !.worker = << <<"pick", what>>, <<two>> >>]
               \/ todo' = [todo EXCEPT !.worker = << <<"pick", what>> >>]
            /\ what = "reset" => op' = asked'
      <3>1. /\ {"settle", "wake", "hibernate", "checkpoint", "reset"} \subseteq Operations \cup {"settle"}
            /\ {"wake", "settle"} \subseteq Rests
        BY DEF Operations, Rests
      <3> QED
        BY <1>2, <3>1 DEF Wake, Hibernate, Checkpoint, Reset, SettleStopped, Request
    <2>4. PICK what \in Operations \cup {"settle"}, two \in Rests :
            W' = {"pick", what} /\ R' = R /\ (what = "reset" => op' = asked')
      BY <2>3, WorkerGiven DEF Typed, W, R
    <2> QED
      BY <1>1, <2>1, <2>2, <2>4, LatestGiven
  <1>3. CASE Exited
    <2>1. /\ up = "serving" /\ todo["worker"] = <<>> /\ todo["recovery"] = <<>> /\ handle # "none"
          /\ todo' = [todo EXCEPT !.worker = << <<"hibernate">>, <<"settle">> >>]
          /\ UNCHANGED <<up, runtime, guests, disk, live, moments, asked, answered>>
      BY <1>3 DEF Exited, process, ghosts, Completes
    <2>2. W = {} /\ R = {} /\ "settle" \in Rests
      BY <2>1 DEF W, R, Ahead, Rests
    <2>3. W' = {"hibernate"} /\ R' = R
      BY <2>1, <2>2, WorkerGiven DEF Typed, W, R
    <2> QED
      BY <1>1, <2>1, <2>2, <2>3, LatestGiven
  <1>4. CASE Drain
    <2>1. /\ up = "serving" /\ Idle
          /\ todo' = [todo EXCEPT !.worker = << <<"hibernate">>, <<"exit">> >>]
          /\ UNCHANGED <<up, runtime, handle, guests, disk, live, moments, asked, answered>>
      BY <1>4 DEF Drain, process, memory, ghosts
    <2>2. W = {} /\ R = {} /\ "exit" \in Rests
      BY <2>1, IdleAhead DEF Rests
    <2>3. W' = {"hibernate"} /\ R' = R
      BY <2>1, <2>2, WorkerGiven DEF Typed, W, R
    <2> QED
      BY <1>1, <2>1, <2>2, <2>3, LatestGiven
  <1>5. CASE Reconcile
    <2>1. /\ up = "serving" /\ Idle
          /\ UNCHANGED <<up, runtime, handle, guests, disk, live, moments, asked, answered>>
      BY <1>5 DEF Reconcile, Admitted, memory, ghosts
    <2>2. W = {} /\ R = {}
      BY <2>1, IdleAhead
    <2>3. W' = W /\ R' = {"unstage", "fenceSimple", "detach", "fence", "save"}
      BY <1>5, RecoveryGiven DEF Reconcile, Typed, W, R
    <2> QED
      BY <1>1, <2>1, <2>2, <2>3, LatestGiven
  <1> QED
    BY <1>2, <1>3, <1>4, <1>5

\* What the invariant does not speak of changes, or a guest ends.
LEMMA LatestUnmoved ==
  ASSUME LatestInv, UNCHANGED <<todo, making, disk, ghosts, up, runtime, handle, op>>,
         guests' \subseteq guests
  PROVE  LatestInv'
  <1>1. W' = W /\ R' = R
    BY DEF W, R, Ahead
  <1>2. Still /\ UNCHANGED <<stage, staged>>
    BY DEF Still, StillDisk, disk, ghosts, making
  <1> USE <1>1, <1>2, StillViews DEF LatestInv
  <1>3. Stored' /\ Used'
    BY DEF Stored, Used, Saving, Still, StillDisk, GvisorRuns, SimpleRuns
  <1>4. Found' /\ Moves' /\ Moments'
    BY DEF Found, Moves, Moments, Still, StillDisk
  <1> QED
    BY <1>3, <1>4

LEMMA LatestManages ==
  ASSUME Typed, WriterInv, LatestInv, Completes, Manage
  PROVE  LatestInv'
  <1>1. CASE Crash \/ Exit \/ Leave
    BY <1>1, LatestGone DEF Crash, Exit, Leave
  <1>2. CASE SetIsolation \/ Signal("stop") \/ Signal("leave")
    BY <1>2, LatestUnmoved DEF SetIsolation, Signal, process, memory
  <1> QED
    BY <1>1, <1>2, LatestLaunch, LatestRequest DEF Manage

-----------------------------------------------------------------------------
\* A guest writes to the storage it runs on, and to no copy of it.
LEMMA LatestWrite ==
  ASSUME Typed, WriterInv, LatestInv, NEW r \in Runtimes, NEW v \in {"system", "home"}, Write(r, v)
  PROVE  LatestInv'
  <1>1. /\ UNCHANGED <<todo, making, current, newer, guests, up, runtime, handle, op, asked, answered>>
        /\ r \in guests /\ live' = [live EXCEPT ![v] = writes + 1]
        /\ moments' = moments \cup {[live EXCEPT ![v] = writes + 1]}
        /\ writes + 1 # Absent
        /\ HasCurrent' = HasCurrent /\ Newest' = Newest
    BY DEF Write, process, memory, Typed, GhostsOK, Absent
  <1>2. W' = W /\ R' = R
    BY <1>1 DEF W, R, Ahead
  <1>3. CASE r = "gvisor"
    <2>1. working' = [working EXCEPT ![v] = writes + 1] /\ UNCHANGED tree
      BY <1>3 DEF Write
    <2>2. GvisorRuns /\ Whole /\ HasCurrent /\ ~SimpleRuns /\ ~Saving /\ LatestWorking
      BY <1>1, <1>3, WholeHas DEF GvisorRuns, LatestInv, Used, Stored, Saving, WriterInv, Running
    <2>3. Whole' /\ working'.manifest = working.manifest
      BY <1>1, <2>1, <2>2 DEF Whole, Typed, DiskOK, Workings
    <2>4. LatestWorking'
      BY <1>1, <2>1, <2>2 DEF LatestWorking, Recent, Typed, DiskOK, Workings, GhostsOK
    <2>5. OnSimple' = OnSimple
      BY <2>1 DEF OnSimple
    <2> USE <1>1, <1>2, <2>1, <2>2, <2>3, <2>4, <2>5 DEF LatestInv
    <2>6. Stored' /\ Used'
      BY DEF Stored, Used, Saving, GvisorRuns, SimpleRuns
    <2>7. Found'
      BY DEF Found
    <2>8. Moves' /\ Moments'
      BY DEF Moves, Moments, making
    <2> QED
      BY <2>6, <2>7, <2>8
  <1>4. CASE r = "simple"
    <2>1. tree' = [tree EXCEPT ![v] = writes + 1] /\ UNCHANGED working
      BY <1>4 DEF Write
    <2>2. SimpleRuns /\ ~HasCurrent /\ ~Whole /\ OnSimple /\ tree.system # Absent /\ LatestTree
          /\ ~GvisorRuns
      BY <1>1, <1>4, WholeHas DEF SimpleRuns, LatestInv, Used, Stored, WriterInv, Running
    <2>3. Whole' = Whole
      BY <2>1 DEF Whole
    <2>4. tree'.record = tree.record /\ OnSimple' /\ tree'.system # Absent
      BY <1>1, <2>1, <2>2 DEF OnSimple, Typed, DiskOK, Trees
    <2>5. LatestTree'
      BY <1>1, <2>1, <2>2 DEF LatestTree, Recent, Typed, DiskOK, Trees, GhostsOK
    <2>6. "publish" \in W /\ runtime = "simple" => "make" \in W
      BY <2>2 DEF WriterInv, Shapes, Running
    <2> USE <1>1, <1>2, <2>1, <2>2, <2>3, <2>4, <2>5, <2>6 DEF LatestInv
    <2>7. Stored' /\ Used'
      BY DEF Stored, Used, Saving, GvisorRuns, SimpleRuns
    <2>8. Found'
      BY DEF Found
    <2>9. Moves' /\ Moments'
      BY DEF Moves, Moments, making
    <2> QED
      BY <2>7, <2>8, <2>9
  <1> QED
    BY <1>3, <1>4 DEF Runtimes

LEMMA LatestInit == Init => LatestInv
  <1> SUFFICES ASSUME Init PROVE LatestInv
    OBVIOUS
  <1>1. W = {} /\ R = {}
    BY IdleAhead DEF Init, Idle
  <1>2. ~GvisorRuns /\ ~SimpleRuns /\ ~OnSimple /\ ~HasCurrent /\ ~Whole
    BY DEF Init, GvisorRuns, SimpleRuns, OnSimple, Whole, NoTree, NoWorking
  <1> USE <1>1, <1>2
  <1>3. Stored /\ Used
    BY DEF Init, Stored, Used, Saving, Nowhere
  <1>4. Found /\ Moves /\ Moments
    BY DEF Found, Moves, Moments, Copying
  <1> QED
    BY <1>3, <1>4 DEF LatestInv

LEMMA LatestStep ==
  ASSUME [Completes]_vars, Typed, WriterInv, Halted, LatestInv, [Next]_vars
  PROVE  LatestInv'
  <1>1. CASE UNCHANGED vars
    BY <1>1, LatestUnmoved DEF vars, process, memory
  <1>2. CASE \E r \in Runtimes : GuestExits(r)
    BY <1>2, LatestUnmoved DEF GuestExits, process, memory
  <1>3. CASE \E r \in Runtimes : \E v \in {"system", "home"} : Write(r, v)
    BY <1>3, LatestWrite
  <1> QED
    BY <1>1, <1>2, <1>3, LatestWorks, LatestRecovers, LatestManages DEF Next

-----------------------------------------------------------------------------
(* The theorems about what was last written.  The code can break each of   *)
(* them in two ways, and they are about the behaviours without such a step *)
(* (Completes): a removal that ends a move fails, and the worker goes on   *)
(* beside storage that the next worker takes for the device's; or a        *)
(* guest's exit is handled while a reconcile runs, whose recovery detaches *)
(* and removes the stage the worker moves the device from.                 *)

LEMMA LatestSpec ==
  Spec /\ [][Completes]_vars => [](Typed /\ WriterInv /\ Halted /\ LatestInv)
  <1>1. [Completes]_vars => [Removes]_vars
    BY DEF Completes, Removes
  <1>2. Init => Typed /\ WriterInv /\ Halted /\ LatestInv
    BY TypedInit, WriterInit, HaltedInit, LatestInit
  <1>3. Typed /\ WriterInv /\ Halted /\ LatestInv /\ [Next]_vars /\ [Completes]_vars
          => (Typed /\ WriterInv /\ Halted /\ LatestInv)'
    BY <1>1, TypedStep, WriterStep, HaltedStep, LatestStep
  <1> QED
    BY <1>2, <1>3, PTL DEF Spec

\* A guest runs on what the device's volumes last held, after any crash, failed
\* step, reset, handover and move: the worker saves a crash's working pair before
\* it stages the committed one, drops the older storage of a move cut short, and
\* takes a copy for the volumes only once it holds what they last held.  But not
\* after a removal that ends a move failed, nor once a guest's exit was handled
\* during a reconcile.
THEOREM StorageRunsLatest == Spec /\ [][Completes]_vars => []RunsLatest
  <1>1. Typed /\ WriterInv /\ LatestInv => RunsLatest
    <2> SUFFICES ASSUME Typed, WriterInv, LatestInv, NEW r \in guests
                 PROVE  Mounted(r) = <<live.system, live.home>>
      BY DEF RunsLatest
    <2>1. r \in {"gvisor", "simple"}
      BY DEF Typed, GhostsOK, Runtimes
    <2>2. CASE r = "gvisor"
      <3>1. LatestWorking
        BY <2>2 DEF GvisorRuns, LatestInv, Used, Stored
      <3> QED
        BY <2>2, <3>1 DEF Mounted, LatestWorking
    <2>3. CASE r = "simple"
      <3>1. ~HasCurrent /\ tree.system # Absent /\ OnSimple /\ ~Whole
        BY <2>3, WholeHas DEF SimpleRuns, LatestInv, Used, WriterInv, Running
      <3>2. LatestTree
        BY <3>1 DEF LatestInv, Stored
      <3> QED
        BY <2>3, <3>1, <3>2 DEF Mounted, LatestTree
    <2> QED
      BY <2>1, <2>2, <2>3
  <1> QED
    BY <1>1, LatestSpec, PTL

\* The home is never only where no start reads it: at every crash point the
\* committed pair, a working pair with its manifest or a tree with its record
\* holds what the guest last wrote to it, unless a removal that ends a move failed
\* or a guest's exit was handled during a reconcile.
THEOREM StorageHomeKept == Spec /\ [][Completes]_vars => []HomeKept
  <1>1. LatestInv => HomeKept
    BY DEF LatestInv, Stored, HomeKept, LatestWorking, LatestPair, LatestTree, Whole
  <1> QED
    BY <1>1, LatestSpec, PTL

\* A committed pair and a working pair are of one moment: a save, a checkpoint,
\* a reset and a move publish both volumes of it, never one of an earlier.  Not so
\* once a removal that ends a move failed, or once a guest's exit was handled
\* during a reconcile: a move may then have copied a stage half detached.
THEOREM StoragePaired == Spec /\ [][Completes]_vars => []Paired
  <1>1. Typed /\ LatestInv => Paired
    BY LivePair DEF LatestInv, Moments, Stored, LatestWorking, Paired
  <1> QED
    BY <1>1, LatestSpec, PTL

\* A reset that was answered clears no system again: on either runtime the id
\* the storage keeps is not older than the last answer, through restarts, saves
\* and moves, and a reset with that id leaves the system.  Storage that a move
\* left because its removal failed has an older id, and the next worker may take
\* it up: such behaviours are excepted, and those in which a guest's exit is
\* handled during a reconcile, which the invariant behind this proof excludes.
THEOREM StorageResetOnce == Spec /\ [][Completes]_vars => ResetOnce
  <1>1. ASSUME Typed, WriterInv, LatestInv, Next, live'.system = 0, live.system # 0
        PROVE  op # answered
    <2>1. CASE Wipe
      <3>1. At("worker", "wipe") /\ current.reset # op
        BY <1>1, <2>1 DEF Wipe, ghosts
      <3>2. "wipe" \in W /\ runtime = "gvisor" /\ \E rest \in SUBSET {"answer"} : W = {"wipe"} \cup rest
        BY <1>1, <3>1, WorkerHas, AfterValues DEF GvisorSteps
      <3>3. ~Whole /\ HasCurrent /\ op = asked
        BY <1>1, <3>2 DEF LatestInv, Found, Whole
      <3>4. LatestPair
        BY <1>1, <3>2, <3>3 DEF LatestInv, Stored
      <3> QED
        BY <1>1, <3>1, <3>3, <3>4, LivePair DEF LatestPair, Recent, Typed, DiskOK, Pairs, Ids
    <2>2. CASE In
      <3>1. At("worker", "in")
        BY <2>2 DEF In
      <3>2. "in" \in W /\ \E rest \in SUBSET {"pin", "discard", "answer"} : W = {"in"} \cup rest
        BY <1>1, <3>1, WorkerHas, AfterValues
      <3>3. OnSimple /\ op = asked /\ tree.record # op
        BY <1>1, <3>2 DEF LatestInv, Found
      <3>4. LatestTree
        BY <1>1, <3>2, <3>3, TreeHas
      <3> QED
        BY <1>1, <3>3, <3>4, LivePair DEF LatestTree, Recent, Typed, DiskOK, Trees, Ids
    <2>3. CASE \E r \in Runtimes : \E v \in {"system", "home"} : Write(r, v)
      <3>1. PICK v \in {"system", "home"} : live' = [live EXCEPT ![v] = writes + 1]
        BY <2>3 DEF Write
      <3> QED
        BY <1>1, <3>1, LivePair DEF Typed, GhostsOK
    <2>4. CASE Worker /\ ~Wipe /\ ~In
      <3>1. UNCHANGED live
        BY <2>4 DEF Worker, ghosts, Operate, Settle, Move, Moved, Pick, Interrupted, Save, Clear,
           First, StageWorking, Record, Start, Abort, Halt, Close, Capture, Publish, Answer,
           Plant, End, Unnote, Boot, Note, Out, Pin, Discard, Mount, CopyVolume, Raze, Build,
           DropCurrent, DropGenerations, Make, DropRecord, DropTree, StepFails
      <3> QED
        BY <1>1, <3>1
    <2>5. CASE Recover \/ Manage \/ \E r \in Runtimes : GuestExits(r)
      <3>1. UNCHANGED live
        BY <2>5 DEF Recover, Manage, ghosts, Sweep, Unstage, FenceSimple, DetachStages, RemoveStages,
           Fence, Save, Clear, Serve, StepFails, Launch, Crash, Wake, Hibernate, Checkpoint,
           Reset, SettleStopped, Request, SetIsolation, Reconcile, Exited, Signal, Drain, Exit,
           Leave, GuestExits
      <3> QED
        BY <1>1, <3>1
    <2> QED
      BY <1>1, <2>1, <2>2, <2>3, <2>4, <2>5 DEF Next
  <1>2. Typed /\ WriterInv /\ LatestInv /\ [Next]_vars
          => [live'.system = 0 /\ live.system # 0 => op # answered]_vars
    BY <1>1
  <1> QED
    BY <1>2, LatestSpec, PTL DEF Spec, ResetOnce
====
