--------------------------- MODULE BallGameProofs ---------------------------
(***************************************************************************)
(* Proofs about BallGame for any number of children and both versions: the *)
(* signals hand one token round, so that none is lost and no handler       *)
(* interrupts another that still has something to do; what the parent and  *)
(* the children note of a ball agrees with what has happened; and only the *)
(* child that has never missed can claim to have won.                      *)
(***************************************************************************)
EXTENDS BallGame, FiniteSetTheorems, SequenceTheorems, WellFoundedInduction, TLAPS

-----------------------------------------------------------------------------
(* The inductive invariant *)

Signals == {"SIGUSR1", "SIGUSR2", "SIGINT"}
Process == parent..dummy

ChildSteps(sig) ==
    CASE sig = "SIGUSR1" -> {"print", "pass", "return"}
      [] sig = "SIGUSR2" -> {"receive", "tellcatch", "tellmiss", "return"}
      [] sig = "SIGINT" -> {"exit"}

ParentSteps == {"fork", "file", "show", "wait", "note", "end", "reap", "next", "throw",
                "return"}
MainSteps == {"while", "throw", "test", "pause", "paused", "note", "fork", "file", "show",
              "wait", "next", "end", "reap"}

HandlerSteps == {"print", "pass", "receive", "tellcatch", "tellmiss", "exit"} \cup ParentSteps

Running == [sig : Signals, at : HandlerSteps]

SignalTypes ==
    /\ version \in {"student", "instructor"}
    /\ pending \in [Process -> SUBSET Signals]
    /\ handlers \in [Process -> Seq(Running)]
    /\ exited \subseteq Process
    /\ pc \in IF version = "student" THEN MainSteps ELSE {"throw", "paused"}

ParentTypes ==
    /\ current_player \in Player
    /\ child_status \in [Player -> {"PLAYING", "OUTOFGAME"}]
    /\ players_remaining \in Nat
    /\ received_signal \in {"none", "SIGUSR1", "SIGUSR2"}
    /\ closing \in 1..dummy /\ dummycpid \in BOOLEAN

Entries == [by : Player, text : {"MISS", "blank", "CATCH", "dots"}]

ChildTypes ==
    /\ my_status \in [Player -> {"PLAYING", "OUTOFGAME"}]
    /\ last_action \in [Player -> {"PLAYING", "CATCHMADE"}]
    /\ just_missed \in [Player -> BOOLEAN]
    /\ state \in [Player -> {"PLAYING", "HAVEBALL", "BALLMISSED", "OUTOFGAME"}]
    /\ line \in Seq(Entries)
    /\ ball \in [to : Player, caught : BOOLEAN]
    /\ missed \subseteq Player /\ winners \subseteq Player

Types == SignalTypes /\ ParentTypes /\ ChildTypes

(* A handler of a child that has nothing to do any more but to return; the *)
(* instructor's looks once more whether it has a miss to tell.             *)
Idle(c, h) ==
    \/ h.at = "return"
    \/ h.at = "tellmiss" /\ version = "instructor" /\ state[c] # "BALLMISSED"

(* Each signal has at most one handler running, and only the innermost has *)
(* something to do.                                                        *)
ChildStack(c) ==
    /\ \A i \in DOMAIN handlers[c] :
          /\ handlers[c][i].at \in ChildSteps(handlers[c][i].sig)
          /\ i # Len(handlers[c]) => Idle(c, handlers[c][i])
    /\ \A i, j \in DOMAIN handlers[c] :
          handlers[c][i].sig = handlers[c][j].sig => i = j

ParentStack ==
    /\ version = "student" \/ pc = "throw" => handlers[parent] = <<>>
    /\ \A i \in DOMAIN handlers[parent] :
          /\ handlers[parent][i].at \in ParentSteps
          /\ i # Len(handlers[parent]) => handlers[parent][i].at = "return"

Stacks == ParentStack /\ \A c \in Player : ChildStack(c)

(* Where a child is, ... *)
spot ==
    [c \in Player |->
        IF c \in exited \/ handlers[c] = <<>> THEN "idle"
        ELSE IF Idle(c, Inner(c)) THEN "idle" ELSE Inner(c).at]

(* ... and the parent: a handler of the instructor's that has only to      *)
(* return waits as main does.                                              *)
post ==
    IF version = "student" \/ pc = "throw" THEN pc
    ELSE IF handlers[parent] = <<>> THEN "paused"
    ELSE IF Inner(parent).at = "return" THEN "paused" ELSE Inner(parent).at

(* The answer that the parent has got. *)
answer ==
    IF version = "student" THEN received_signal
    ELSE IF post \in {"throw", "paused"} THEN "none" ELSE Inner(parent).sig

Result == IF ball.caught THEN "SIGUSR1" ELSE "SIGUSR2"

(* What the parent waits for. *)
AwaitsAnswer == post \in {"test", "pause", "paused"} /\ answer = "none"
AwaitsLine == post = "wait" /\ dummy \notin exited
AwaitsEnd == post = "reap" /\ parent \notin exited /\ closing \notin exited

(* The token: nothing is sent to, and nothing done by, anybody but p.      *)
Alone(p) ==
    /\ \A q \in Process : q # p => pending[q] = {}
    /\ \A c \in Player : c # p => spot[c] = "idle"

Calm == /\ \A q \in Process : pending[q] = {}
        /\ \A c \in Player : spot[c] = "idle"

Sent(p, sig) == Alone(p) /\ pending[p] = {sig} /\ (p \in Player => spot[p] = "idle")
Busy(c, at) == Alone(c) /\ pending[c] = {} /\ spot[c] \in at

Flying == Sent(current_player, "SIGUSR2") \/ Busy(current_player, {"receive"})
Telling ==
    Busy(current_player, IF version = "instructor" THEN {"tellcatch", "tellmiss"}
                         ELSE {IF ball.caught THEN "tellcatch" ELSE "tellmiss"})

Token ==
    /\ AwaitsAnswer => Flying \/ Telling \/ Sent(parent, Result)
    /\ AwaitsLine => \/ \E c \in Player : Sent(c, "SIGUSR1") \/ Busy(c, {"print", "pass"})
                     \/ Sent(dummy, "SIGINT")
    /\ AwaitsEnd => Sent(closing, "SIGINT") \/ Busy(closing, {"exit"})
    /\ ~AwaitsAnswer /\ ~AwaitsLine /\ ~AwaitsEnd => Calm

(* Who has exited. *)
Exits ==
    /\ dummy \notin exited => post \in {"file", "show", "wait"}
    /\ post \in {"file", "show"} => dummy \notin exited
    /\ post \in {"show", "wait"} => dummycpid
    /\ parent \in exited => post = "reap" /\ closing = dummy
    /\ closing = dummy => parent \in exited
    /\ \A c \in Player :
          /\ c < closing => c \in exited
          /\ c \in exited => c < closing \/ (c = closing /\ post = "reap")
    /\ post \notin {"end", "reap"} => closing = 1

(* The answer has been noted, or there is none yet. *)
Noted ==
    \/ post \in {"while", "throw", "next", "end", "reap"}
    \/ AwaitsAnswer /\ Flying
    \/ version = "student" /\ post \in {"fork", "file", "show", "wait"}

InPlay == {c \in Player : child_status[c] = "PLAYING"}

(* The parent's table, and the answer it has got, agree with the ball. *)
Turn == post = "throw" \/ AwaitsAnswer \/ ~Noted \/ (post = "while" /\ players_remaining > 1)

Table ==
    /\ \A c \in Player :
          child_status[c] = "OUTOFGAME" <=> c \in missed /\ (Noted \/ c # current_player)
    /\ ball.to \in missed <=> ~ball.caught
    /\ ~Noted \/ post \in {"fork", "file", "show", "wait"} => ball.to = current_player
    /\ Turn => current_player \in InPlay
    /\ post \in {"test", "pause", "paused", "note"} /\ answer # "none" => answer = Result
    /\ post \in {"fork", "file", "show", "wait"} => answer = Result
    /\ post = "throw" => answer = "none"
    /\ post = "note" => answer # "none"

Count ==
    /\ players_remaining = Cardinality(InPlay)
    /\ post \in {"end", "reap"} => players_remaining = 1
    /\ version = "student" =>
          /\ players_remaining > 0
          /\ post \in {"throw", "test", "pause", "paused", "note"} => players_remaining > 1

(* The entry of c is still to come in the line that is printed. *)
ToPrint(c) ==
    \/ \E d \in Player : d <= c /\ (Sent(d, "SIGUSR1") \/ Busy(d, {"print"}))
    \/ \E d \in Player : d < c /\ Busy(d, {"pass"})

(* The last ball went to c and the line has not told it. *)
Untold(c) ==
    /\ c = ball.to
    /\ \/ ~AwaitsAnswer /\ post \in {"test", "pause", "paused", "fork", "file", "show"}
       \/ AwaitsAnswer /\ ~Flying
       \/ version = "student" /\ post = "note"
       \/ AwaitsLine /\ ToPrint(c)

Notes ==
    \A c \in Player :
        IF version = "student"
        THEN /\ just_missed[c] <=> Untold(c) /\ ~ball.caught
             /\ last_action[c] = "CATCHMADE" <=> Untold(c) /\ ball.caught
             /\ my_status[c] = "OUTOFGAME" <=> c \in missed /\ (Untold(c) => ball.caught)
        ELSE state[c] = IF Untold(c) THEN IF ball.caught THEN "HAVEBALL" ELSE "BALLMISSED"
                        ELSE IF c \in missed THEN "OUTOFGAME" ELSE "PLAYING"

(* What of the line has been printed is right. *)
Printed(k) ==
    /\ Len(line) = k
    /\ \A i \in 1..k : line[i] = [by |-> i, text |-> Happened(i)]

Lines ==
    /\ AwaitsLine =>
          \A c \in Player :
              /\ Sent(c, "SIGUSR1") \/ Busy(c, {"print"}) =>
                    Printed(c - 1) \/ (c = 1 /\ Len(line) = n)
              /\ Busy(c, {"pass"}) => Printed(c)
    /\ ~AwaitsLine \/ Sent(dummy, "SIGINT") => Len(line) \in {0, n}

Claims == \A c \in Player : c \in winners <=> c \in exited /\ c \notin missed

Game == Token /\ Exits /\ Table /\ Count /\ Notes /\ Lines /\ Claims

Inv == Types /\ Stacks /\ Game

-----------------------------------------------------------------------------
(* Processes and handlers *)

(* Who is who. *)
LEMMA Processes ==
    /\ parent \in Process /\ dummy \in Process /\ \A c \in Player : c \in Process
    /\ \A c \in Player : c # parent /\ c # dummy /\ c \in Nat /\ c >= 1 /\ c <= n
    /\ parent # dummy /\ n \in Nat /\ n >= 1
BY GameAssumption DEF Process, Player, parent, dummy

(* The innermost handler goes to another step. *)
LEMMA ToStep ==
    ASSUME handlers \in [Process -> Seq(Running)], NEW p \in Process, NEW at \in HandlerSteps, handlers[p] # <<>>, To(p, at)
    PROVE  /\ handlers' \in [Process -> Seq(Running)]
           /\ \A q \in Process : q # p => handlers'[q] = handlers[q]
           /\ Len(handlers[p]) \in DOMAIN handlers[p]
           /\ Len(handlers'[p]) = Len(handlers[p]) /\ handlers'[p] # <<>>
           /\ DOMAIN handlers'[p] = DOMAIN handlers[p]
           /\ \A i \in DOMAIN handlers[p] :
                 /\ handlers'[p][i].sig = handlers[p][i].sig
                 /\ i # Len(handlers[p]) => handlers'[p][i] = handlers[p][i]
           /\ Inner(p)' = [sig |-> Inner(p).sig, at |-> at]
<1> DEFINE s == handlers[p]
           t == [s EXCEPT ![Len(s)].at = at]
<1>0. s \in Seq(Running)
      OBVIOUS
<1>1. /\ s \in Seq(Running) /\ Len(s) \in Nat /\ DOMAIN s = 1..Len(s)
      /\ \A i \in 1..Len(s) : s[i] \in Running
  <2> HIDE DEF s
  <2> QED BY <1>0, LenProperties
<1>2. Len(s) # 0
      BY <1>1, EmptySeq
<1>3. Len(s) \in 1..Len(s)
      BY <1>1, <1>2
<1>4. handlers' = [handlers EXCEPT ![p] = t]
      BY DEF To
<1>5. s[Len(s)] = [sig |-> s[Len(s)].sig, at |-> s[Len(s)].at] /\ s[Len(s)].sig \in Signals
      BY <1>1, <1>3 DEF Running
<1>6. t[Len(s)] = [sig |-> s[Len(s)].sig, at |-> at]
      BY <1>1, <1>3, <1>5
<1>7. /\ DOMAIN t = DOMAIN s
      /\ \A i \in 1..Len(s) : i # Len(s) => t[i] = s[i]
      BY <1>1, <1>3
<1>8. t[Len(s)] \in Running
      BY <1>5, <1>6 DEF Running
<1>9. t = [i \in 1..Len(s) |-> t[i]] /\ \A i \in 1..Len(s) : t[i] \in Running
  <2> HIDE DEF t
  <2>1. t = [i \in DOMAIN t |-> t[i]]
        BY <1>4 DEF t
  <2> QED BY <1>1, <1>3, <1>7, <1>8, <2>1
<1>10. t \in Seq(Running) /\ Len(t) = Len(s) /\ t # <<>>
  <2> HIDE DEF t
  <2>1. t \in [1..Len(s) -> Running]
        BY <1>9
  <2>2. t \in Seq(Running)
        BY <1>1, <2>1, SeqDef
  <2>3. Len(t) = Len(s)
        BY <1>1, <2>1, <2>2, LenProperties
  <2> QED BY <1>2, <2>2, <2>3, EmptySeq
<1>11. handlers' \in [Process -> Seq(Running)] /\ handlers'[p] = t
      /\ \A q \in Process : q # p => handlers'[q] = handlers[q]
  <2> HIDE DEF t
  <2> QED BY <1>4, <1>10
<1>12. Inner(p)' = t[Len(s)] /\ Inner(p) = s[Len(s)]
  <2> HIDE DEF t
  <2> QED BY <1>10, <1>11 DEF Inner
<1>13. \A i \in 1..Len(s) : t[i].sig = s[i].sig
      BY <1>6, <1>7
<1> QED
  <2> HIDE DEF t
  <2> QED BY <1>1, <1>3, <1>6, <1>7, <1>10, <1>11, <1>12, <1>13

(* A handler is called on top of the others. *)
LEMMA CallStep ==
    ASSUME handlers \in [Process -> Seq(Running)], NEW p \in Process, NEW sig \in Signals, NEW at \in HandlerSteps, Call(p, sig, at)
    PROVE  /\ handlers' \in [Process -> Seq(Running)]
           /\ \A q \in Process : q # p => handlers'[q] = handlers[q]
           /\ Len(handlers[p]) \in Nat /\ DOMAIN handlers[p] = 1..Len(handlers[p])
           /\ Len(handlers'[p]) = Len(handlers[p]) + 1 /\ handlers'[p] # <<>>
           /\ DOMAIN handlers'[p] = 1..(Len(handlers[p]) + 1)
           /\ \A i \in DOMAIN handlers[p] : handlers'[p][i] = handlers[p][i]
           /\ handlers'[p][Len(handlers[p]) + 1] = [sig |-> sig, at |-> at]
           /\ Inner(p)' = [sig |-> sig, at |-> at]
<1> DEFINE s == handlers[p]
           h == [sig |-> sig, at |-> at]
           t == Append(s, h)
<1>0. s \in Seq(Running) /\ h \in Running
      BY DEF Running
<1>1. /\ s \in Seq(Running) /\ Len(s) \in Nat /\ DOMAIN s = 1..Len(s) /\ h \in Running
  <2> HIDE DEF s, h
  <2> QED BY <1>0, LenProperties
<1>2. handlers' = [handlers EXCEPT ![p] = t]
      BY DEF Call
<1>3. /\ t \in Seq(Running) /\ Len(t) = Len(s) + 1 /\ t[Len(s) + 1] = h
      /\ DOMAIN t = 1..(Len(s) + 1) /\ \A i \in 1..Len(s) : t[i] = s[i]
      BY <1>1, AppendProperties
<1>4. t # <<>>
      BY <1>1, <1>3
<1>5. handlers' \in [Process -> Seq(Running)] /\ handlers'[p] = t
      /\ \A q \in Process : q # p => handlers'[q] = handlers[q]
  <2> HIDE DEF t
  <2> QED BY <1>2, <1>3
<1>6. Inner(p)' = h
  <2> HIDE DEF t, h
  <2> QED BY <1>3, <1>5 DEF Inner
<1> QED
  <2> HIDE DEF t, h
  <2> QED BY <1>1, <1>3, <1>4, <1>5, <1>6 DEF h

(* The innermost handler returns. *)
LEMMA ReturnStep ==
    ASSUME handlers \in [Process -> Seq(Running)], NEW p \in Process, Return(p)
    PROVE  /\ handlers' \in [Process -> Seq(Running)]
           /\ \A q \in Process : q # p => handlers'[q] = handlers[q]
           /\ Len(handlers[p]) \in Nat \ {0} /\ Len(handlers'[p]) = Len(handlers[p]) - 1
           /\ DOMAIN handlers[p] = 1..Len(handlers[p])
           /\ DOMAIN handlers'[p] = 1..(Len(handlers[p]) - 1)
           /\ handlers'[p] = <<>> <=> Len(handlers[p]) = 1
           /\ \A i \in 1..(Len(handlers[p]) - 1) : handlers'[p][i] = handlers[p][i]
<1> DEFINE s == handlers[p]
           t == SubSeq(s, 1, Len(s) - 1)
<1>0. s \in Seq(Running) /\ s # <<>>
      BY DEF Return, In
<1>1. /\ s \in Seq(Running) /\ Len(s) \in Nat /\ DOMAIN s = 1..Len(s) /\ s # <<>>
  <2> HIDE DEF s
  <2> QED BY <1>0, LenProperties
<1>2. Len(s) \in Nat \ {0}
      BY <1>1, EmptySeq
<1>3. handlers' = [handlers EXCEPT ![p] = t]
      BY DEF Return
<1>4. /\ t \in Seq(Running) /\ Len(t) = Len(s) - 1
      /\ DOMAIN t = 1..(Len(s) - 1) /\ \A i \in 1..(Len(s) - 1) : t[i] = s[i]
  <2>1. s \in Seq(Running) /\ 1 \in 1..(Len(s) + 1) /\ Len(s) - 1 \in 0..Len(s)
        BY <1>1, <1>2
  <2> QED BY <1>1, <1>2, <2>1, SubSeqProperties
<1>5. t = <<>> <=> Len(s) = 1
  <2> HIDE DEF s, t
  <2>1. t = <<>> => Len(t) = 0
        BY EmptySeq
  <2>2. t # <<>> => Len(t) # 0
        BY <1>4, EmptySeq
  <2> QED BY <1>2, <1>4, <2>1, <2>2
<1>6. handlers' \in [Process -> Seq(Running)] /\ handlers'[p] = t
      /\ \A q \in Process : q # p => handlers'[q] = handlers[q]
  <2> HIDE DEF t
  <2> QED BY <1>3, <1>4
<1> QED
  <2> HIDE DEF t
  <2> QED BY <1>1, <1>2, <1>4, <1>5, <1>6

-----------------------------------------------------------------------------
(* What the steps of the children do to the spots *)

(* What the others, and the stacks below, keep. *)
KeepsParent ==
    /\ version' = version /\ pc' = pc /\ exited' = exited
    /\ received_signal' = received_signal

SpotAt(c, at) ==
    IF at = "return" \/ (at = "tellmiss" /\ version = "instructor" /\ state[c] # "BALLMISSED")
    THEN "idle" ELSE at

(* The parent's place and answer depend on its own variables only. *)
LEMMA ParentKept ==
    ASSUME KeepsParent, handlers'[parent] = handlers[parent]
    PROVE  post' = post /\ answer' = answer
<1>1. Inner(parent)' = Inner(parent)
      BY DEF Inner
<1>2. post' = post
      BY <1>1 DEF post, KeepsParent
<1> QED BY <1>1, <1>2 DEF answer, KeepsParent

(* A child's innermost handler goes to a step of its own. *)
LEMMA ChildTo ==
    ASSUME Types, Stacks, NEW c \in Player, NEW at \in HandlerSteps, NEW from,
           In(c, from), To(c, at), KeepsParent, at \in ChildSteps(Inner(c).sig),
           \A d \in Player : d # c => state'[d] = state[d],
           state'[c] = "BALLMISSED" => state[c] = "BALLMISSED" \/ Inner(c).sig = "SIGUSR2"
    PROVE  /\ handlers' \in [Process -> Seq(Running)] /\ Stacks'
           /\ post' = post /\ answer' = answer
           /\ spot' = [spot EXCEPT ![c] = SpotAt(c, at)']
<1>1. c \in Process /\ parent \in Process /\ c # parent /\ c \notin exited
      /\ handlers[c] # <<>> /\ \A d \in Player : d \in Process /\ d # parent
      BY Processes DEF In
<1>2. /\ handlers' \in [Process -> Seq(Running)]
      /\ \A q \in Process : q # c => handlers'[q] = handlers[q]
      /\ Len(handlers[c]) \in DOMAIN handlers[c]
      /\ Len(handlers'[c]) = Len(handlers[c]) /\ handlers'[c] # <<>>
      /\ DOMAIN handlers'[c] = DOMAIN handlers[c]
      /\ \A i \in DOMAIN handlers[c] :
            /\ handlers'[c][i].sig = handlers[c][i].sig
            /\ i # Len(handlers[c]) => handlers'[c][i] = handlers[c][i]
      /\ Inner(c)' = [sig |-> Inner(c).sig, at |-> at]
      BY <1>1, ToStep DEF Types, SignalTypes
<1>3. post' = post /\ answer' = answer
      BY <1>1, <1>2, ParentKept
<1>4. ChildStack(c)'
  <2>1. ASSUME NEW i \in DOMAIN handlers'[c]
        PROVE  /\ handlers'[c][i].at \in ChildSteps(handlers'[c][i].sig)
               /\ i # Len(handlers'[c]) => Idle(c, handlers[c][i])'
    <3>1. CASE i = Len(handlers'[c])
          BY <1>2, <2>1, <3>1 DEF Inner
    <3>2. CASE i # Len(handlers'[c])
      <4>1. /\ i \in DOMAIN handlers[c] /\ i # Len(handlers[c])
            /\ handlers'[c][i] = handlers[c][i]
            BY <1>2, <2>1, <3>2
      <4>2. /\ handlers[c][i].at \in ChildSteps(handlers[c][i].sig)
            /\ Idle(c, handlers[c][i])
            /\ handlers[c][i].sig # Inner(c).sig
            BY <1>2, <4>1 DEF Stacks, ChildStack, Inner
      <4>3. handlers[c][i].sig \in Signals /\ Inner(c).sig \in Signals
        <5>1. handlers[c] \in Seq(Running)
              BY <1>1 DEF Types, SignalTypes
        <5>2. \A j \in DOMAIN handlers[c] : handlers[c][j] \in Running
              BY <5>1, LenProperties
        <5> QED BY <1>2, <4>1, <5>2 DEF Running, Inner
      <4>4. handlers[c][i].at = "tellmiss" => handlers[c][i].sig = "SIGUSR2"
            BY <4>2, <4>3 DEF ChildSteps, Signals
      <4> QED BY <4>1, <4>2, <4>4 DEF Idle, KeepsParent
    <3> QED BY <3>1, <3>2
  <2>2. ASSUME NEW i \in DOMAIN handlers'[c], NEW j \in DOMAIN handlers'[c],
               handlers'[c][i].sig = handlers'[c][j].sig
        PROVE  i = j
        BY <1>2, <2>2 DEF Stacks, ChildStack
  <2> QED BY <2>1, <2>2 DEF ChildStack
<1>5. Stacks'
  <2>1. ParentStack'
        BY <1>1, <1>2 DEF Stacks, ParentStack, KeepsParent
  <2>2. ASSUME NEW d \in Player, d # c PROVE ChildStack(d)'
    <3>1. handlers'[d] = handlers[d] /\ state'[d] = state[d]
          BY <1>1, <1>2, <2>2
    <3>2. ChildStack(d)
          BY DEF Stacks
    <3> QED BY <3>1, <3>2 DEF ChildStack, Idle, KeepsParent
  <2> QED BY <1>4, <2>1, <2>2 DEF Stacks
<1>6. spot' = [spot EXCEPT ![c] = SpotAt(c, at)']
  <2>1. spot'[c] = SpotAt(c, at)'
        BY <1>1, <1>2 DEF spot, SpotAt, Idle, KeepsParent
  <2>2. ASSUME NEW d \in Player, d # c PROVE spot'[d] = spot[d]
    <3>1. handlers'[d] = handlers[d] /\ state'[d] = state[d]
          BY <1>1, <1>2, <2>2
    <3> QED BY <3>1 DEF spot, Idle, Inner, KeepsParent
  <2>3. spot = [d \in Player |-> spot[d]] /\ spot' = [d \in Player |-> spot'[d]]
        BY DEF spot
  <2> QED BY <2>1, <2>2, <2>3
<1> QED BY <1>2, <1>3, <1>5, <1>6

(* A handler of a child is called. *)
LEMMA ChildCall ==
    ASSUME Types, Stacks, NEW c \in Player, NEW sig \in Signals, NEW at \in HandlerSteps,
           Call(c, sig, at), at \in ChildSteps(sig), spot[c] = "idle",
           at \notin {"return", "tellmiss"}
    PROVE  /\ handlers' \in [Process -> Seq(Running)] /\ Stacks'
           /\ post' = post /\ answer' = answer
           /\ spot' = [spot EXCEPT ![c] = at]
<1>1. c \in Process /\ parent \in Process /\ c # parent /\ c \notin exited
      /\ \A d \in Player : d \in Process /\ d # parent
      BY Processes DEF Call, Deliverable
<1>2. /\ handlers' \in [Process -> Seq(Running)]
      /\ \A q \in Process : q # c => handlers'[q] = handlers[q]
      /\ Len(handlers[c]) \in Nat /\ DOMAIN handlers[c] = 1..Len(handlers[c])
      /\ Len(handlers'[c]) = Len(handlers[c]) + 1 /\ handlers'[c] # <<>>
      /\ DOMAIN handlers'[c] = 1..(Len(handlers[c]) + 1)
      /\ \A i \in DOMAIN handlers[c] : handlers'[c][i] = handlers[c][i]
      /\ handlers'[c][Len(handlers[c]) + 1] = [sig |-> sig, at |-> at]
      /\ Inner(c)' = [sig |-> sig, at |-> at]
      BY <1>1, CallStep DEF Types, SignalTypes
<1>3. KeepsParent /\ state' = state
      BY DEF Call, KeepsParent, parentVars, childVars
<1>4. post' = post /\ answer' = answer
      BY <1>1, <1>2, <1>3, ParentKept
<1>5. ChildStack(c)'
  <2>1. \A i \in DOMAIN handlers[c] : handlers[c][i].sig # sig
        BY DEF Call, Deliverable
  <2>2. \A i \in DOMAIN handlers[c] : Idle(c, handlers[c][i])
    <3>1. handlers[c] # <<>> => Idle(c, Inner(c))
      <4> SUFFICES ASSUME handlers[c] # <<>>, ~Idle(c, Inner(c)) PROVE FALSE
          OBVIOUS
      <4>1. Inner(c).at = "idle"
            BY <1>1 DEF spot
      <4>2. Len(handlers[c]) \in DOMAIN handlers[c]
        <5>1. Len(handlers[c]) # 0
              BY <1>1, EmptySeq DEF Types, SignalTypes
        <5> QED BY <1>2, <5>1
      <4>3. Inner(c).at \in ChildSteps(Inner(c).sig) /\ Inner(c) \in Running
        <5>1. handlers[c] \in Seq(Running)
              BY <1>1 DEF Types, SignalTypes
        <5> QED BY <4>2, <5>1, LenProperties DEF Stacks, ChildStack, Inner
      <4> QED BY <4>1, <4>3 DEF ChildSteps, Running, Signals
    <3>2. ASSUME NEW i \in DOMAIN handlers[c], i = Len(handlers[c])
          PROVE  handlers[c] # <<>> /\ handlers[c][i] = Inner(c)
          BY <3>2 DEF Inner
    <3> QED BY <3>1, <3>2 DEF Stacks, ChildStack
  <2>3. ASSUME NEW i \in 1..(Len(handlers[c]) + 1)
        PROVE  /\ handlers'[c][i].at \in ChildSteps(handlers'[c][i].sig)
               /\ i # Len(handlers'[c]) => Idle(c, handlers[c][i])'
    <3>1. CASE i = Len(handlers[c]) + 1
          BY <1>2, <3>1
    <3>2. CASE i # Len(handlers[c]) + 1
      <4>1. i \in DOMAIN handlers[c] /\ handlers'[c][i] = handlers[c][i]
            BY <1>2, <2>3, <3>2
      <4> QED BY <1>3, <2>2, <4>1 DEF Stacks, ChildStack, Idle, KeepsParent
    <3> QED BY <3>1, <3>2
  <2>4. ASSUME NEW i \in 1..(Len(handlers[c]) + 1), NEW j \in 1..(Len(handlers[c]) + 1),
               handlers'[c][i].sig = handlers'[c][j].sig
        PROVE  i = j
    <3>1. \A k \in 1..(Len(handlers[c]) + 1) :
             IF k = Len(handlers[c]) + 1 THEN handlers'[c][k].sig = sig
             ELSE k \in DOMAIN handlers[c] /\ handlers'[c][k] = handlers[c][k]
          BY <1>2
    <3> QED BY <2>1, <2>4, <3>1 DEF Stacks, ChildStack
  <2> QED BY <1>2, <2>3, <2>4 DEF ChildStack
<1>6. Stacks'
  <2>1. ParentStack'
        BY <1>1, <1>2, <1>3 DEF Stacks, ParentStack, KeepsParent
  <2>2. ASSUME NEW d \in Player, d # c PROVE ChildStack(d)'
    <3>1. handlers'[d] = handlers[d]
          BY <1>1, <1>2, <2>2
    <3>2. ChildStack(d)
          BY DEF Stacks
    <3> QED BY <1>3, <3>1, <3>2 DEF ChildStack, Idle, KeepsParent
  <2> QED BY <1>5, <2>1, <2>2 DEF Stacks
<1>7. spot' = [spot EXCEPT ![c] = at]
  <2>1. spot'[c] = at
        BY <1>1, <1>2, <1>3 DEF spot, Idle, KeepsParent
  <2>2. ASSUME NEW d \in Player, d # c PROVE spot'[d] = spot[d]
    <3>1. handlers'[d] = handlers[d]
          BY <1>1, <1>2, <2>2
    <3> QED BY <1>3, <3>1 DEF spot, Idle, Inner, KeepsParent
  <2>3. spot = [d \in Player |-> spot[d]] /\ spot' = [d \in Player |-> spot'[d]]
        BY DEF spot
  <2> QED BY <2>1, <2>2, <2>3
<1> QED BY <1>2, <1>4, <1>6, <1>7

(* A handler of a child that has nothing else to do returns. *)
LEMMA ChildReturn ==
    ASSUME Types, Stacks, NEW c \in Player, Return(c)
    PROVE  /\ handlers' \in [Process -> Seq(Running)] /\ Stacks'
           /\ post' = post /\ answer' = answer /\ spot' = spot
<1>1. c \in Process /\ parent \in Process /\ c # parent /\ c \notin exited
      /\ handlers[c] # <<>> /\ Inner(c).at = "return"
      /\ \A d \in Player : d \in Process /\ d # parent
      BY Processes DEF Return, In
<1>2. /\ handlers' \in [Process -> Seq(Running)]
      /\ \A q \in Process : q # c => handlers'[q] = handlers[q]
      /\ Len(handlers[c]) \in Nat \ {0} /\ Len(handlers'[c]) = Len(handlers[c]) - 1
      /\ DOMAIN handlers[c] = 1..Len(handlers[c])
      /\ DOMAIN handlers'[c] = 1..(Len(handlers[c]) - 1)
      /\ handlers'[c] = <<>> <=> Len(handlers[c]) = 1
      /\ \A i \in 1..(Len(handlers[c]) - 1) : handlers'[c][i] = handlers[c][i]
      BY <1>1, ReturnStep DEF Types, SignalTypes
<1>3. KeepsParent /\ state' = state
      BY DEF Return, KeepsParent, parentVars, childVars
<1>4. post' = post /\ answer' = answer
      BY <1>1, <1>2, <1>3, ParentKept
<1>5. \A i \in 1..(Len(handlers[c]) - 1) :
         /\ i \in DOMAIN handlers[c] /\ i # Len(handlers[c])
         /\ handlers'[c][i] = handlers[c][i]
         /\ handlers[c][i].at \in ChildSteps(handlers[c][i].sig)
         /\ Idle(c, handlers[c][i]) /\ Idle(c, handlers[c][i])'
  <2> SUFFICES ASSUME NEW i \in 1..(Len(handlers[c]) - 1)
               PROVE  /\ i \in DOMAIN handlers[c] /\ i # Len(handlers[c])
                      /\ handlers'[c][i] = handlers[c][i]
                      /\ handlers[c][i].at \in ChildSteps(handlers[c][i].sig)
                      /\ Idle(c, handlers[c][i]) /\ Idle(c, handlers[c][i])'
      OBVIOUS
  <2>1. i \in DOMAIN handlers[c] /\ i # Len(handlers[c]) /\ handlers'[c][i] = handlers[c][i]
        BY <1>2
  <2>2. handlers[c][i].at \in ChildSteps(handlers[c][i].sig) /\ Idle(c, handlers[c][i])
        BY <2>1 DEF Stacks, ChildStack
  <2> QED BY <1>3, <2>1, <2>2 DEF Idle, KeepsParent
<1>6. ChildStack(c)'
  <2>1. \A i, j \in 1..(Len(handlers[c]) - 1) :
           handlers'[c][i].sig = handlers'[c][j].sig => i = j
        BY <1>5 DEF Stacks, ChildStack
  <2> QED BY <1>2, <1>5, <2>1 DEF ChildStack
<1>7. Stacks'
  <2>1. ParentStack'
        BY <1>1, <1>2, <1>3 DEF Stacks, ParentStack, KeepsParent
  <2>2. ASSUME NEW d \in Player, d # c PROVE ChildStack(d)'
    <3>1. handlers'[d] = handlers[d]
          BY <1>1, <1>2, <2>2
    <3>2. ChildStack(d)
          BY DEF Stacks
    <3> QED BY <1>3, <3>1, <3>2 DEF ChildStack, Idle, KeepsParent
  <2> QED BY <1>6, <2>1, <2>2 DEF Stacks
<1>8. spot' = spot
  <2>1. spot[c] = "idle" /\ spot'[c] = "idle"
    <3>1. spot[c] = "idle"
          BY <1>1 DEF spot, Idle
    <3>2. ASSUME handlers'[c] # <<>> PROVE Idle(c, Inner(c))'
      <4>1. Len(handlers[c]) - 1 \in 1..(Len(handlers[c]) - 1)
            BY <1>2, <3>2
      <4> QED BY <1>2, <1>5, <4>1 DEF Inner
    <3> QED BY <3>1, <3>2 DEF spot
  <2>2. ASSUME NEW d \in Player, d # c PROVE spot'[d] = spot[d]
    <3>1. handlers'[d] = handlers[d]
          BY <1>1, <1>2, <2>2
    <3> QED BY <1>3, <3>1 DEF spot, Idle, Inner, KeepsParent
  <2>3. spot = [d \in Player |-> spot[d]] /\ spot' = [d \in Player |-> spot'[d]]
        BY DEF spot
  <2> QED BY <2>1, <2>2, <2>3
<1> QED BY <1>2, <1>4, <1>7, <1>8

-----------------------------------------------------------------------------
(* What the steps of the parent do to its place *)

KeepsChildren ==
    /\ version' = version /\ state' = state
    /\ \A c \in Player : (c \in exited' <=> c \in exited) /\ handlers'[c] = handlers[c]

(* So do the spots of the children on theirs. *)
LEMMA ChildrenKept ==
    ASSUME Stacks, KeepsChildren
    PROVE  spot' = spot /\ \A c \in Player : ChildStack(c)'
<1>1. ASSUME NEW c \in Player PROVE spot'[c] = spot[c] /\ ChildStack(c)'
  <2>1. handlers'[c] = handlers[c] /\ ChildStack(c)
        BY DEF Stacks, KeepsChildren
  <2> QED BY <2>1 DEF spot, ChildStack, Idle, Inner, KeepsChildren
<1>2. spot = [d \in Player |-> spot[d]] /\ spot' = [d \in Player |-> spot'[d]]
      BY DEF spot
<1> QED BY <1>1, <1>2

(* A handler of the instructor's parent goes on. *)
LEMMA ParentTo ==
    ASSUME Types, Stacks, version = "instructor", NEW at \in ParentSteps, NEW from,
           In(parent, from), To(parent, at), from # "return", version' = version, pc' = pc,
           state' = state, \A c \in Player : c \in exited' <=> c \in exited
    PROVE  /\ handlers' \in [Process -> Seq(Running)] /\ Stacks' /\ spot' = spot
           /\ post = from /\ post' = IF at = "return" THEN "paused" ELSE at
           /\ from # "throw" => answer = Inner(parent).sig
           /\ from = "throw" => answer = "none"
           /\ at \in {"return", "throw"} => answer' = "none"
           /\ from # "throw" /\ at \notin {"return", "throw"} => answer' = answer
<1>1. /\ parent \in Process /\ at \in HandlerSteps
      /\ \A d \in Player : d \in Process /\ d # parent
  <2>1. at \in HandlerSteps
        BY DEF HandlerSteps
  <2> QED BY <2>1, Processes
<1>2. handlers[parent] # <<>> /\ Inner(parent).at = from
      BY DEF In
<1>3. /\ handlers' \in [Process -> Seq(Running)]
      /\ \A q \in Process : q # parent => handlers'[q] = handlers[q]
      /\ Len(handlers[parent]) \in DOMAIN handlers[parent]
      /\ Len(handlers'[parent]) = Len(handlers[parent]) /\ handlers'[parent] # <<>>
      /\ DOMAIN handlers'[parent] = DOMAIN handlers[parent]
      /\ \A i \in DOMAIN handlers[parent] :
            i # Len(handlers[parent]) => handlers'[parent][i] = handlers[parent][i]
      /\ Inner(parent)' = [sig |-> Inner(parent).sig, at |-> at]
  <2>1. handlers \in [Process -> Seq(Running)]
        BY DEF Types, SignalTypes
  <2> QED BY <1>1, <1>2, <2>1, ToStep
<1>4. KeepsChildren
      BY <1>1, <1>3 DEF KeepsChildren
<1>5. pc # "throw" /\ from \in ParentSteps
      BY <1>2, <1>3 DEF Stacks, ParentStack, Inner
<1>6. post = from /\ post' = IF at = "return" THEN "paused" ELSE at
      BY <1>2, <1>3, <1>5 DEF post
<1>7. ParentStack'
  <2>1. ASSUME NEW i \in DOMAIN handlers'[parent]
        PROVE  /\ handlers'[parent][i].at \in ParentSteps
               /\ i # Len(handlers'[parent]) => handlers'[parent][i].at = "return"
    <3>1. CASE i = Len(handlers[parent])
          BY <1>3, <3>1 DEF Inner
    <3>2. CASE i # Len(handlers[parent])
          BY <1>3, <2>1, <3>2 DEF Stacks, ParentStack
    <3> QED BY <3>1, <3>2
  <2> QED BY <1>5, <2>1 DEF ParentStack
<1>8. Stacks' /\ spot' = spot
      BY <1>4, <1>7, ChildrenKept DEF Stacks
<1>9. /\ from # "throw" => answer = Inner(parent).sig
      /\ from = "throw" => answer = "none"
      /\ at \in {"return", "throw"} => answer' = "none"
      /\ from # "throw" /\ at \notin {"return", "throw"} => answer' = answer
  <2>1. from # "paused" /\ at # "paused"
        BY <1>5 DEF ParentSteps
  <2> QED BY <1>3, <1>6, <2>1 DEF answer
<1> QED BY <1>3, <1>6, <1>8, <1>9

(* The same for both versions. *)
LEMMA ParentGoto ==
    ASSUME Types, Stacks, NEW at, NEW from, Here(from), Goto(at),
           from # "return",
           version' = version, state' = state, \A c \in Player : c \in exited' <=> c \in exited,
           at \in IF version = "student" THEN MainSteps ELSE ParentSteps
    PROVE  /\ handlers' \in [Process -> Seq(Running)] /\ Stacks' /\ spot' = spot
           /\ pc' \in IF version = "student" THEN MainSteps ELSE {"throw", "paused"}
           /\ post = from
           /\ version = "student" => post' = at /\ answer' = received_signal'
           /\ version = "instructor" =>
                 /\ post' = IF at = "return" THEN "paused" ELSE at
                 /\ from # "throw" => answer = Inner(parent).sig
                 /\ from = "throw" => answer = "none"
                 /\ at \in {"return", "throw"} => answer' = "none"
                 /\ from # "throw" /\ at \notin {"return", "throw"} => answer' = answer
<1>1. version \in {"student", "instructor"}
      BY DEF Types, SignalTypes
<1>2. CASE version = "student"
  <2>1. pc = from /\ pc' = at /\ handlers' = handlers
        BY <1>2 DEF Here, Goto
  <2>2. KeepsChildren
        BY <2>1 DEF KeepsChildren
  <2>3. ParentStack'
        BY <1>2, <2>1 DEF Stacks, ParentStack
  <2>4. Stacks' /\ spot' = spot
        BY <2>2, <2>3, ChildrenKept DEF Stacks
  <2>5. post = from /\ post' = at /\ answer' = received_signal'
        BY <1>2, <2>1 DEF post, answer
  <2>6. handlers' \in [Process -> Seq(Running)]
        BY <2>1 DEF Types, SignalTypes
  <2> QED BY <1>2, <2>1, <2>4, <2>5, <2>6
<1>3. CASE version = "instructor"
  <2>1. In(parent, from) /\ To(parent, at) /\ pc' = pc /\ at \in ParentSteps
        BY <1>3 DEF Here, Goto
  <2>2. pc' \in {"throw", "paused"}
        BY <1>3, <2>1 DEF Types, SignalTypes
  <2> QED BY <1>3, <2>1, <2>2, ParentTo
<1> QED BY <1>1, <1>2, <1>3

(* The instructor's first throw is in main. *)
LEMMA FirstThrow ==
    ASSUME Types, Stacks, version = "instructor", pc = "throw", pc' = "paused",
           handlers' = handlers, version' = version, state' = state, exited' = exited
    PROVE  Stacks' /\ spot' = spot /\ post = "throw" /\ post' = "paused" /\ answer' = "none"
<1>1. handlers[parent] = <<>>
      BY DEF Stacks, ParentStack
<1>2. KeepsChildren
      BY DEF KeepsChildren
<1>3. ParentStack'
      BY <1>1 DEF Stacks, ParentStack
<1>4. post = "throw" /\ post' = "paused"
      BY <1>1 DEF post
<1> QED BY <1>2, <1>3, <1>4, ChildrenKept DEF Stacks, answer

(* The answer comes in on top of handlers that have only to return. *)
LEMMA ParentCall ==
    ASSUME Types, Stacks, version = "instructor", post = "paused",
           NEW sig \in Signals, Call(parent, sig, "fork")
    PROVE  /\ handlers' \in [Process -> Seq(Running)] /\ Stacks' /\ spot' = spot
           /\ post' = "fork" /\ answer' = sig
<1>1. /\ parent \in Process
      /\ \A d \in Player : d \in Process /\ d # parent
      BY Processes
<1>2. /\ handlers' \in [Process -> Seq(Running)]
      /\ \A q \in Process : q # parent => handlers'[q] = handlers[q]
      /\ Len(handlers[parent]) \in Nat /\ DOMAIN handlers[parent] = 1..Len(handlers[parent])
      /\ Len(handlers'[parent]) = Len(handlers[parent]) + 1 /\ handlers'[parent] # <<>>
      /\ DOMAIN handlers'[parent] = 1..(Len(handlers[parent]) + 1)
      /\ \A i \in DOMAIN handlers[parent] : handlers'[parent][i] = handlers[parent][i]
      /\ handlers'[parent][Len(handlers[parent]) + 1] = [sig |-> sig, at |-> "fork"]
      /\ Inner(parent)' = [sig |-> sig, at |-> "fork"]
  <2>1. handlers \in [Process -> Seq(Running)]
        BY DEF Types, SignalTypes
  <2>2. PICK at \in HandlerSteps : at = "fork"
        BY DEF HandlerSteps, ParentSteps
  <2>3. Call(parent, sig, at)
        BY <2>2
  <2> QED BY <1>1, <2>1, <2>2, <2>3, CallStep
<1>3. /\ version' = version /\ pc' = pc /\ state' = state /\ exited' = exited
      BY DEF Call, parentVars, childVars
<1>4. KeepsChildren
      BY <1>1, <1>2, <1>3 DEF KeepsChildren
<1>5. pc # "throw" /\ pc' # "throw"
  <2>1. pc # "throw"
        BY DEF post
  <2> QED BY <1>3, <2>1
<1>6. \A i \in DOMAIN handlers[parent] : handlers[parent][i].at = "return"
  <2>1. handlers[parent] # <<>> => Inner(parent).at = "return"
    <3>1. ASSUME handlers[parent] # <<>> PROVE Inner(parent).at # "paused"
      <4>1. Len(handlers[parent]) \in DOMAIN handlers[parent]
        <5>1. Len(handlers[parent]) # 0
              BY <1>1, <3>1, EmptySeq DEF Types, SignalTypes
        <5> QED BY <1>2, <5>1
      <4> QED BY <4>1 DEF Stacks, ParentStack, ParentSteps, Inner
    <3> QED BY <1>5, <3>1 DEF post
  <2>2. ASSUME NEW i \in DOMAIN handlers[parent], i = Len(handlers[parent])
        PROVE  handlers[parent] # <<>> /\ handlers[parent][i] = Inner(parent)
        BY <2>2 DEF Inner
  <2> QED BY <2>1, <2>2 DEF Stacks, ParentStack
<1>7. ParentStack'
  <2>1. ASSUME NEW i \in 1..(Len(handlers[parent]) + 1)
        PROVE  /\ handlers'[parent][i].at \in ParentSteps
               /\ i # Len(handlers[parent]) + 1 => handlers'[parent][i].at = "return"
    <3>1. CASE i = Len(handlers[parent]) + 1
          BY <1>2, <3>1 DEF ParentSteps
    <3>2. CASE i # Len(handlers[parent]) + 1
          BY <1>2, <1>6, <3>2 DEF ParentSteps
    <3> QED BY <3>1, <3>2
  <2> QED BY <1>2, <1>3, <1>5, <2>1 DEF ParentStack
<1>8. post' = "fork"
      BY <1>2, <1>3, <1>5 DEF post
<1>9. answer' = sig
      BY <1>2, <1>3, <1>8 DEF answer
<1> QED BY <1>2, <1>4, <1>7, <1>8, <1>9, ChildrenKept DEF Stacks

(* A handler of the parent returns. *)
LEMMA ParentReturn ==
    ASSUME Types, Stacks, Return(parent)
    PROVE  /\ handlers' \in [Process -> Seq(Running)] /\ Stacks' /\ spot' = spot
           /\ post' = post /\ answer' = answer
<1>1. /\ parent \in Process /\ handlers[parent] # <<>> /\ Inner(parent).at = "return"
      /\ \A d \in Player : d \in Process /\ d # parent
      BY Processes DEF Return, In
<1>2. /\ handlers' \in [Process -> Seq(Running)]
      /\ \A q \in Process : q # parent => handlers'[q] = handlers[q]
      /\ Len(handlers[parent]) \in Nat \ {0}
      /\ Len(handlers'[parent]) = Len(handlers[parent]) - 1
      /\ DOMAIN handlers[parent] = 1..Len(handlers[parent])
      /\ DOMAIN handlers'[parent] = 1..(Len(handlers[parent]) - 1)
      /\ handlers'[parent] = <<>> <=> Len(handlers[parent]) = 1
      /\ \A i \in 1..(Len(handlers[parent]) - 1) : handlers'[parent][i] = handlers[parent][i]
  <2>1. handlers \in [Process -> Seq(Running)]
        BY DEF Types, SignalTypes
  <2> QED BY <1>1, <2>1, ReturnStep
<1>3. /\ version' = version /\ pc' = pc /\ state' = state /\ exited' = exited
      /\ received_signal' = received_signal
      BY DEF Return, parentVars, childVars
<1>4. KeepsChildren
      BY <1>1, <1>2, <1>3 DEF KeepsChildren
<1>5. version = "instructor" /\ pc # "throw" /\ version' = "instructor" /\ pc' # "throw"
      BY <1>1, <1>3 DEF Stacks, ParentStack, Types, SignalTypes
<1>6. \A i \in 1..(Len(handlers[parent]) - 1) :
         handlers'[parent][i].at = "return" /\ handlers'[parent][i] = handlers[parent][i]
  <2>1. ASSUME NEW i \in 1..(Len(handlers[parent]) - 1)
        PROVE  handlers'[parent][i].at = "return" /\ handlers'[parent][i] = handlers[parent][i]
    <3>1. i \in DOMAIN handlers[parent] /\ i # Len(handlers[parent])
          BY <1>2
    <3> QED BY <1>2, <3>1 DEF Stacks, ParentStack
  <2> QED BY <2>1
<1>7. ParentStack'
  <2>1. "return" \in ParentSteps
        BY DEF ParentSteps
  <2> QED BY <1>2, <1>5, <1>6, <2>1 DEF ParentStack
<1>8. post = "paused" /\ post' = "paused"
  <2>1. handlers'[parent] # <<>> => Inner(parent)'.at = "return"
    <3>1. ASSUME handlers'[parent] # <<>>
          PROVE  Len(handlers[parent]) - 1 \in 1..(Len(handlers[parent]) - 1)
          BY <1>2, <3>1
    <3> QED BY <1>2, <1>6, <3>1 DEF Inner
  <2>2. post = "paused"
        BY <1>1, <1>5 DEF post
  <2> QED BY <1>5, <2>1, <2>2 DEF post
<1>9. answer = "none" /\ answer' = "none"
      BY <1>5, <1>8 DEF answer
<1> QED BY <1>2, <1>4, <1>7, <1>8, <1>9, ChildrenKept DEF Stacks

-----------------------------------------------------------------------------
(* The token *)

(* A signal that is pending at a child is the token. *)
LEMMA WhatIsSent ==
    ASSUME Types, Token, NEW c \in Player, NEW sig \in pending[c]
    PROVE  /\ Sent(c, sig)
           /\ \/ sig = "SIGUSR2" /\ AwaitsAnswer /\ c = current_player
              \/ sig = "SIGUSR1" /\ AwaitsLine
              \/ sig = "SIGINT" /\ AwaitsEnd /\ c = closing
<1>1. c \in Process /\ parent \in Process /\ dummy \in Process /\ c # parent /\ c # dummy
      BY Processes
<1>2. ~Calm
      BY <1>1 DEF Calm
<1>3. CASE AwaitsAnswer
      BY <1>1, <1>3 DEF Token, Flying, Telling, Sent, Busy, Alone
<1>4. CASE AwaitsLine
      BY <1>1, <1>4 DEF Token, Sent, Busy, Alone
<1>5. CASE AwaitsEnd
      BY <1>1, <1>5 DEF Token, Sent, Busy, Alone
<1> QED BY <1>2, <1>3, <1>4, <1>5 DEF Token

(* So is a child that is at work. *)
LEMMA WhoIsBusy ==
    ASSUME Types, Token, NEW c \in Player, spot[c] # "idle"
    PROVE  /\ Busy(c, {spot[c]}) /\ \A q \in Process : pending[q] = {}
           /\ \/ AwaitsAnswer /\ c = current_player /\ Flying /\ spot[c] = "receive"
              \/ AwaitsAnswer /\ c = current_player /\ Telling /\ ~Flying
              \/ AwaitsLine /\ spot[c] \in {"print", "pass"}
              \/ AwaitsEnd /\ c = closing /\ spot[c] = "exit"
<1>1. c \in Process /\ parent \in Process /\ dummy \in Process /\ c # parent /\ c # dummy
      BY Processes
<1>2. ~Calm /\ ~Sent(c, "SIGUSR1") /\ ~Sent(c, "SIGUSR2") /\ ~Sent(c, "SIGINT")
      BY <1>1 DEF Calm, Sent
<1>3. ~Sent(parent, Result) /\ ~Sent(dummy, "SIGINT")
      BY <1>1 DEF Sent, Alone
<1>4. \A d \in Player, s \in Signals : ~Sent(d, s)
      BY <1>1 DEF Sent, Alone
<1>5. \A d \in Player : \A A : Busy(d, A) => d = c /\ spot[c] \in A
      BY DEF Busy, Alone
<1>6. \A A : Busy(c, A) => Busy(c, {spot[c]}) /\ \A q \in Process : pending[q] = {}
      BY DEF Busy, Alone
<1>7. CASE AwaitsAnswer
  <2>1. current_player \in Player /\ (Flying \/ Telling)
        BY <1>3, <1>7 DEF Token, Types, ParentTypes
  <2>2. CASE Flying
        BY <1>4, <1>5, <1>6, <1>7, <2>2 DEF Flying, Signals, Types, ParentTypes
  <2>3. CASE Telling
    <3>1. c = current_player /\ spot[c] # "receive"
          BY <1>5, <2>3 DEF Telling, Types, ParentTypes
    <3>2. ~Flying
          BY <1>2, <1>5, <3>1 DEF Flying
    <3> QED BY <1>6, <1>7, <2>3, <3>1, <3>2 DEF Telling
  <2> QED BY <2>1, <2>2, <2>3
<1>8. CASE AwaitsLine
  <2>1. PICK d \in Player : Busy(d, {"print", "pass"})
        BY <1>3, <1>4, <1>8 DEF Token, Signals
  <2> QED BY <1>5, <1>6, <1>8, <2>1
<1>9. CASE AwaitsEnd
  <2>1. Sent(closing, "SIGINT") \/ Busy(closing, {"exit"})
        BY <1>9 DEF Token
  <2>2. closing \in Player \cup {dummy}
        BY Processes DEF Types, ParentTypes, Player, dummy
  <2>3. Busy(closing, {"exit"}) /\ closing \in Player
    <3>1. closing # dummy
          BY <1>1, <1>3, <2>1 DEF Busy, Alone
    <3> QED BY <1>4, <2>1, <2>2, <3>1 DEF Signals
  <2> QED BY <1>5, <1>6, <1>9, <2>3
<1> QED BY <1>2, <1>7, <1>8, <1>9 DEF Token

(* What is sent when there is no other token is the token. *)
LEMMA KillSends ==
    ASSUME Types, \A q \in Process : pending[q] = {}, \A c \in Player : spot'[c] = "idle",
           NEW p \in Process, p \notin exited, NEW sig \in Signals,
           pending' = Kill(pending, p, sig)
    PROVE  pending' \in [Process -> SUBSET Signals] /\ Sent(p, sig)'
<1>1. pending' = [pending EXCEPT ![p] = {sig}]
      BY DEF Kill
<1> QED BY <1>1 DEF Types, SignalTypes, Sent, Alone

(* Whose entry is still to come. *)
LEMMA PrintFrom ==
    \A d \in Player : Sent(d, "SIGUSR1") \/ Busy(d, {"print"}) =>
        \A c \in Player : ToPrint(c) <=> d <= c
<1> SUFFICES ASSUME NEW d \in Player, Sent(d, "SIGUSR1") \/ Busy(d, {"print"}), NEW c \in Player
             PROVE  ToPrint(c) <=> d <= c
    OBVIOUS
<1>1. \A e \in Player : Sent(e, "SIGUSR1") \/ Busy(e, {"print"}) => e = d
      BY Processes DEF Sent, Busy, Alone
<1>2. \A e \in Player : ~Busy(e, {"pass"})
      BY Processes DEF Sent, Busy, Alone
<1> QED BY <1>1, <1>2 DEF ToPrint

(* Once a child has printed, only those after it are still to come. *)
LEMMA PrintAfter ==
    \A d \in Player : Busy(d, {"pass"}) => \A c \in Player : ToPrint(c) <=> d < c
<1> SUFFICES ASSUME NEW d \in Player, Busy(d, {"pass"}), NEW c \in Player
             PROVE  ToPrint(c) <=> d < c
    OBVIOUS
<1>1. \A e \in Player : ~Sent(e, "SIGUSR1") /\ ~Busy(e, {"print"})
      BY Processes DEF Sent, Busy, Alone
<1>2. \A e \in Player : Busy(e, {"pass"}) => e = d
      BY Processes DEF Busy, Alone
<1> QED BY <1>1, <1>2 DEF ToPrint

(* Once the dummy has been told, nobody is. *)
LEMMA PrintDone == Sent(dummy, "SIGINT") => \A c \in Player : ~ToPrint(c)
BY Processes DEF Sent, Busy, Alone, ToPrint

(* All of this, before a step and after it. *)
PrintFacts ==
    /\ \A d \in Player : Sent(d, "SIGUSR1") \/ Busy(d, {"print"}) =>
          \A c \in Player : ToPrint(c) <=> d <= c
    /\ \A d \in Player : Busy(d, {"pass"}) => \A c \in Player : ToPrint(c) <=> d < c
    /\ Sent(dummy, "SIGINT") => \A c \in Player : ~ToPrint(c)

(* They hold in every state. *)
LEMMA PrintNow == PrintFacts
BY PrintFrom, PrintAfter, PrintDone DEF PrintFacts

(* Hence also after a step. *)
LEMMA PrintNext == PrintFacts'
BY PrintNow, PTL

(* What does not change when the token only moves. *)
data == <<version, exited, table, closing, dummycpid, childVars>>

(* If no data changes and the token passes on within its phase, the notes  *)
(* are as good as before.                                                  *)
LEMMA TokenMoves ==
    ASSUME Exits, Table, Count, Notes, Claims, UNCHANGED data,
           post' = post, answer' = answer, Flying' <=> Flying,
           AwaitsLine => \A c \in Player : ToPrint(c)' <=> ToPrint(c)
    PROVE  Exits' /\ Table' /\ Count' /\ Notes' /\ Claims'
<1> USE DEF data, table, childVars
<1>1. (AwaitsAnswer' <=> AwaitsAnswer) /\ (AwaitsLine' <=> AwaitsLine) /\ (Noted' <=> Noted)
      /\ InPlay' = InPlay /\ Result' = Result
      BY DEF AwaitsAnswer, AwaitsLine, Noted, InPlay, Result
<1>2. \A c \in Player : Untold(c)' <=> Untold(c)
      BY <1>1 DEF Untold
<1>3. Exits'
      BY DEF Exits
<1>4. Table'
  <2>1. Turn' <=> Turn
        BY <1>1 DEF Turn
  <2> QED BY <1>1, <2>1 DEF Table
<1>5. Count' /\ Claims'
      BY <1>1 DEF Count, Claims
<1>6. Notes'
      BY <1>1, <1>2 DEF Notes
<1> QED BY <1>3, <1>4, <1>5, <1>6

-----------------------------------------------------------------------------
(* The steps of the children keep the invariant *)

(* Where a handler is tells its signal and the spot of its child. *)
LEMMA InnerSpot ==
    ASSUME Types, Stacks, NEW c \in Player, NEW from, In(c, from)
    PROVE  /\ Inner(c).sig \in Signals /\ from \in ChildSteps(Inner(c).sig)
           /\ spot[c] = SpotAt(c, from) /\ c \notin exited
<1>1. c \in Process /\ handlers[c] # <<>> /\ c \notin exited /\ Inner(c).at = from
      BY Processes DEF In
<1>2. handlers[c] \in Seq(Running)
      BY <1>1 DEF Types, SignalTypes
<1>3. Len(handlers[c]) \in DOMAIN handlers[c] /\ Inner(c) \in Running
  <2>1. Len(handlers[c]) \in Nat \ {0}
        BY <1>1, <1>2, EmptySeq
  <2> QED BY <1>2, <2>1, LenProperties DEF Inner
<1>4. Inner(c).sig \in Signals /\ from \in ChildSteps(Inner(c).sig)
      BY <1>1, <1>3 DEF Stacks, ChildStack, Inner, Running
<1> QED BY <1>1, <1>4 DEF spot, SpotAt, Idle

(* The token of a child on its way from one of its steps to another. *)
LEMMA BusyAt ==
    ASSUME \A q \in Process : pending'[q] = {}, NEW c \in Player, NEW at,
           \A d \in Player : d # c => spot[d] = "idle", spot' = [spot EXCEPT ![c] = at],
           DOMAIN spot = Player, NEW A, at \in A
    PROVE  Busy(c, A)'
BY Processes DEF Busy, Alone

(* Each child has a spot. *)
LEMMA SpotDomain == DOMAIN spot = Player
BY DEF spot

(* The child that gets a signal attends to it. *)
LEMMA CalledStep ==
    ASSUME Inv, NEW c \in Player, ChildCalled(c)
    PROVE  Inv'
<1> USE DEF Inv, Game
<1>1. PICK sig \in Signals, at \in {"print", "receive", "exit"} :
         /\ Call(c, sig, at)
         /\ at = IF sig = "SIGUSR1" THEN "print" ELSE IF sig = "SIGUSR2" THEN "receive"
                 ELSE "exit"
      BY DEF ChildCalled, Signals
<1>2. sig \in pending[c] /\ c \in Process
      BY <1>1, Processes DEF Call, Deliverable
<1>3. /\ Sent(c, sig)
      /\ \/ sig = "SIGUSR2" /\ AwaitsAnswer /\ c = current_player
         \/ sig = "SIGUSR1" /\ AwaitsLine
         \/ sig = "SIGINT" /\ AwaitsEnd /\ c = closing
      BY <1>2, WhatIsSent
<1>4. /\ handlers' \in [Process -> Seq(Running)] /\ Stacks'
      /\ post' = post /\ answer' = answer /\ spot' = [spot EXCEPT ![c] = at]
  <2>1. at \in ChildSteps(sig) /\ at \notin {"return", "tellmiss"} /\ at \in HandlerSteps
        BY <1>1 DEF ChildSteps, HandlerSteps, Signals
  <2>2. spot[c] = "idle"
        BY <1>3 DEF Sent
  <2> QED BY <1>1, <2>1, <2>2, ChildCall
<1>5. pending' = [pending EXCEPT ![c] = @ \ {sig}] /\ UNCHANGED <<version, exited, pc>>
      /\ UNCHANGED data /\ UNCHANGED <<received_signal, closing, dummycpid, table, childVars>>
      BY <1>1 DEF Call, parentVars, data
<1>6. \A q \in Process : pending'[q] = {}
      BY <1>2, <1>3, <1>5 DEF Sent, Alone, Types, SignalTypes
<1>7. Busy(c, {at})'
  <2>1. \A d \in Player : d # c => spot[d] = "idle"
        BY <1>3 DEF Sent, Alone
  <2> QED BY <1>4, <1>6, <2>1, BusyAt, SpotDomain
<1>8. Types'
  <2>1. pending' \in [Process -> SUBSET Signals]
        BY <1>2, <1>5 DEF Types, SignalTypes
  <2> QED BY <1>4, <1>5, <2>1 DEF Types, SignalTypes, ParentTypes, ChildTypes, table, childVars
<1>9. AwaitsAnswer' = AwaitsAnswer /\ AwaitsLine' = AwaitsLine /\ AwaitsEnd' = AwaitsEnd
      BY <1>4, <1>5 DEF AwaitsAnswer, AwaitsLine, AwaitsEnd
<1>10. current_player' = current_player /\ ball' = ball /\ missed' = missed /\ line' = line
      BY <1>5 DEF table, childVars
<1>11. CASE sig = "SIGUSR2"
  <2>1. AwaitsAnswer /\ c = current_player /\ at = "receive" /\ ~AwaitsLine /\ ~AwaitsEnd
        BY <1>1, <1>3, <1>11 DEF AwaitsAnswer, AwaitsLine, AwaitsEnd
  <2>2. Flying /\ Flying'
        BY <1>3, <1>7, <1>10, <1>11, <2>1 DEF Flying
  <2>3. Token'
        BY <1>9, <2>1, <2>2 DEF Token
  <2>4. Lines'
        BY <1>9, <1>10, <2>1 DEF Lines
  <2> QED BY <1>4, <1>5, <1>8, <2>1, <2>2, <2>3, <2>4, TokenMoves
<1>12. CASE sig = "SIGUSR1"
  <2>1. AwaitsLine /\ at = "print" /\ ~AwaitsAnswer /\ ~AwaitsEnd
        BY <1>1, <1>3, <1>12 DEF AwaitsAnswer, AwaitsLine, AwaitsEnd
  <2>2. ~Flying /\ ~Flying'
    <3>1. current_player \in Process /\ current_player \in Player
          BY Processes DEF Types, ParentTypes
    <3> QED BY <1>3, <1>6, <1>7, <1>10, <1>12, <2>1, <3>1 DEF Flying, Sent, Busy, Alone
  <2>3. Token'
        BY <1>7, <1>9, <2>1 DEF Token, Busy
  <2>4. Lines'
    <3>1. Printed(c - 1) \/ (c = 1 /\ Len(line) = n)
          BY <1>3, <1>12, <2>1 DEF Lines
    <3>2. \A d \in Player : \A A : Busy(d, A)' => d = c /\ at \in A
          BY <1>7 DEF Busy, Alone
    <3>3. \A d \in Process, s \in Signals : ~Sent(d, s)'
          BY <1>6 DEF Sent
    <3>4. \A k : Printed(k)' <=> Printed(k)
          BY <1>10 DEF Printed, Happened
    <3> QED BY <1>9, <1>10, <2>1, <3>1, <3>2, <3>3, <3>4, Processes DEF Lines, Signals
  <2>5. \A d \in Player : ToPrint(d)' <=> ToPrint(d)
    <3>1. \A d \in Player : ToPrint(d) <=> c <= d
          BY <1>3, <1>12, PrintFrom
    <3>2. \A d \in Player : ToPrint(d)' <=> c <= d
          BY <1>7, <2>1, PrintNext DEF PrintFacts
    <3> QED BY <3>1, <3>2
  <2> QED BY <1>4, <1>5, <1>8, <2>1, <2>2, <2>3, <2>4, <2>5, TokenMoves
<1>13. CASE sig = "SIGINT"
  <2>1. AwaitsEnd /\ at = "exit" /\ ~AwaitsAnswer /\ ~AwaitsLine /\ c = closing
        BY <1>1, <1>3, <1>13 DEF AwaitsAnswer, AwaitsLine, AwaitsEnd
  <2>2. ~Flying /\ ~Flying'
    <3>1. current_player \in Process /\ current_player \in Player
          BY Processes DEF Types, ParentTypes
    <3> QED BY <1>3, <1>6, <1>7, <1>10, <1>13, <2>1, <3>1 DEF Flying, Sent, Busy, Alone
  <2>3. Token'
        BY <1>5, <1>7, <1>9, <2>1 DEF Token
  <2>4. Lines'
        BY <1>9, <1>10, <2>1 DEF Lines
  <2> QED BY <1>4, <1>5, <1>8, <2>1, <2>2, <2>3, <2>4, TokenMoves
<1> QED BY <1>11, <1>12, <1>13 DEF Signals

(* A step after which nothing has moved. *)
LEMMA NothingMoves ==
    ASSUME Game, UNCHANGED data, UNCHANGED <<pending, spot, post, answer>>
    PROVE  Game'
<1> USE DEF Game, data, table
<1>1. /\ \A p, sig : Sent(p, sig)' <=> Sent(p, sig)
      /\ \A c, A : Busy(c, A)' <=> Busy(c, A)
      /\ Calm' <=> Calm
      BY DEF Sent, Busy, Alone, Calm
<1>2. /\ AwaitsAnswer' = AwaitsAnswer /\ AwaitsLine' = AwaitsLine /\ AwaitsEnd' = AwaitsEnd
      /\ Result' = Result /\ (Flying' <=> Flying) /\ (Telling' <=> Telling)
      BY <1>1 DEF AwaitsAnswer, AwaitsLine, AwaitsEnd, Result, Flying, Telling, childVars
<1>3. Token'
      BY <1>1, <1>2 DEF Token
<1>4. \A c \in Player : ToPrint(c)' <=> ToPrint(c)
      BY <1>1 DEF ToPrint
<1>5. Exits' /\ Table' /\ Count' /\ Notes' /\ Claims'
      BY <1>2, <1>4, TokenMoves
<1>6. Lines'
  <2>1. \A k : Printed(k)' <=> Printed(k)
        BY DEF Printed, Happened, childVars
  <2> QED BY <1>1, <1>2, <2>1 DEF Lines, childVars
<1> QED BY <1>3, <1>5, <1>6

(* Types of what the moves of the token leave alone. *)
LEMMA TypesMoved ==
    ASSUME Types, UNCHANGED data, UNCHANGED <<pc, received_signal>>,
           pending' \in [Process -> SUBSET Signals], handlers' \in [Process -> Seq(Running)]
    PROVE  Types'
BY DEF Types, SignalTypes, ParentTypes, ChildTypes, data, table, childVars

(* A handler of a child returns. *)
LEMMA ReturnStepKeeps ==
    ASSUME Inv, NEW c \in Player, Return(c)
    PROVE  Inv'
<1> USE DEF Inv
<1>1. /\ handlers' \in [Process -> Seq(Running)] /\ Stacks'
      /\ post' = post /\ answer' = answer /\ spot' = spot
      BY ChildReturn
<1>2. UNCHANGED data /\ UNCHANGED <<pc, received_signal, pending>>
      BY DEF Return, parentVars, data
<1>3. Types'
  <2>1. pending' \in [Process -> SUBSET Signals]
        BY <1>2 DEF Types, SignalTypes
  <2> QED BY <1>1, <1>2, <2>1, TypesMoved
<1> QED BY <1>1, <1>2, <1>3, NothingMoves

(* The entry is printed and the next child, or the dummy, is told. *)
LEMMA PassOnStep ==
    ASSUME Inv, NEW c \in Player, PassOn(c)
    PROVE  Inv'
<1> USE DEF Inv, Game
<1>1. In(c, "pass") /\ To(c, "return") /\ UNCHANGED data /\ UNCHANGED <<pc, received_signal>>
      BY DEF PassOn, parentVars, data
<1>2. /\ Inner(c).sig \in Signals /\ "pass" \in ChildSteps(Inner(c).sig)
      /\ spot[c] = "pass" /\ c \notin exited
  <2>1. SpotAt(c, "pass") = "pass"
        BY DEF SpotAt
  <2> QED BY <1>1, <2>1, InnerSpot
<1>3. Busy(c, {"pass"}) /\ AwaitsLine /\ \A q \in Process : pending[q] = {}
      BY <1>2, WhoIsBusy DEF Telling, Busy
<1>4. /\ handlers' \in [Process -> Seq(Running)] /\ Stacks'
      /\ post' = post /\ answer' = answer /\ spot' = [spot EXCEPT ![c] = "idle"]
  <2>1. "return" \in ChildSteps(Inner(c).sig) /\ "return" \in HandlerSteps
        BY <1>2 DEF ChildSteps, Signals, HandlerSteps, ParentSteps
  <2>2. KeepsParent /\ state' = state
        BY <1>1 DEF KeepsParent, data, childVars
  <2>3. SpotAt(c, "return")' = "idle"
        BY DEF SpotAt
  <2> QED BY <1>1, <2>1, <2>2, <2>3, ChildTo
<1>5. \A d \in Player : spot'[d] = "idle"
      BY <1>3, <1>4, SpotDomain DEF Busy, Alone
<1>6. (AwaitsAnswer' <=> FALSE) /\ ~AwaitsAnswer /\ AwaitsLine' /\ ~AwaitsEnd'
      /\ UNCHANGED <<line, ball, missed, current_player>> /\ current_player \in Player
      BY <1>1, <1>3, <1>4
      DEF AwaitsAnswer, AwaitsLine, AwaitsEnd, data, childVars, table, Types, ParentTypes
<1>7. Printed(c)
      BY <1>3 DEF Lines
<1>8. \A k : Printed(k)' <=> Printed(k)
      BY <1>6 DEF Printed, Happened
<1>9. \A d \in Player : ToPrint(d) <=> c < d
      BY <1>3, PrintNow DEF PrintFacts
<1>10. ~Flying
      BY <1>3, <1>6, Processes DEF Flying, Sent, Busy, Alone
<1>11. \A d \in Player, A \in SUBSET {"print", "pass", "receive"} : ~Busy(d, A)'
      BY <1>5 DEF Busy
<1>12. CASE c < n
  <2>1. c + 1 \in Player /\ c + 1 \in Process /\ pending' = Kill(pending, c + 1, "SIGUSR1")
        BY <1>12, Processes DEF PassOn, Player
  <2>2. c + 1 \notin exited
        BY <1>3, <2>1, Processes DEF Exits, AwaitsLine, Player
  <2>3. pending' \in [Process -> SUBSET Signals] /\ Sent(c + 1, "SIGUSR1")'
        BY <1>3, <1>5, <2>1, <2>2, KillSends DEF Signals
  <2>4. Token'
        BY <1>6, <2>1, <2>3 DEF Token
  <2>5. \A d \in Process : \A s : Sent(d, s)' => d = c + 1 /\ s = "SIGUSR1"
        BY <2>1, <2>3 DEF Sent, Alone
  <2>6. ~Flying'
        BY <1>6, <1>11, <2>5, Processes DEF Flying
  <2>7. Lines'
    <3>1. c + 1 - 1 = c /\ dummy # c + 1
          BY <2>1, Processes DEF Player
    <3> QED BY <1>6, <1>7, <1>8, <1>11, <2>5, <3>1, Processes DEF Lines
  <2>8. \A d \in Player : ToPrint(d)' <=> ToPrint(d)
    <3>1. \A d \in Player : ToPrint(d)' <=> c + 1 <= d
          BY <2>1, <2>3, PrintNext DEF PrintFacts
    <3> QED BY <1>9, <3>1, Processes
  <2> QED BY <1>1, <1>4, <1>10, <2>3, <2>4, <2>6, <2>7, <2>8, TokenMoves, TypesMoved
<1>13. CASE ~(c < n)
  <2>1. c = n /\ dummy \in Process
        BY <1>13, Processes
  <2>2. pending' = Kill(pending, dummy, "SIGINT") /\ dummy \notin exited
        BY <1>3, <1>13 DEF PassOn, AwaitsLine, Exits
  <2>3. pending' \in [Process -> SUBSET Signals] /\ Sent(dummy, "SIGINT")'
        BY <1>3, <1>5, <2>1, <2>2, KillSends DEF Signals
  <2>4. Token'
        BY <1>6, <2>3 DEF Token
  <2>5. \A d \in Player, s \in Signals : ~Sent(d, s)'
        BY <2>3, Processes DEF Sent, Alone
  <2>6. ~Flying'
        BY <1>6, <1>11, <2>5 DEF Flying, Signals
  <2>7. Lines'
        BY <1>6, <1>7, <1>11, <2>1, <2>5 DEF Lines, Printed, Signals
  <2>8. \A d \in Player : ToPrint(d)' <=> ToPrint(d)
    <3>1. \A d \in Player : ~ToPrint(d)'
          BY <2>3, PrintNext DEF PrintFacts
    <3> QED BY <1>9, <2>1, <3>1, Processes
  <2> QED BY <1>1, <1>4, <1>10, <2>3, <2>4, <2>6, <2>7, <2>8, TokenMoves, TypesMoved
<1> QED BY <1>12, <1>13

(* The parent is told. *)
LEMMA TellStep ==
    ASSUME Inv, UNCHANGED data, UNCHANGED <<pc, received_signal, post, answer>>,
           AwaitsAnswer, Telling, ~Flying, spot' = [spot EXCEPT ![current_player] = "idle"],
           handlers' \in [Process -> Seq(Running)], pending' = Kill(pending, parent, Result)
    PROVE  Types' /\ Game'
<1> USE DEF Inv, Game
<1>1. /\ current_player \in Player /\ \A q \in Process : pending[q] = {}
      /\ \A d \in Player : spot'[d] = "idle"
      BY SpotDomain, Processes DEF Telling, Busy, Alone, Types, ParentTypes
<1>2. pending' \in [Process -> SUBSET Signals] /\ Sent(parent, Result)'
  <2>1. Result \in Signals
        BY DEF Result, Signals
  <2>2. parent \notin exited /\ parent \in Process
        BY Processes DEF Exits, AwaitsAnswer
  <2>3. Result' = Result
        BY DEF Result, data, childVars
  <2>4. PICK r \in Signals : r = Result
        BY <2>1
  <2>5. pending' \in [Process -> SUBSET Signals] /\ Sent(parent, r)'
        BY <1>1, <2>2, <2>4, KillSends
  <2> QED BY <2>3, <2>4, <2>5 DEF Sent
<1>3. AwaitsAnswer' /\ ~AwaitsLine' /\ ~AwaitsEnd' /\ ~AwaitsLine
      /\ UNCHANGED <<line, ball, missed, current_player>>
      BY DEF AwaitsAnswer, AwaitsLine, AwaitsEnd, data, childVars, table
<1>4. ~Flying'
      BY <1>1, <1>2, <1>3, Processes DEF Flying, Sent, Busy, Alone
<1>5. Token'
      BY <1>2, <1>3 DEF Token
<1>6. Lines'
      BY <1>3 DEF Lines
<1> QED BY <1>2, <1>3, <1>4, <1>5, <1>6, TokenMoves, TypesMoved

(* What the child in play, which has the answer, notes of it. *)
LEMMA Teller ==
    ASSUME Inv, AwaitsAnswer, ~Flying, version = "instructor"
    PROVE  state[current_player] = IF ball.caught THEN "HAVEBALL" ELSE "BALLMISSED"
<1>1. current_player \in Player /\ ~Noted
      BY DEF Inv, Types, ParentTypes, Noted, AwaitsAnswer
<1>2. current_player = ball.to
      BY <1>1 DEF Inv, Game, Table
<1>3. Untold(current_player)
      BY <1>2 DEF Untold
<1> QED BY <1>1, <1>3 DEF Inv, Game, Notes

(* A child tells a catch; the instructor's then looks for a miss. *)
LEMMA TellCatchStep ==
    ASSUME Inv, NEW c \in Player, TellCatch(c)
    PROVE  Inv'
<1> USE DEF Inv, Game
<1>1. In(c, "tellcatch") /\ To(c, IF version = "student" THEN "return" ELSE "tellmiss")
      /\ UNCHANGED data /\ UNCHANGED <<pc, received_signal>>
      BY DEF TellCatch, parentVars, data
<1>2. /\ Inner(c).sig \in Signals /\ "tellcatch" \in ChildSteps(Inner(c).sig)
      /\ spot[c] = "tellcatch" /\ c \notin exited
  <2>1. SpotAt(c, "tellcatch") = "tellcatch"
        BY DEF SpotAt
  <2> QED BY <1>1, <2>1, InnerSpot
<1>3. AwaitsAnswer /\ c = current_player /\ Telling /\ ~Flying
      /\ Busy(c, {"tellcatch"}) /\ \A q \in Process : pending[q] = {}
      BY <1>2, WhoIsBusy
<1>4. KeepsParent /\ state' = state /\ version' = version
      BY <1>1 DEF KeepsParent, data, childVars
<1>5. {"return", "tellmiss"} \subseteq ChildSteps(Inner(c).sig)
      /\ {"return", "tellmiss"} \subseteq HandlerSteps
      BY <1>2 DEF ChildSteps, Signals, HandlerSteps, ParentSteps
<1>6. PICK at \in {"return", "tellmiss"} :
         /\ at = IF version = "student" THEN "return" ELSE "tellmiss"
         /\ To(c, at)
      BY <1>1
<1>7. /\ handlers' \in [Process -> Seq(Running)] /\ Stacks'
      /\ post' = post /\ answer' = answer /\ spot' = [spot EXCEPT ![c] = SpotAt(c, at)']
      BY <1>1, <1>4, <1>5, <1>6, ChildTo
<1>8. version \in {"student", "instructor"}
      BY DEF Types, SignalTypes
<1>9. CASE ball.caught
  <2>1. SpotAt(c, at)' = "idle" /\ pending' = Kill(pending, parent, "SIGUSR1")
        BY <1>3, <1>4, <1>6, <1>8, <1>9, Teller DEF SpotAt, TellCatch
  <2>2. Result = "SIGUSR1"
        BY <1>9 DEF Result
  <2> QED BY <1>1, <1>3, <1>7, <2>1, <2>2, TellStep
<1>10. CASE ~ball.caught
  <2>1. version = "instructor"
        BY <1>2, <1>3, <1>8, <1>10 DEF Telling, Busy
  <2>2. at = "tellmiss" /\ state[c] = "BALLMISSED"
        BY <1>3, <1>6, <1>10, <2>1, Teller
  <2>3. SpotAt(c, at)' = "tellmiss" /\ pending' = pending
        BY <1>4, <2>1, <2>2 DEF SpotAt, TellCatch
  <2>4. Busy(c, {"tellcatch", "tellmiss"})'
    <3>1. \A q \in Process : pending'[q] = {}
          BY <1>3, <2>3
    <3>2. \A d \in Player : d # c => spot[d] = "idle"
          BY <1>3 DEF Busy, Alone
    <3> QED BY <1>7, <2>3, <3>1, <3>2, BusyAt, SpotDomain
  <2>5. AwaitsAnswer' /\ ~AwaitsLine' /\ ~AwaitsEnd' /\ ~AwaitsLine
        /\ UNCHANGED <<line, ball, missed, current_player, version>>
        BY <1>1, <1>3, <1>7
        DEF AwaitsAnswer, AwaitsLine, AwaitsEnd, data, childVars, table
  <2>6. Telling'
        BY <1>3, <2>1, <2>4, <2>5 DEF Telling
  <2>7. ~Flying'
        BY <1>3, <2>3, <2>4, <2>5, Processes DEF Flying, Sent, Busy, Alone
  <2>8. Token'
        BY <2>5, <2>6 DEF Token
  <2>9. Lines'
        BY <2>5 DEF Lines
  <2>10. Types'
    <3>1. pending' \in [Process -> SUBSET Signals]
          BY <2>3 DEF Types, SignalTypes
    <3> QED BY <1>1, <1>7, <3>1, TypesMoved
  <2> QED BY <1>1, <1>3, <1>7, <2>5, <2>7, <2>8, <2>9, <2>10, TokenMoves
<1> QED BY <1>9, <1>10

(* A child tells a miss, if it has one to tell. *)
LEMMA TellMissStep ==
    ASSUME Inv, NEW c \in Player, TellMiss(c)
    PROVE  Inv'
<1> USE DEF Inv, Game
<1>1. In(c, "tellmiss") /\ To(c, "return")
      /\ UNCHANGED data /\ UNCHANGED <<pc, received_signal>>
      BY DEF TellMiss, parentVars, data
<1>2. /\ Inner(c).sig \in Signals /\ "tellmiss" \in ChildSteps(Inner(c).sig)
      /\ spot[c] = SpotAt(c, "tellmiss") /\ c \notin exited
      BY <1>1, InnerSpot
<1>3. KeepsParent /\ state' = state /\ version' = version
      BY <1>1 DEF KeepsParent, data, childVars
<1>4. /\ handlers' \in [Process -> Seq(Running)] /\ Stacks'
      /\ post' = post /\ answer' = answer /\ spot' = [spot EXCEPT ![c] = "idle"]
  <2>1. "return" \in ChildSteps(Inner(c).sig) /\ "return" \in HandlerSteps
        BY <1>2 DEF ChildSteps, Signals, HandlerSteps, ParentSteps
  <2>2. SpotAt(c, "return")' = "idle"
        BY DEF SpotAt
  <2> QED BY <1>1, <1>3, <2>1, <2>2, ChildTo
<1>5. version \in {"student", "instructor"}
      BY DEF Types, SignalTypes
<1>6. CASE spot[c] = "tellmiss"
  <2>1. AwaitsAnswer /\ c = current_player /\ Telling /\ ~Flying
        BY <1>6, WhoIsBusy
  <2>2. ~ball.caught /\ pending' = Kill(pending, parent, "SIGUSR2")
    <3>1. CASE version = "student"
          BY <1>6, <2>1, <3>1 DEF Telling, Busy, TellMiss
    <3>2. CASE version = "instructor"
      <4>1. state[c] = "BALLMISSED"
            BY <1>2, <1>6, <3>2 DEF SpotAt
      <4> QED BY <2>1, <3>2, <4>1, Teller DEF TellMiss
    <3> QED BY <1>5, <3>1, <3>2
  <2>3. Result = "SIGUSR2"
        BY <2>2 DEF Result
  <2> QED BY <1>1, <1>4, <2>1, <2>2, <2>3, TellStep
<1>7. CASE spot[c] # "tellmiss"
  <2>1. spot[c] = "idle" /\ version # "student" /\ state[c] # "BALLMISSED"
        BY <1>2, <1>7, <1>5 DEF SpotAt
  <2>2. pending' = pending
        BY <2>1 DEF TellMiss
  <2>3. spot' = spot
        BY <1>4, <2>1, SpotDomain DEF spot
  <2>4. Types'
    <3>1. pending' \in [Process -> SUBSET Signals]
          BY <2>2 DEF Types, SignalTypes
    <3> QED BY <1>1, <1>4, <3>1, TypesMoved
  <2> QED BY <1>1, <1>4, <2>2, <2>3, <2>4, NothingMoves
<1> QED BY <1>6, <1>7

(* What does not depend on the notes of the children. *)
LEMMA TableKept ==
    ASSUME Exits, Table, Count, Claims, post' = post, answer' = answer, Flying' <=> Flying,
           UNCHANGED <<version, exited, table, closing, dummycpid, ball, missed, winners>>
    PROVE  Exits' /\ Table' /\ Count' /\ Claims'
<1> USE DEF table
<1>1. (AwaitsAnswer' <=> AwaitsAnswer) /\ (Noted' <=> Noted)
      /\ InPlay' = InPlay /\ Result' = Result
      BY DEF AwaitsAnswer, Noted, InPlay, Result
<1>2. Exits'
      BY DEF Exits
<1>3. Table'
  <2>1. Turn' <=> Turn
        BY <1>1 DEF Turn
  <2> QED BY <1>1, <2>1 DEF Table
<1>4. Count' /\ Claims'
      BY <1>1 DEF Count, Claims
<1> QED BY <1>2, <1>3, <1>4

(* An entry that is about to be printed tells what has happened. *)
LEMMA EntryTrue ==
    ASSUME Inv, NEW c \in Player, AwaitsLine, Busy(c, {"print"})
    PROVE  /\ Entry(c) = Happened(c)
           /\ Entry(c) \in {"MISS", "blank", "CATCH", "dots"}
           /\ \A d \in Player : Untold(d) <=> d = ball.to /\ c <= d
<1> USE DEF Inv, Game
<1>1. \A d \in Player : Untold(d) <=> d = ball.to /\ c <= d
  <2>1. \A d \in Player : ToPrint(d) <=> c <= d
        BY PrintNow DEF PrintFacts
  <2> QED BY <2>1 DEF Untold, AwaitsLine, AwaitsAnswer
<1>2. c <= c
      BY Processes
<1>3. (Untold(c) <=> c = ball.to) /\ (ball.to \in missed <=> ~ball.caught)
      BY <1>1, <1>2 DEF Table
<1>4. ball.caught \in BOOLEAN /\ version \in {"student", "instructor"}
      BY DEF Types, SignalTypes, ChildTypes
<1>5. Entry(c) = Happened(c)
  <2>1. CASE version = "student"
    <3>1. /\ just_missed[c] <=> Untold(c) /\ ~ball.caught
          /\ last_action[c] = "CATCHMADE" <=> Untold(c) /\ ball.caught
          /\ my_status[c] = "OUTOFGAME" <=> c \in missed /\ (Untold(c) => ball.caught)
          BY <2>1 DEF Notes
    <3> QED BY <1>3, <1>4, <2>1, <3>1 DEF Entry, Happened
  <2>2. CASE version = "instructor"
    <3>1. state[c] = IF Untold(c) THEN IF ball.caught THEN "HAVEBALL" ELSE "BALLMISSED"
                     ELSE IF c \in missed THEN "OUTOFGAME" ELSE "PLAYING"
          BY <2>2 DEF Notes
    <3> QED BY <1>3, <1>4, <2>2, <3>1 DEF Entry, Happened
  <2> QED BY <1>4, <2>1, <2>2
<1> QED BY <1>1, <1>5 DEF Happened

(* A child prints what has happened to it, which is then part of the line. *)
LEMMA PrintStep ==
    ASSUME Inv, NEW c \in Player, PrintStatus(c)
    PROVE  Inv' /\ Printed(c)'
<1> USE DEF Inv, Game
<1>1. /\ In(c, "print") /\ To(c, "pass") /\ AfterPrint(c, Entry(c))
      /\ line' = Append(IF Len(line) = n THEN <<>> ELSE line, [by |-> c, text |-> Entry(c)])
      /\ UNCHANGED <<version, pending, exited, pc, table, received_signal, closing, dummycpid,
                     ball, missed, winners>>
      BY DEF PrintStatus, parentVars
<1>2. /\ Inner(c).sig \in Signals /\ "print" \in ChildSteps(Inner(c).sig)
      /\ spot[c] = "print" /\ c \notin exited
  <2>1. SpotAt(c, "print") = "print"
        BY DEF SpotAt
  <2> QED BY <1>1, <2>1, InnerSpot
<1>3. Busy(c, {"print"}) /\ AwaitsLine /\ \A q \in Process : pending[q] = {}
      BY <1>2, WhoIsBusy DEF Telling, Busy
<1>4. PICK entry \in {"MISS", "blank", "CATCH", "dots"} : entry = Entry(c)
      BY <1>3, EntryTrue
<1>5. /\ my_status' \in [Player -> {"PLAYING", "OUTOFGAME"}]
      /\ last_action' \in [Player -> {"PLAYING", "CATCHMADE"}]
      /\ just_missed' \in [Player -> BOOLEAN]
      /\ state' \in [Player -> {"PLAYING", "HAVEBALL", "BALLMISSED", "OUTOFGAME"}]
      /\ \A d \in Player : d # c =>
            /\ my_status'[d] = my_status[d] /\ last_action'[d] = last_action[d]
            /\ just_missed'[d] = just_missed[d] /\ state'[d] = state[d]
      /\ version = "student" =>
            /\ just_missed'[c] = FALSE
            /\ my_status'[c] = IF entry = "MISS" THEN "OUTOFGAME" ELSE my_status[c]
            /\ last_action'[c] = IF entry = "CATCH" THEN "PLAYING" ELSE last_action[c]
            /\ state' = state
      /\ version # "student" =>
            state'[c] = IF entry = "CATCH" THEN "PLAYING"
                        ELSE IF entry = "MISS" THEN "OUTOFGAME" ELSE state[c]
  <2>1. /\ my_status \in [Player -> {"PLAYING", "OUTOFGAME"}]
        /\ last_action \in [Player -> {"PLAYING", "CATCHMADE"}]
        /\ just_missed \in [Player -> BOOLEAN]
        /\ state \in [Player -> {"PLAYING", "HAVEBALL", "BALLMISSED", "OUTOFGAME"}]
        BY DEF Types, ChildTypes
  <2>2. CASE version = "student"
    <3>1. /\ just_missed' = [just_missed EXCEPT ![c] = FALSE]
          /\ my_status' = [my_status EXCEPT ![c] = IF entry = "MISS" THEN "OUTOFGAME" ELSE @]
          /\ last_action' = [last_action EXCEPT ![c] = IF entry = "CATCH" THEN "PLAYING" ELSE @]
          /\ state' = state
          BY <1>1, <1>4, <2>2 DEF AfterPrint
    <3> QED BY ONLY <2>1, <2>2, <3>1, c \in Player
  <2>3. CASE version # "student"
    <3>1. /\ state' = [state EXCEPT ![c] = IF entry = "CATCH" THEN "PLAYING"
                                           ELSE IF entry = "MISS" THEN "OUTOFGAME" ELSE @]
          /\ UNCHANGED <<my_status, last_action, just_missed>>
          BY <1>1, <1>4, <2>3 DEF AfterPrint
    <3> QED BY ONLY <2>1, <2>3, <3>1, c \in Player
  <2> QED BY <2>2, <2>3
<1>6. /\ handlers' \in [Process -> Seq(Running)] /\ Stacks'
      /\ post' = post /\ answer' = answer /\ spot' = [spot EXCEPT ![c] = "pass"]
  <2>1. "pass" \in ChildSteps(Inner(c).sig) /\ "pass" \in HandlerSteps
        BY <1>2 DEF ChildSteps, Signals, HandlerSteps
  <2>2. KeepsParent
        BY <1>1 DEF KeepsParent
  <2>3. SpotAt(c, "pass")' = "pass"
        BY DEF SpotAt
  <2>4. state'[c] = "BALLMISSED" => state[c] = "BALLMISSED"
        BY <1>5
  <2> QED BY <1>1, <1>5, <2>1, <2>2, <2>3, <2>4, ChildTo
<1>7. Busy(c, {"pass"})'
  <2>1. \A d \in Player : d # c => spot[d] = "idle"
        BY <1>3 DEF Busy, Alone
  <2> QED BY <1>1, <1>3, <1>6, <2>1, BusyAt, SpotDomain
<1>8. AwaitsLine' /\ ~AwaitsAnswer' /\ ~AwaitsEnd' /\ current_player \in Player
      /\ current_player' = current_player
      BY <1>1, <1>3, <1>6 DEF AwaitsLine, AwaitsAnswer, AwaitsEnd, table, Types, ParentTypes
<1>9. ~Flying /\ ~Flying'
      BY <1>3, <1>7, <1>8, Processes DEF Flying, Sent, Busy, Alone
<1>10. Token'
      BY <1>7, <1>8 DEF Token, Busy
<1>11. Exits' /\ Table' /\ Count' /\ Claims'
      BY <1>1, <1>6, <1>9, TableKept
<1>12. line' \in Seq(Entries) /\ Printed(c)'
  <2>1. PICK old \in Seq(Entries) :
           /\ old = IF Len(line) = n THEN <<>> ELSE line
           /\ Len(old) = c - 1
           /\ \A i \in 1..(c - 1) : old[i] = [by |-> i, text |-> Happened(i)]
    <3>1. line \in Seq(Entries) /\ Len(<<>>) = 0 /\ <<>> \in Seq(Entries)
          BY EmptySeq DEF Types, ChildTypes
    <3>2. Printed(c - 1) \/ (c = 1 /\ Len(line) = n)
          BY <1>3 DEF Lines
    <3>3. CASE Printed(c - 1)
      <4>1. Len(line) # n
            BY <3>3, Processes DEF Printed
      <4> QED BY <3>1, <3>3, <4>1 DEF Printed
    <3>4. CASE c = 1 /\ Len(line) = n
      <4>1. \A i \in 1..(c - 1) : FALSE
            BY <3>4
      <4>2. PICK o \in Seq(Entries) : o = <<>> /\ Len(o) = 0
            BY <3>1
      <4>3. Len(o) = c - 1 /\ o = IF Len(line) = n THEN <<>> ELSE line
            BY <3>4, <4>2
      <4> QED BY <4>1, <4>3
    <3> QED BY <3>2, <3>3, <3>4
  <2>2. PICK e \in Entries : e = [by |-> c, text |-> Happened(c)] /\ line' = Append(old, e)
    <3>1. [by |-> c, text |-> Happened(c)] \in Entries
          BY <1>3, EntryTrue DEF Entries
    <3> QED BY <1>1, <1>3, <2>1, <3>1, EntryTrue
  <2>3. /\ line' \in Seq(Entries) /\ Len(line') = Len(old) + 1
        /\ \A i \in 1..Len(old) : line'[i] = old[i]
        /\ line'[Len(old) + 1] = e
        BY <2>1, <2>2, AppendProperties
  <2>4. \A i : Happened(i)' = Happened(i)
        BY <1>1 DEF Happened
  <2>5. c \in Nat /\ c >= 1
        BY Processes
  <2>6. ASSUME NEW i \in 1..c PROVE line'[i] = [by |-> i, text |-> Happened(i)]
    <3>1. CASE i = c
          BY <2>1, <2>2, <2>3, <2>5, <3>1
    <3>2. CASE i # c
      <4>1. i \in 1..(c - 1)
            BY <2>5, <3>2
      <4> QED BY <2>1, <2>3, <4>1
    <3> QED BY <3>1, <3>2
  <2>7. Len(line') = c
        BY <2>1, <2>3, <2>5
  <2> QED BY <2>3, <2>4, <2>6, <2>7 DEF Printed
<1>13. Lines'
  <2>1. \A d \in Player : \A A : Busy(d, A)' => d = c /\ "pass" \in A
        BY <1>7 DEF Busy, Alone
  <2>2. \A d \in Process, s \in Signals : ~Sent(d, s)'
        BY <1>1, <1>3 DEF Sent
  <2> QED BY <1>8, <1>12, <2>1, <2>2, Processes DEF Lines, Signals
<1>14. Notes'
  <2>1. \A d \in Player : Untold(d) <=> d = ball.to /\ c <= d
        BY <1>3, EntryTrue
  <2>2. \A d \in Player : Untold(d)' <=> d = ball.to /\ c < d
    <3>1. \A d \in Player : ToPrint(d)' <=> c < d
          BY <1>7, PrintNext DEF PrintFacts
    <3> QED BY <1>1, <1>8, <3>1 DEF Untold, AwaitsLine, AwaitsAnswer
  <2>3. ASSUME NEW d \in Player, d # c
        PROVE  /\ Untold(d)' <=> Untold(d)
               /\ my_status'[d] = my_status[d] /\ last_action'[d] = last_action[d]
               /\ just_missed'[d] = just_missed[d] /\ state'[d] = state[d]
        BY <1>5, <2>1, <2>2, <2>3, Processes
  <2>4. /\ ~Untold(c)' /\ (Untold(c) <=> c = ball.to)
        /\ (ball.to \in missed <=> ~ball.caught) /\ ball.caught \in BOOLEAN
        /\ entry = Happened(c)
        BY <1>3, <1>4, <2>1, <2>2, EntryTrue, Processes DEF Table, Types, ChildTypes
  <2>5. CASE version = "student"
    <3>1. /\ just_missed'[c] = FALSE
          /\ last_action'[c] # "CATCHMADE"
          /\ my_status'[c] = "OUTOFGAME" <=> c \in missed
      <4>1. /\ last_action[c] = "CATCHMADE" <=> Untold(c) /\ ball.caught
            /\ my_status[c] = "OUTOFGAME" <=> c \in missed /\ (Untold(c) => ball.caught)
            BY <2>5 DEF Notes
      <4> QED BY <1>5, <2>4, <2>5, <4>1 DEF Happened
    <3>2. ASSUME NEW d \in Player
          PROVE  /\ just_missed'[d] <=> Untold(d)' /\ ~ball.caught
                 /\ last_action'[d] = "CATCHMADE" <=> Untold(d)' /\ ball.caught
                 /\ my_status'[d] = "OUTOFGAME" <=> d \in missed /\ (Untold(d)' => ball.caught)
      <4>1. CASE d = c
            BY <2>4, <3>1, <4>1
      <4>2. CASE d # c
        <5>1. /\ just_missed[d] <=> Untold(d) /\ ~ball.caught
              /\ last_action[d] = "CATCHMADE" <=> Untold(d) /\ ball.caught
              /\ my_status[d] = "OUTOFGAME" <=> d \in missed /\ (Untold(d) => ball.caught)
              BY <2>5 DEF Notes
        <5> QED BY <2>3, <4>2, <5>1
      <4> QED BY <4>1, <4>2
    <3> QED BY <1>1, <2>5, <3>2 DEF Notes
  <2>6. CASE version # "student"
    <3>1. ASSUME NEW d \in Player
          PROVE  state'[d] = IF Untold(d)' THEN IF ball.caught THEN "HAVEBALL" ELSE "BALLMISSED"
                             ELSE IF d \in missed THEN "OUTOFGAME" ELSE "PLAYING"
      <4>1. state[d] = IF Untold(d) THEN IF ball.caught THEN "HAVEBALL" ELSE "BALLMISSED"
                       ELSE IF d \in missed THEN "OUTOFGAME" ELSE "PLAYING"
            BY <2>6 DEF Notes
      <4>2. CASE d = c
            BY <1>5, <2>4, <2>6, <4>1, <4>2 DEF Happened
      <4>3. CASE d # c
            BY <2>3, <4>1, <4>3
      <4> QED BY <4>2, <4>3
    <3> QED BY <1>1, <2>6, <3>1 DEF Notes
  <2> QED BY <2>5, <2>6
<1>15. Types'
  <2>1. SignalTypes'
        BY <1>1, <1>6 DEF Types, SignalTypes
  <2>2. ParentTypes'
        BY <1>1 DEF Types, ParentTypes, table
  <2>3. ChildTypes'
        BY <1>1, <1>5, <1>12 DEF Types, ChildTypes
  <2> QED BY <2>1, <2>2, <2>3 DEF Types
<1> QED BY <1>6, <1>10, <1>11, <1>12, <1>13, <1>14, <1>15

(* The child in play catches the ball or misses it. *)
LEMMA ReceiveStep ==
    ASSUME Inv, NEW c \in Player, NEW caught \in BOOLEAN, ReceiveBall(c, caught)
    PROVE  Inv'
<1> USE DEF Inv, Game
<1>1. /\ In(c, "receive") /\ ball' = [to |-> c, caught |-> caught]
      /\ missed' = IF caught THEN missed ELSE missed \cup {c}
      /\ UNCHANGED <<version, pending, exited, pc, table, received_signal, closing, dummycpid,
                     my_status, line, winners>>
      BY DEF ReceiveBall, parentVars
<1>2. /\ Inner(c).sig = "SIGUSR2" /\ spot[c] = "receive" /\ c \notin exited
  <2>1. SpotAt(c, "receive") = "receive"
        BY DEF SpotAt
  <2>2. Inner(c).sig \in Signals /\ "receive" \in ChildSteps(Inner(c).sig)
        BY <1>1, InnerSpot
  <2> QED BY <1>1, <2>1, <2>2, InnerSpot DEF ChildSteps, Signals
<1>3. Busy(c, {"receive"}) /\ AwaitsAnswer /\ c = current_player /\ Flying
      /\ \A q \in Process : pending[q] = {}
      BY <1>2, WhoIsBusy DEF Telling, Busy
<1>4. version \in {"student", "instructor"}
      BY DEF Types, SignalTypes
<1>5. Noted /\ Turn /\ c \in InPlay /\ c \notin missed
  <2>1. Noted /\ Turn /\ c \in InPlay
        BY <1>3 DEF Noted, Turn, Table
  <2> QED BY <2>1 DEF Table, InPlay
<1>6. \A d \in Player : ~Untold(d)
      BY <1>3 DEF Untold, AwaitsAnswer, AwaitsLine
<1>7. version = "instructor" => state[c] = "PLAYING"
      BY <1>4, <1>5, <1>6 DEF Notes
<1>8. PICK at \in {"tellcatch", "tellmiss"} :
         /\ To(c, at)
         /\ at = IF version = "instructor" \/ caught THEN "tellcatch" ELSE "tellmiss"
      BY <1>4, <1>7 DEF ReceiveBall
<1>9. /\ version = "student" =>
            /\ state' = state
            /\ last_action' = IF caught THEN [last_action EXCEPT ![c] = "CATCHMADE"]
                              ELSE last_action
            /\ just_missed' = IF caught THEN just_missed ELSE [just_missed EXCEPT ![c] = TRUE]
      /\ version = "instructor" =>
            /\ state' = [state EXCEPT ![c] = IF caught THEN "HAVEBALL" ELSE "BALLMISSED"]
            /\ last_action' = last_action /\ just_missed' = just_missed
      BY <1>7 DEF ReceiveBall
<1>10. /\ last_action' \in [Player -> {"PLAYING", "CATCHMADE"}]
       /\ just_missed' \in [Player -> BOOLEAN]
       /\ state' \in [Player -> {"PLAYING", "HAVEBALL", "BALLMISSED", "OUTOFGAME"}]
       /\ \A d \in Player : d # c => state'[d] = state[d]
  <2>1. CASE version = "student"
        BY <1>9, <2>1 DEF Types, ChildTypes
  <2>2. CASE version = "instructor"
        BY <1>9, <2>2 DEF Types, ChildTypes
  <2> QED BY <1>4, <2>1, <2>2
<1>11. /\ handlers' \in [Process -> Seq(Running)] /\ Stacks'
       /\ post' = post /\ answer' = answer /\ spot' = [spot EXCEPT ![c] = at]
  <2>1. at \in ChildSteps(Inner(c).sig) /\ at \in HandlerSteps
        BY <1>2 DEF ChildSteps, HandlerSteps
  <2>2. KeepsParent
        BY <1>1 DEF KeepsParent
  <2>3. SpotAt(c, at)' = at
        BY <1>1, <1>8 DEF SpotAt
  <2> QED BY <1>1, <1>2, <1>8, <1>10, <2>1, <2>2, <2>3, ChildTo
<1>12. Busy(c, {at})'
  <2>1. \A d \in Player : d # c => spot[d] = "idle"
        BY <1>3 DEF Busy, Alone
  <2> QED BY <1>1, <1>3, <1>11, <2>1, BusyAt, SpotDomain
<1>13. AwaitsAnswer' /\ ~AwaitsLine' /\ ~AwaitsEnd' /\ ~AwaitsLine
       /\ current_player' = c /\ c \in Player
       BY <1>1, <1>3, <1>11 DEF AwaitsLine, AwaitsAnswer, AwaitsEnd, table
<1>14. Telling' /\ ~Flying'
  <2>1. Telling'
        BY <1>1, <1>4, <1>8, <1>12, <1>13 DEF Telling, Busy
  <2> QED BY <1>12, <1>13, <2>1 DEF Flying, Sent, Busy
<1>15. Token' /\ Lines'
  <2>1. Token'
        BY <1>13, <1>14 DEF Token
  <2> QED BY <1>1, <1>13, <2>1 DEF Lines
<1>16. Exits'
       BY <1>1, <1>11 DEF Exits
<1>17. ~Noted' /\ Turn'
       BY <1>13, <1>14 DEF Noted, Turn, AwaitsAnswer
<1>18. Table'
  <2>1. child_status' = child_status /\ InPlay' = InPlay
        BY <1>1 DEF InPlay, table
  <2>2. \A d \in Player :
           child_status'[d] = "OUTOFGAME" <=> d \in missed' /\ (Noted' \/ d # current_player')
        BY <1>1, <1>3, <1>5, <1>13, <1>17, <2>1 DEF Table
  <2>3. ball'.to \in missed' <=> ~ball'.caught
        BY <1>1, <1>5
  <2>4. ball'.to = current_player' /\ current_player' \in InPlay'
        BY <1>1, <1>5, <1>13, <2>1
  <2>5. answer' = "none" /\ post' \in {"test", "pause", "paused"}
        BY <1>13 DEF AwaitsAnswer
  <2> QED BY <2>2, <2>3, <2>4, <2>5 DEF Table
<1>19. Count'
  <2>1. InPlay' = InPlay
        BY <1>1 DEF InPlay, table
  <2> QED BY <1>1, <1>11, <2>1 DEF Count, table
<1>20. Claims'
       BY <1>1, <1>2 DEF Claims
<1>21. Notes'
  <2>1. \A d \in Player : Untold(d)' <=> d = c
        BY <1>1, <1>13, <1>14 DEF Untold, AwaitsAnswer
  <2>2. CASE version = "student"
    <3>1. ASSUME NEW d \in Player
          PROVE  /\ just_missed'[d] <=> Untold(d)' /\ ~caught
                 /\ last_action'[d] = "CATCHMADE" <=> Untold(d)' /\ caught
                 /\ my_status'[d] = "OUTOFGAME" <=> d \in missed' /\ (Untold(d)' => caught)
      <4>1. /\ ~just_missed[d]
            /\ last_action[d] # "CATCHMADE"
            /\ my_status[d] = "OUTOFGAME" <=> d \in missed
            BY <1>6, <2>2 DEF Notes
      <4>2. just_missed'[d] <=> d = c /\ ~caught
            BY <1>9, <2>2, <4>1 DEF Types, ChildTypes
      <4>3. last_action'[d] = "CATCHMADE" <=> d = c /\ caught
            BY <1>9, <2>2, <4>1 DEF Types, ChildTypes
      <4> QED BY <1>1, <1>5, <2>1, <4>1, <4>2, <4>3
    <3> QED BY <1>1, <2>2, <3>1 DEF Notes
  <2>3. CASE version = "instructor"
    <3>1. ASSUME NEW d \in Player
          PROVE  state'[d] = IF Untold(d)' THEN IF caught THEN "HAVEBALL" ELSE "BALLMISSED"
                             ELSE IF d \in missed' THEN "OUTOFGAME" ELSE "PLAYING"
      <4>1. state[d] = IF d \in missed THEN "OUTOFGAME" ELSE "PLAYING"
            BY <1>6, <2>3 DEF Notes
      <4>2. state'[d] = IF d = c THEN IF caught THEN "HAVEBALL" ELSE "BALLMISSED" ELSE state[d]
            BY <1>9, <2>3 DEF Types, ChildTypes
      <4> QED BY <1>1, <2>1, <4>1, <4>2
    <3> QED BY <1>1, <2>3, <3>1 DEF Notes
  <2> QED BY <1>4, <2>2, <2>3
<1>22. Types'
  <2>1. SignalTypes'
        BY <1>1, <1>11 DEF Types, SignalTypes
  <2>2. ParentTypes'
        BY <1>1 DEF Types, ParentTypes, table
  <2>3. ChildTypes'
        BY <1>1, <1>10 DEF Types, ChildTypes
  <2> QED BY <2>1, <2>2, <2>3 DEF Types
<1> QED BY <1>11, <1>15, <1>16, <1>18, <1>19, <1>20, <1>21, <1>22

(* At the end a child says that it has won if it has never missed. *)
LEMMA ExitStep ==
    ASSUME Inv, NEW c \in Player, ChildExits(c)
    PROVE  Inv'
<1> USE DEF Inv, Game
<1>1. /\ In(c, "exit") /\ exited' = exited \cup {c}
      /\ winners' = IF StillIn(c) THEN winners \cup {c} ELSE winners
      /\ UNCHANGED <<version, pending, handlers, pc, table, received_signal, closing, dummycpid,
                     my_status, last_action, just_missed, state, line, ball, missed>>
      BY DEF ChildExits, parentVars
<1>2. spot[c] = "exit" /\ c \notin exited
  <2>1. SpotAt(c, "exit") = "exit"
        BY DEF SpotAt
  <2> QED BY <1>1, <2>1, InnerSpot
<1>3. Busy(c, {"exit"}) /\ AwaitsEnd /\ c = closing /\ \A q \in Process : pending[q] = {}
      BY <1>2, WhoIsBusy DEF Telling, Busy
<1>4. c # parent /\ c # dummy /\ c \in Process
      BY Processes
<1>5. post' = post /\ answer' = answer /\ post = "reap"
  <2>1. post' = post
        BY <1>1 DEF post, Inner
  <2> QED BY <1>1, <1>3, <2>1 DEF answer, Inner, AwaitsEnd
<1>6. spot' = [spot EXCEPT ![c] = "idle"]
  <2>1. spot'[c] = "idle"
        BY <1>1 DEF spot
  <2>2. ASSUME NEW d \in Player, d # c PROVE spot'[d] = spot[d]
        BY <1>1, <2>2 DEF spot, Idle, Inner
  <2>3. spot = [d \in Player |-> spot[d]] /\ spot' = [d \in Player |-> spot'[d]]
        BY DEF spot
  <2> QED BY <2>1, <2>2, <2>3
<1>7. Stacks'
      BY <1>1 DEF Stacks, ParentStack, ChildStack, Idle
<1>8. Calm'
      BY <1>1, <1>3, <1>6, SpotDomain DEF Calm, Busy, Alone
<1>9. ~AwaitsAnswer' /\ ~AwaitsLine' /\ ~AwaitsEnd' /\ ~AwaitsAnswer /\ ~AwaitsLine
      BY <1>1, <1>3, <1>5 DEF AwaitsAnswer, AwaitsLine, AwaitsEnd
<1>10. Token' /\ Lines'
       BY <1>1, <1>8, <1>9 DEF Token, Lines
<1>11. Noted /\ Noted' /\ (Turn' <=> Turn) /\ InPlay' = InPlay /\ Result' = Result
       /\ \A d \in Player : ~Untold(d) /\ ~Untold(d)'
  <2>1. Noted /\ Noted' /\ InPlay' = InPlay /\ Result' = Result
        BY <1>1, <1>5 DEF Noted, InPlay, table, Result
  <2>2. Turn' <=> Turn
        BY <1>1, <1>5, <1>9, <2>1 DEF Turn, table
  <2>3. \A d \in Player : ~Untold(d) /\ ~Untold(d)'
        BY <1>5, <1>9 DEF Untold
  <2> QED BY <2>1, <2>2, <2>3
<1>12. Exits'
       BY <1>1, <1>3, <1>4, <1>5, Processes DEF Exits
<1>13. Table'
       BY <1>1, <1>5, <1>11 DEF Table, table
<1>14. Count'
       BY <1>1, <1>5, <1>11 DEF Count, table
<1>15. Notes'
       BY <1>1, <1>11 DEF Notes
<1>16. Claims'
  <2>1. StillIn(c) <=> c \notin missed
    <3>1. CASE version = "student"
          BY <1>11, <3>1 DEF StillIn, Notes
    <3>2. CASE version # "student"
          BY <1>11, <3>2 DEF StillIn, Notes
    <3> QED BY <3>1, <3>2
  <2> QED BY <1>1, <1>2, <2>1 DEF Claims
<1>17. Types'
       BY <1>1, <1>4 DEF Types, SignalTypes, ParentTypes, ChildTypes, table
<1> QED BY <1>7, <1>10, <1>12, <1>13, <1>14, <1>15, <1>16, <1>17

(* The line is complete when the dummy ends. *)
LEMMA DummyStep ==
    ASSUME Inv, DummyExits
    PROVE  Inv'
<1> USE DEF Inv, Game
<1>1. /\ dummy \notin exited /\ "SIGINT" \in pending[dummy]
      /\ pending' = [pending EXCEPT ![dummy] = {}] /\ exited' = exited \cup {dummy}
      /\ UNCHANGED <<version, handlers, pc, table, received_signal, closing, dummycpid, childVars>>
      BY DEF DummyExits, parentVars
<1>2. dummy \in Process /\ dummy # parent /\ \A c \in Player : c # dummy /\ c \in Process
      BY Processes
<1>3. AwaitsLine /\ Sent(dummy, "SIGINT")
  <2>1. ~Calm
        BY <1>1, <1>2 DEF Calm
  <2>2. ~AwaitsAnswer /\ ~AwaitsEnd
        BY <1>1, <1>2
        DEF Exits, AwaitsAnswer, AwaitsEnd
  <2>3. \A c \in Player : \A A : ~Sent(c, "SIGUSR1") /\ ~Busy(c, A)
        BY <1>1, <1>2 DEF Sent, Busy, Alone
  <2> QED BY <2>1, <2>2, <2>3 DEF Token
<1>4. KeepsChildren
      BY <1>1, <1>2 DEF KeepsChildren, childVars
<1>5. post' = post /\ answer' = answer /\ post = "wait"
  <2>1. post' = post
        BY <1>1 DEF post, Inner
  <2> QED BY <1>1, <1>3, <2>1 DEF answer, Inner, AwaitsLine
<1>6. spot' = spot /\ Stacks'
  <2>1. ParentStack'
        BY <1>1 DEF Stacks, ParentStack
  <2> QED BY <1>4, <2>1, ChildrenKept DEF Stacks
<1>7. Calm'
      BY <1>1, <1>3, <1>2, <1>6 DEF Calm, Sent, Alone, Types, SignalTypes
<1>8. ~AwaitsAnswer' /\ ~AwaitsLine' /\ ~AwaitsEnd' /\ ~AwaitsAnswer
      BY <1>1, <1>5 DEF AwaitsAnswer, AwaitsLine, AwaitsEnd
<1>9. Token' /\ Lines'
      BY <1>1, <1>3, <1>7, <1>8 DEF Token, Lines, childVars
<1>10. (Noted' <=> Noted) /\ (Turn' <=> Turn) /\ InPlay' = InPlay /\ Result' = Result
       /\ \A d \in Player : ~Untold(d) /\ ~Untold(d)'
  <2>1. (Noted' <=> Noted) /\ InPlay' = InPlay /\ Result' = Result
        BY <1>1, <1>5, <1>8 DEF Noted, InPlay, table, childVars, Result
  <2>2. Turn' <=> Turn
        BY <1>1, <1>5, <1>8, <2>1 DEF Turn, table
  <2>3. \A d \in Player : ~ToPrint(d)
        BY <1>3, PrintNow DEF PrintFacts
  <2>4. \A d \in Player : ~Untold(d) /\ ~Untold(d)'
        BY <1>5, <1>8, <2>3 DEF Untold
  <2> QED BY <2>1, <2>2, <2>4
<1>11. Exits'
       BY <1>1, <1>2, <1>5 DEF Exits
<1>12. Table'
       BY <1>1, <1>5, <1>10 DEF Table, table, childVars
<1>13. Count'
       BY <1>1, <1>5, <1>10 DEF Count, table
<1>14. Notes'
       BY <1>1, <1>10 DEF Notes, childVars
<1>15. Claims'
       BY <1>1, <1>2 DEF Claims, childVars
<1>16. Types'
  <2>1. pending' \in [Process -> SUBSET Signals]
        BY <1>1, <1>2 DEF Types, SignalTypes
  <2> QED BY <1>1, <1>2, <2>1 DEF Types, SignalTypes, ParentTypes, ChildTypes, table, childVars
<1> QED BY <1>6, <1>9, <1>11, <1>12, <1>13, <1>14, <1>15, <1>16

-----------------------------------------------------------------------------
(* The steps of the parent keep the invariant *)

(* Where the parent is. *)
LEMMA HereIs ==
    ASSUME Types, Stacks, NEW at, Here(at)
    PROVE  /\ parent \notin exited /\ version \in {"student", "instructor"}
           /\ version = "student" => pc = at
           /\ version = "instructor" => at \in ParentSteps /\ pc = "paused" /\ In(parent, at)
           /\ at # "return" => post = at
           /\ version = "instructor" /\ at \notin {"throw", "paused", "return"} =>
                 answer = Inner(parent).sig
<1>1. version \in {"student", "instructor"} /\ parent \notin exited
      BY DEF Types, SignalTypes, Here
<1>2. CASE version = "student"
      BY <1>1, <1>2 DEF Here, post
<1>3. CASE version = "instructor"
  <2>1. handlers[parent] # <<>> /\ Inner(parent).at = at /\ In(parent, at)
        BY <1>3 DEF Here, In
  <2>2. pc = "paused"
        BY <1>3, <2>1 DEF Types, SignalTypes, Stacks, ParentStack
  <2>3. at \in ParentSteps
    <3>1. handlers[parent] \in Seq(Running)
          BY Processes DEF Types, SignalTypes
    <3>2. Len(handlers[parent]) \in DOMAIN handlers[parent]
          BY <2>1, <3>1, EmptySeq, LenProperties
    <3> QED BY <2>1, <3>2 DEF Stacks, ParentStack, Inner
  <2>4. at # "return" => post = at
        BY <1>3, <2>1, <2>2 DEF post
  <2>5. at \notin {"throw", "paused", "return"} => answer = Inner(parent).sig
        BY <1>3, <2>4 DEF answer
  <2> QED BY <1>1, <1>3, <2>1, <2>2, <2>3, <2>4, <2>5
<1> QED BY <1>1, <1>2, <1>3

(* The instructor's parent waits for an answer in pause() alone. *)
LEMMA InstructorPauses ==
    ASSUME Types, Stacks, version = "instructor", parent \notin exited,
           post \in {"test", "pause", "paused"}
    PROVE  post = "paused"
<1>1. pc = "paused"
      BY DEF Types, SignalTypes, post
<1>2. CASE handlers[parent] = <<>>
      BY <1>1, <1>2 DEF post
<1>3. CASE handlers[parent] # <<>>
  <2>1. Here(Inner(parent).at)
        BY <1>3 DEF Here, In
  <2>2. Inner(parent).at \in ParentSteps
        BY <2>1, HereIs
  <2> QED BY <1>1, <1>3, <2>2 DEF post, ParentSteps
<1> QED BY <1>2, <1>3

(* Nothing is sent and no child does anything. *)
LEMMA TokenKept ==
    ASSUME UNCHANGED <<pending, spot, version, current_player, ball>>
    PROVE  /\ \A p, sig : Sent(p, sig)' <=> Sent(p, sig)
           /\ \A c, A : Busy(c, A)' <=> Busy(c, A)
           /\ (Calm' <=> Calm) /\ (Flying' <=> Flying) /\ (Telling' <=> Telling)
           /\ Result' = Result
<1>1. /\ \A p, sig : Sent(p, sig)' <=> Sent(p, sig)
      /\ \A c, A : Busy(c, A)' <=> Busy(c, A)
      /\ Calm' <=> Calm
      BY DEF Sent, Busy, Alone, Calm
<1> QED BY <1>1 DEF Flying, Telling, Result

(* Calm stays while nothing is sent and nobody starts anything. *)
LEMMA CalmKept ==
    ASSUME Calm, UNCHANGED <<pending, spot>>
    PROVE  Calm'
BY DEF Calm

(* While the parent is at work there is no other token. *)
LEMMA CalmNow ==
    ASSUME Token, post \notin {"test", "pause", "paused", "wait", "reap"}
    PROVE  Calm /\ ~AwaitsAnswer /\ ~AwaitsLine /\ ~AwaitsEnd
BY DEF Token, AwaitsAnswer, AwaitsLine, AwaitsEnd

(* Calm is right for a parent that waits for nothing. *)
LEMMA CalmThen ==
    ASSUME Lines, ~AwaitsLine, line' = line, Calm', ~AwaitsAnswer', ~AwaitsLine', ~AwaitsEnd'
    PROVE  Token' /\ Lines'
BY DEF Token, Lines

(* The answer comes in. *)
LEMMA ParentCalledStep ==
    ASSUME Inv, ParentCalled
    PROVE  Inv'
<1> USE DEF Inv, Game
<1>1. PICK sig \in {"SIGUSR1", "SIGUSR2"} :
         ReceivedSignal(sig) \/ (version = "instructor" /\ Call(parent, sig, "fork"))
      BY DEF ParentCalled
<1>2. /\ sig \in pending[parent] /\ parent \notin exited
      /\ pending' = [pending EXCEPT ![parent] = @ \ {sig}]
      /\ UNCHANGED <<version, exited, table, closing, dummycpid, childVars>>
      /\ UNCHANGED <<version, exited, current_player, child_status, players_remaining>>
      BY <1>1 DEF ReceivedSignal, Call, Deliverable, parentVars, table
<1>3. parent \in Process /\ dummy \in Process /\ parent # dummy
      /\ \A c \in Player : c \in Process /\ c # parent
      BY Processes
<1>4. AwaitsAnswer /\ Sent(parent, Result) /\ sig = Result
  <2>1. ~Calm
        BY <1>2, <1>3 DEF Calm
  <2>2. /\ \A c \in Player : \A s : ~Sent(c, s)
        /\ \A c \in Player : \A A : ~Busy(c, A)
        /\ ~Sent(dummy, "SIGINT")
        BY <1>2, <1>3 DEF Sent, Busy, Alone
  <2>3. ~AwaitsLine
        BY <2>2 DEF Token
  <2>4. ~AwaitsEnd
    <3>1. ASSUME AwaitsEnd PROVE closing \in Player
      <4>1. closing \in Player \cup {dummy} /\ closing # dummy
            BY <1>2, Processes DEF Types, ParentTypes, Player, dummy, Exits
      <4> QED BY <4>1
    <3> QED BY <2>2, <3>1 DEF Token
  <2>5. AwaitsAnswer
        BY <2>1, <2>3, <2>4 DEF Token
  <2>6. current_player \in Player
        BY DEF Types, ParentTypes
  <2>7. Sent(parent, Result)
        BY <2>2, <2>5, <2>6 DEF Token, Flying, Telling
  <2> QED BY <1>2, <2>5, <2>7 DEF Sent
<1>5. /\ handlers' \in [Process -> Seq(Running)] /\ Stacks' /\ spot' = spot
      /\ answer' = sig
      /\ version = "student" => post' \in {"test", "pause"}
      /\ version # "student" => post' = "fork"
  <2>1. CASE ReceivedSignal(sig)
    <3>1. /\ version = "student" /\ received_signal' = sig /\ UNCHANGED <<handlers, exited, state>>
          /\ pc' = IF pc = "paused" THEN "test" ELSE pc
          BY <2>1 DEF ReceivedSignal, childVars
    <3>2. post = pc /\ post' = pc' /\ answer' = sig
          BY <1>2, <3>1 DEF post, answer
    <3>3. KeepsChildren
          BY <1>2, <3>1 DEF KeepsChildren
    <3>4. ParentStack'
          BY <1>2, <3>1 DEF Stacks, ParentStack
    <3>5. handlers' \in [Process -> Seq(Running)]
          BY <3>1 DEF Types, SignalTypes
    <3> QED BY <1>4, <3>1, <3>2, <3>3, <3>4, <3>5, ChildrenKept DEF AwaitsAnswer, Stacks
  <2>2. CASE version = "instructor" /\ Call(parent, sig, "fork")
    <3>1. post = "paused"
          BY <1>2, <1>4, <2>2, InstructorPauses DEF AwaitsAnswer
    <3> QED BY <2>2, <3>1, ParentCall DEF Signals
  <2> QED BY <1>1, <2>1, <2>2
<1>6. Calm'
      BY <1>2, <1>3, <1>4, <1>5 DEF Calm, Sent, Alone, Types, SignalTypes
<1>7. ~AwaitsAnswer' /\ ~AwaitsLine' /\ ~AwaitsEnd' /\ ~AwaitsLine /\ post \in {"test", "pause", "paused"}
      /\ answer = "none" /\ answer' \in {"SIGUSR1", "SIGUSR2"}
      BY <1>4, <1>5 DEF AwaitsAnswer, AwaitsLine, AwaitsEnd
<1>8. line' = line /\ ball' = ball /\ missed' = missed /\ winners' = winners
      BY <1>2 DEF childVars
<1>9. Token' /\ Lines'
      BY <1>6, <1>7, <1>8, CalmThen
<1>10. ~Flying
       BY <1>2, <1>3, <1>4 DEF Flying, Sent, Busy, Alone, Types, ParentTypes
<1>11. ~Noted /\ ~Noted' /\ Turn /\ InPlay' = InPlay /\ Result' = Result
       /\ \A c \in Player : Untold(c) <=> Untold(c)'
  <2>1. ~Noted /\ ~Noted' /\ Turn
        BY <1>2, <1>4, <1>5, <1>7, <1>10 DEF Noted, Turn
  <2>2. \A c \in Player : Untold(c) <=> Untold(c)'
        BY <1>4, <1>5, <1>7, <1>8, <1>10 DEF Untold
  <2> QED BY <1>2, <1>8, <2>1, <2>2 DEF InPlay, Result
<1>12. Exits'
       BY <1>2, <1>5, <1>7 DEF Exits
<1>13. Table'
       BY <1>2, <1>4, <1>5, <1>8, <1>11 DEF Table
<1>14. Count'
       BY <1>2, <1>5, <1>7, <1>11 DEF Count
<1>15. Notes'
       BY <1>2, <1>8, <1>11 DEF Notes, childVars
<1>16. Claims'
       BY <1>2, <1>8 DEF Claims
<1>17. Types'
  <2>1. pending' \in [Process -> SUBSET Signals]
        BY <1>2, <1>3 DEF Types, SignalTypes
  <2>2. /\ received_signal' \in {"none", "SIGUSR1", "SIGUSR2"}
        /\ pc' \in IF version = "student" THEN MainSteps ELSE {"throw", "paused"}
    <3>1. CASE ReceivedSignal(sig)
          BY <1>1, <3>1 DEF ReceivedSignal, Types, SignalTypes, MainSteps
    <3>2. CASE Call(parent, sig, "fork")
          BY <1>1, <3>2 DEF Call, parentVars, Types, SignalTypes, ParentTypes
    <3> QED BY <1>1, <3>1, <3>2
  <2> QED BY <1>2, <1>5, <2>1, <2>2
          DEF Types, SignalTypes, ParentTypes, ChildTypes, table, childVars
<1> QED BY <1>5, <1>9, <1>12, <1>13, <1>14, <1>15, <1>16, <1>17

(* What the steps of the parent that only think leave alone. *)
LEMMA TypesKept ==
    ASSUME Types, SignalTypes', ParentTypes', UNCHANGED childVars
    PROVE  Types'
BY DEF Types, ChildTypes, childVars

(* The student's parent goes on to the next throw, or to the end. *)
LEMMA PlayOnStep ==
    ASSUME Inv, PlayOn
    PROVE  Inv'
<1> USE DEF Inv, Game
<1>1. /\ Here("while") /\ post = "while" /\ version = "student"
      /\ UNCHANGED <<version, pending, handlers, exited, closing, dummycpid>>
      /\ UNCHANGED <<current_player, child_status, players_remaining>> /\ UNCHANGED childVars
      BY HereIs DEF PlayOn, table, ParentSteps
<1>2. PICK at \in {"throw", "end"} :
         /\ at = IF players_remaining > 1 THEN "throw" ELSE "end"
         /\ pc' = at
         /\ received_signal' = IF players_remaining > 1 THEN "none" ELSE received_signal
      BY DEF PlayOn
<1>3. /\ handlers' \in [Process -> Seq(Running)] /\ Stacks' /\ spot' = spot
      /\ pc' \in MainSteps /\ post' = at /\ answer' = received_signal'
  <2>1. Goto(at) /\ at \in MainSteps
        BY <1>1, <1>2 DEF Goto, MainSteps
  <2> QED BY <1>1, <1>2, <2>1, ParentGoto DEF childVars
<1>4. Calm /\ ~AwaitsAnswer /\ ~AwaitsLine
      BY <1>1, CalmNow
<1>5. Calm' /\ ~AwaitsAnswer' /\ ~AwaitsLine' /\ ~AwaitsEnd'
      BY <1>1, <1>3, <1>4, CalmKept DEF AwaitsAnswer, AwaitsLine, AwaitsEnd
<1>6. line' = line /\ ball' = ball /\ missed' = missed /\ winners' = winners
      BY <1>1 DEF childVars
<1>7. Token' /\ Lines'
      BY <1>4, <1>5, <1>6, CalmThen
<1>8. Noted /\ Noted' /\ InPlay' = InPlay /\ Result' = Result
      /\ \A c \in Player : ~Untold(c) /\ ~Untold(c)'
      BY <1>1, <1>3, <1>4, <1>5, <1>6 DEF Noted, InPlay, Result, Untold
<1>9. Exits'
      BY <1>1, <1>3 DEF Exits
<1>10. Table'
  <2>1. Turn' => Turn
        BY <1>1, <1>2, <1>3, <1>5, <1>8 DEF Turn, Types, ParentTypes
  <2>2. at = "throw" => answer' = "none"
        BY <1>2, <1>3
  <2> QED BY <1>1, <1>3, <1>6, <1>8, <2>1, <2>2 DEF Table
<1>11. Count'
  <2>1. players_remaining \in Nat /\ players_remaining > 0
        BY <1>1 DEF Types, ParentTypes, Count
  <2>2. at = "end" => players_remaining = 1
        BY <1>2, <2>1
  <2>3. at = "throw" => players_remaining > 1
        BY <1>2
  <2> QED BY <1>1, <1>3, <1>8, <2>1, <2>2, <2>3 DEF Count
<1>12. Notes'
       BY <1>1, <1>6, <1>8 DEF Notes, childVars
<1>13. Claims'
       BY <1>1, <1>6 DEF Claims
<1>14. Types'
       BY <1>1, <1>2, <1>3, TypesKept DEF Types, SignalTypes, ParentTypes
<1> QED BY <1>3, <1>7, <1>9, <1>10, <1>11, <1>12, <1>13, <1>14

(* The ball goes to one who is in play. *)
LEMMA ThrowStep ==
    ASSUME Inv, Throw
    PROVE  Inv'
<1> USE DEF Inv, Game
<1>1. /\ pending' = Kill(pending, current_player, "SIGUSR2")
      /\ UNCHANGED <<version, exited, closing, dummycpid, received_signal>>
      /\ UNCHANGED <<current_player, child_status, players_remaining>> /\ UNCHANGED childVars
      BY DEF Throw, table
<1>2. version \in {"student", "instructor"}
      BY DEF Types, SignalTypes
<1>3. /\ handlers' \in [Process -> Seq(Running)] /\ Stacks' /\ spot' = spot
      /\ pc' \in IF version = "student" THEN MainSteps ELSE {"throw", "paused"}
      /\ post = "throw" /\ post' \in {"test", "paused"} /\ answer' = "none"
  <2>1. CASE Here("throw") /\ Goto(IF version = "student" THEN "test" ELSE "return")
    <3>1. PICK at \in {"test", "return"} :
             at = (IF version = "student" THEN "test" ELSE "return") /\ Goto(at)
          BY <2>1
    <3>2. at \in IF version = "student" THEN MainSteps ELSE ParentSteps
          BY <3>1 DEF MainSteps, ParentSteps
    <3>3. /\ handlers' \in [Process -> Seq(Running)] /\ Stacks' /\ spot' = spot
          /\ pc' \in IF version = "student" THEN MainSteps ELSE {"throw", "paused"}
          /\ post = "throw"
          /\ version = "student" => post' = at /\ answer' = received_signal'
          /\ version = "instructor" =>
                /\ post' = IF at = "return" THEN "paused" ELSE at
                /\ at \in {"return", "throw"} => answer' = "none"
          BY <1>1, <2>1, <3>1, <3>2, ParentGoto DEF childVars
    <3>4. version = "student" => received_signal = "none"
          BY <3>3 DEF Table, answer
    <3> QED BY <1>1, <1>2, <3>1, <3>3, <3>4
  <2>2. CASE version = "instructor" /\ pc = "throw" /\ pc' = "paused" /\ UNCHANGED handlers
    <3>1. Stacks' /\ spot' = spot /\ post = "throw" /\ post' = "paused" /\ answer' = "none"
          BY <1>1, <2>2, FirstThrow DEF childVars
    <3> QED BY <2>2, <3>1 DEF Types, SignalTypes
  <2> QED BY <2>1, <2>2 DEF Throw
<1>4. Calm /\ ~AwaitsAnswer /\ ~AwaitsLine
      BY <1>3, CalmNow
<1>5. current_player \in InPlay /\ current_player \in Player /\ current_player \in Process
      /\ current_player \notin exited
      BY <1>3, Processes DEF Table, Turn, Exits, Types, ParentTypes
<1>6. pending' \in [Process -> SUBSET Signals] /\ Sent(current_player, "SIGUSR2")'
  <2>1. \A c \in Player : spot'[c] = "idle"
        BY <1>3, <1>4 DEF Calm
  <2>2. PICK p \in Process : p = current_player
        BY <1>5
  <2>3. pending' \in [Process -> SUBSET Signals] /\ Sent(p, "SIGUSR2")'
        BY <1>1, <1>4, <1>5, <2>1, <2>2, KillSends DEF Calm, Signals
  <2> QED BY <1>1, <2>2, <2>3 DEF Sent, Alone
<1>7. AwaitsAnswer' /\ ~AwaitsLine' /\ ~AwaitsEnd' /\ Flying'
      BY <1>3, <1>6 DEF AwaitsAnswer, AwaitsLine, AwaitsEnd, Flying
<1>8. line' = line /\ ball' = ball /\ missed' = missed /\ winners' = winners
      BY <1>1 DEF childVars
<1>9. Token' /\ Lines'
  <2>1. Token'
        BY <1>7 DEF Token
  <2>2. ~Sent(dummy, "SIGINT")'
        BY <1>5, <1>6, Processes DEF Sent, Alone
  <2> QED BY <1>4, <1>7, <1>8, <2>1, <2>2 DEF Lines
<1>10. Noted /\ Noted' /\ Turn /\ InPlay' = InPlay /\ Result' = Result
       /\ \A c \in Player : ~Untold(c) /\ ~Untold(c)'
       BY <1>1, <1>3, <1>4, <1>7, <1>8 DEF Noted, Turn, InPlay, Result, Untold
<1>11. Exits'
       BY <1>1, <1>3 DEF Exits
<1>12. Table'
       BY <1>1, <1>3, <1>8, <1>10 DEF Table
<1>13. Count'
       BY <1>1, <1>3, <1>10 DEF Count
<1>14. Notes'
       BY <1>1, <1>8, <1>10 DEF Notes, childVars
<1>15. Claims'
       BY <1>1, <1>8 DEF Claims
<1>16. Types'
       BY <1>1, <1>3, <1>6, TypesKept DEF Types, SignalTypes, ParentTypes
<1> QED BY <1>3, <1>9, <1>11, <1>12, <1>13, <1>14, <1>15, <1>16

(* The student's parent looks whether the answer has come. *)
LEMMA TestStep ==
    ASSUME Inv, TestSignal \/ Pause
    PROVE  Inv'
<1> USE DEF Inv, Game
<1>1. PICK from \in {"test", "pause"}, at \in {"pause", "note", "paused"} :
         /\ Here(from) /\ Goto(at)
         /\ from = "test" => at = IF received_signal = "none" THEN "pause" ELSE "note"
         /\ from = "pause" => at = "paused"
      BY DEF TestSignal, Pause
<1>2. /\ UNCHANGED <<version, pending, exited, closing, dummycpid, received_signal>>
      /\ UNCHANGED <<current_player, child_status, players_remaining>> /\ UNCHANGED childVars
      BY DEF TestSignal, Pause, table
<1>3. version = "student"
      BY <1>1, HereIs DEF ParentSteps
<1>4. /\ handlers' \in [Process -> Seq(Running)] /\ Stacks' /\ spot' = spot
      /\ pc' \in MainSteps /\ post = from /\ post' = at /\ answer' = received_signal'
  <2>1. at \in MainSteps
        BY DEF MainSteps
  <2> QED BY <1>1, <1>2, <1>3, <2>1, ParentGoto DEF childVars
<1>5. answer = received_signal /\ answer' = answer
      BY <1>2, <1>3, <1>4 DEF answer
<1>6. line' = line /\ ball' = ball /\ missed' = missed /\ winners' = winners
      BY <1>2 DEF childVars
<1>7. /\ \A p, sig : Sent(p, sig)' <=> Sent(p, sig)
      /\ (Calm' <=> Calm) /\ (Flying' <=> Flying) /\ (Telling' <=> Telling)
      /\ Result' = Result
      BY <1>2, <1>4, <1>6, TokenKept
<1>8. (AwaitsAnswer' <=> AwaitsAnswer) /\ ~AwaitsLine /\ ~AwaitsLine' /\ ~AwaitsEnd
      /\ ~AwaitsEnd' /\ (AwaitsAnswer => at # "note")
      BY <1>1, <1>4, <1>5 DEF AwaitsAnswer, AwaitsLine, AwaitsEnd
<1>9. Token' /\ Lines'
      BY <1>6, <1>7, <1>8 DEF Token, Lines
<1>10. (Noted' <=> Noted) /\ InPlay' = InPlay /\ Turn
       /\ \A c \in Player : Untold(c) <=> Untold(c)'
  <2>1. Noted' <=> Noted
        BY <1>2, <1>4, <1>7, <1>8 DEF Noted
  <2>2. Turn
        BY <1>4, <1>8 DEF Turn, Noted
  <2>3. \A c \in Player : Untold(c) <=> Untold(c)'
    <3>1. ~AwaitsAnswer => answer # "none"
          BY <1>4 DEF AwaitsAnswer
    <3> QED BY <1>2, <1>3, <1>4, <1>6, <1>7, <1>8 DEF Untold
  <2> QED BY <1>2, <2>1, <2>2, <2>3 DEF InPlay
<1>11. Exits'
       BY <1>2, <1>4 DEF Exits
<1>12. Table'
  <2>1. at = "note" => answer # "none"
        BY <1>1, <1>5
  <2> QED BY <1>2, <1>4, <1>5, <1>6, <1>7, <1>10, <2>1 DEF Table
<1>13. Count'
       BY <1>2, <1>4, <1>10 DEF Count
<1>14. Notes'
       BY <1>2, <1>6, <1>10 DEF Notes, childVars
<1>15. Claims'
       BY <1>2, <1>6 DEF Claims
<1>16. Types'
       BY <1>2, <1>3, <1>4, TypesKept DEF Types, SignalTypes, ParentTypes
<1> QED BY <1>4, <1>9, <1>11, <1>12, <1>13, <1>14, <1>15, <1>16

(* The players are finitely many, n of them. *)
LEMMA Players ==
    /\ IsFiniteSet(Player) /\ Cardinality(Player) = n
    /\ \A S \in SUBSET Player : IsFiniteSet(S)
<1>1. n \in Int /\ 1 \in Int /\ n >= 1
      BY GameAssumption
<1>2. IsFiniteSet(1..n) /\ Cardinality(1..n) = IF 1 > n THEN 0 ELSE n - 1 + 1
      BY <1>1, FS_Interval
<1>3. \A S \in SUBSET (1..n) : IsFiniteSet(S)
      BY <1>2, FS_Subset
<1> QED BY <1>1, <1>2, <1>3 DEF Player

(* The player who has missed is out. *)
LEMMA NoteStep ==
    ASSUME Inv, NoteAnswer
    PROVE  Inv'
<1> USE DEF Inv, Game
<1> DEFINE miss == answer = "SIGUSR2"
<1>1. /\ Here("note") /\ post = "note" /\ version \in {"student", "instructor"}
      /\ answer = IF version = "student" THEN received_signal ELSE Inner(parent).sig
      /\ UNCHANGED <<version, pending, exited, closing, dummycpid, received_signal>>
      /\ current_player' = current_player /\ UNCHANGED childVars
  <2>1. Here("note")
        BY DEF NoteAnswer
  <2>2. post = "note" /\ version \in {"student", "instructor"}
        /\ answer = IF version = "student" THEN received_signal ELSE Inner(parent).sig
        BY <2>1, HereIs DEF answer
  <2> QED BY <2>1, <2>2 DEF NoteAnswer
<1>2. /\ child_status' = IF miss THEN [child_status EXCEPT ![current_player] = "OUTOFGAME"]
                         ELSE child_status
      /\ players_remaining' = IF miss THEN players_remaining - 1 ELSE players_remaining
      /\ Goto(IF version = "student" THEN "fork"
              ELSE IF miss /\ players_remaining' = 1 THEN "end" ELSE "next")
      BY <1>1 DEF NoteAnswer
<1>3. PICK at \in {"fork", "end", "next"} :
         /\ at = (IF version = "student" THEN "fork"
                  ELSE IF miss /\ players_remaining' = 1 THEN "end" ELSE "next")
         /\ Goto(at)
  <2> HIDE DEF miss
  <2> QED BY <1>2
<1>4. /\ handlers' \in [Process -> Seq(Running)] /\ Stacks' /\ spot' = spot
      /\ pc' \in IF version = "student" THEN MainSteps ELSE {"throw", "paused"}
      /\ post' = at /\ answer' = answer
  <2>1. at \in IF version = "student" THEN MainSteps ELSE ParentSteps
        BY <1>1, <1>3 DEF MainSteps, ParentSteps
  <2>2. at # "return"
        OBVIOUS
  <2> HIDE DEF miss
  <2> QED BY <1>1, <1>3, <2>1, <2>2, ParentGoto DEF childVars
<1>5. Calm /\ ~AwaitsAnswer /\ ~AwaitsLine
      BY <1>1, CalmNow
<1>6. Calm' /\ ~AwaitsAnswer' /\ ~AwaitsLine' /\ ~AwaitsEnd'
      BY <1>1, <1>4, <1>5, CalmKept DEF AwaitsAnswer, AwaitsLine, AwaitsEnd
<1>7. line' = line /\ ball' = ball /\ missed' = missed /\ winners' = winners
      BY <1>1 DEF childVars
<1>8. Token' /\ Lines'
      BY <1>5, <1>6, <1>7, CalmThen
<1>9. /\ ~Noted /\ Turn /\ Noted' /\ ~Turn' /\ Result' = Result
      /\ \A c \in Player : Untold(c) <=> Untold(c)'
  <2>1. ~Noted /\ Turn
        BY <1>1, <1>5 DEF Noted, Turn
  <2>2. Noted'
        BY <1>1, <1>3, <1>4 DEF Noted
  <2>3. ~Turn'
        BY <1>3, <1>4, <1>6, <2>2 DEF Turn
  <2>4. \A c \in Player : Untold(c) <=> Untold(c)'
        BY <1>1, <1>3, <1>4, <1>5, <1>6, <1>7 DEF Untold
  <2> QED BY <1>7, <2>1, <2>2, <2>3, <2>4 DEF Result
<1>10. /\ current_player \in InPlay /\ ball.to = current_player /\ answer = Result
       /\ current_player \in Player /\ (miss <=> current_player \in missed)
  <2>1. current_player \in InPlay /\ ball.to = current_player /\ answer = Result
        BY <1>1, <1>9 DEF Table
  <2> QED BY <2>1 DEF Table, Result, InPlay
<1>11. Exits'
       BY <1>1, <1>3, <1>4 DEF Exits
<1>12. Table'
  <2>1. \A c \in Player : child_status'[c] = "OUTOFGAME" <=> c \in missed
        BY <1>2, <1>9, <1>10 DEF Table, Types, ParentTypes
  <2> QED BY <1>1, <1>4, <1>7, <1>9, <1>10, <2>1 DEF Table
<1>13. Count' /\ players_remaining' \in Nat
  <2>1. InPlay' = IF miss THEN InPlay \ {current_player} ELSE InPlay
        BY <1>2, <1>10 DEF InPlay, Types, ParentTypes
  <2>2. IsFiniteSet(InPlay)
    <3>1. InPlay \in SUBSET Player
          BY DEF InPlay
    <3> QED BY <3>1, Players
  <2>3. PICK k \in Nat : k = players_remaining /\ k = Cardinality(InPlay)
        BY DEF Count, Types, ParentTypes
  <2>4. Cardinality(InPlay \ {current_player}) = k - 1 /\ k - 1 \in Nat
    <3>1. Cardinality(InPlay \ {current_player}) = k - 1
          BY <1>10, <2>2, <2>3, FS_RemoveElement
    <3>2. Cardinality(InPlay \ {current_player}) \in Nat
          BY <2>2, FS_RemoveElement, FS_CardinalityType
    <3> QED BY <3>1, <3>2
  <2>5. players_remaining' = Cardinality(InPlay') /\ players_remaining' \in Nat
        BY <1>2, <2>1, <2>3, <2>4
  <2>6. version = "student" => players_remaining' > 0
    <3>1. version = "student" => k > 1
          BY <1>1, <2>3 DEF Count
    <3>2. players_remaining' = IF miss THEN k - 1 ELSE k
          BY <1>2, <2>3
    <3> HIDE DEF miss
    <3> QED BY <3>1, <3>2
  <2>7. at = "end" => players_remaining' = 1
    <3> HIDE DEF miss
    <3> QED BY <1>3
  <2>8. version = "student" => at = "fork"
    <3> HIDE DEF miss
    <3> QED BY <1>3
  <2> QED BY <1>1, <1>4, <2>5, <2>6, <2>7, <2>8 DEF Count
<1>14. Notes'
       BY <1>1, <1>7, <1>9 DEF Notes, childVars
<1>15. Claims'
       BY <1>1, <1>7 DEF Claims
<1>16. Types'
  <2>1. child_status' \in [Player -> {"PLAYING", "OUTOFGAME"}]
        BY <1>2 DEF Types, ParentTypes
  <2> QED BY <1>1, <1>4, <1>13, <2>1, TypesKept DEF Types, SignalTypes, ParentTypes
<1> QED BY <1>4, <1>8, <1>11, <1>12, <1>13, <1>14, <1>15, <1>16

(* A dummy is made for the line, and the file is to name it. *)
LEMMA DummyMade ==
    ASSUME Inv, ForkDummy \/ WriteDummycpid
    PROVE  Inv'
<1> USE DEF Inv, Game
<1>1. PICK from \in {"fork", "file"}, at \in {"file", "show"} :
         /\ Here(from) /\ Goto(at)
         /\ from = "fork" => at = "file" /\ exited' = exited \ {dummy} /\ dummycpid' = FALSE
         /\ from = "file" => at = "show" /\ exited' = exited /\ dummycpid' = TRUE
      BY DEF ForkDummy, WriteDummycpid
<1>2. /\ UNCHANGED <<version, pending, closing, received_signal>>
      /\ UNCHANGED <<current_player, child_status, players_remaining>> /\ UNCHANGED childVars
      BY DEF ForkDummy, WriteDummycpid, table
<1>3. version \in {"student", "instructor"} /\ parent \notin exited /\ post = from
      BY <1>1, HereIs
<1>4. \A c \in Player : c \in exited' <=> c \in exited
      BY <1>1, Processes
<1>5. /\ handlers' \in [Process -> Seq(Running)] /\ Stacks' /\ spot' = spot
      /\ pc' \in IF version = "student" THEN MainSteps ELSE {"throw", "paused"}
      /\ post' = at /\ answer' = answer
  <2>1. at \in IF version = "student" THEN MainSteps ELSE ParentSteps
        BY <1>1 DEF MainSteps, ParentSteps
  <2>2. answer = IF version = "student" THEN received_signal ELSE Inner(parent).sig
        BY <1>1, <1>3, HereIs DEF answer
  <2>3. at # "return" /\ from # "return" /\ from # "throw" /\ at # "throw"
        OBVIOUS
  <2> QED BY <1>1, <1>2, <1>3, <1>4, <2>1, <2>2, <2>3, ParentGoto DEF childVars
<1>6. Calm /\ ~AwaitsAnswer /\ ~AwaitsLine
      BY <1>3, CalmNow
<1>7. Calm' /\ ~AwaitsAnswer' /\ ~AwaitsLine' /\ ~AwaitsEnd'
      BY <1>2, <1>5, <1>6, CalmKept DEF AwaitsAnswer, AwaitsLine, AwaitsEnd
<1>8. line' = line /\ ball' = ball /\ missed' = missed /\ winners' = winners
      BY <1>2 DEF childVars
<1>9. Token' /\ Lines'
      BY <1>6, <1>7, <1>8, CalmThen
<1>10. (Noted' <=> Noted) /\ (Turn' => Turn) /\ InPlay' = InPlay /\ Result' = Result
       /\ \A c \in Player : Untold(c) <=> Untold(c)'
  <2>1. Noted' <=> Noted
        BY <1>2, <1>3, <1>5, <1>6, <1>7 DEF Noted
  <2>2. Turn' => Turn
        BY <1>5, <1>7, <2>1 DEF Turn
  <2>3. \A c \in Player : Untold(c) <=> Untold(c)'
        BY <1>2, <1>3, <1>5, <1>6, <1>7, <1>8 DEF Untold
  <2> QED BY <1>2, <1>8, <2>1, <2>2, <2>3 DEF InPlay, Result
<1>11. Exits'
       BY <1>1, <1>2, <1>3, <1>4, <1>5, Processes DEF Exits
<1>12. Table'
       BY <1>2, <1>3, <1>5, <1>8, <1>10 DEF Table
<1>13. Count'
       BY <1>2, <1>3, <1>5, <1>10 DEF Count
<1>14. Notes'
       BY <1>2, <1>8, <1>10 DEF Notes, childVars
<1>15. Claims'
       BY <1>2, <1>4, <1>8 DEF Claims
<1>16. Types'
       BY <1>1, <1>2, <1>5, TypesKept DEF Types, SignalTypes, ParentTypes
<1> QED BY <1>5, <1>9, <1>11, <1>12, <1>13, <1>14, <1>15, <1>16

(* The first child is to print. *)
LEMMA ShowStep ==
    ASSUME Inv, ShowLine
    PROVE  Inv'
<1> USE DEF Inv, Game
<1>1. /\ Here("show") /\ Goto("wait") /\ post = "show" /\ version \in {"student", "instructor"}
      /\ answer = IF version = "student" THEN received_signal ELSE Inner(parent).sig
      /\ pending' = Kill(pending, 1, "SIGUSR1")
      /\ UNCHANGED <<version, exited, closing, dummycpid, received_signal>>
      /\ UNCHANGED <<current_player, child_status, players_remaining>> /\ UNCHANGED childVars
      BY HereIs DEF ShowLine, table, answer
<1>2. /\ handlers' \in [Process -> Seq(Running)] /\ Stacks' /\ spot' = spot
      /\ pc' \in IF version = "student" THEN MainSteps ELSE {"throw", "paused"}
      /\ post' = "wait" /\ answer' = answer
  <2>1. "wait" \in IF version = "student" THEN MainSteps ELSE ParentSteps
        BY DEF MainSteps, ParentSteps
  <2> QED BY <1>1, <2>1, ParentGoto DEF childVars
<1>3. Calm /\ ~AwaitsAnswer /\ ~AwaitsLine
      BY <1>1, CalmNow
<1>4. 1 \in Player /\ 1 \in Process /\ 1 # dummy
      BY Processes DEF Player
<1>5. 1 \notin exited /\ dummy \notin exited
      BY <1>1, <1>4 DEF Exits
<1>6. pending' \in [Process -> SUBSET Signals] /\ Sent(1, "SIGUSR1")'
  <2>1. \A c \in Player : spot'[c] = "idle"
        BY <1>2, <1>3 DEF Calm
  <2> QED BY <1>1, <1>3, <1>4, <1>5, <2>1, KillSends DEF Calm, Signals
<1>7. ~AwaitsAnswer' /\ AwaitsLine' /\ ~AwaitsEnd'
      BY <1>1, <1>2, <1>5 DEF AwaitsAnswer, AwaitsLine, AwaitsEnd
<1>8. line' = line /\ ball' = ball /\ missed' = missed /\ winners' = winners
      BY <1>1 DEF childVars
<1>9. Token'
      BY <1>4, <1>6, <1>7 DEF Token
<1>10. Lines'
  <2>1. \A d \in Player, A \in SUBSET {"print", "pass"} : ~Busy(d, A)'
        BY <1>2, <1>3 DEF Busy, Calm
  <2>2. \A d \in Process : \A s : Sent(d, s)' => d = 1 /\ s = "SIGUSR1"
        BY <1>4, <1>6 DEF Sent, Alone
  <2>3. Len(line) \in {0, n}
        BY <1>3 DEF Lines
  <2>4. Len(line) = 0 => Printed(0)'
        BY <1>8 DEF Printed
  <2> QED BY <1>4, <1>7, <1>8, <2>1, <2>2, <2>3, <2>4, Processes DEF Lines
<1>11. (Noted' <=> Noted) /\ (Turn' => Turn) /\ InPlay' = InPlay /\ Result' = Result
       /\ \A c \in Player : Untold(c) <=> Untold(c)'
  <2>1. Noted' <=> Noted
        BY <1>1, <1>2, <1>3, <1>7 DEF Noted
  <2>2. Turn' => Turn
        BY <1>2, <1>7, <2>1 DEF Turn
  <2>3. \A c \in Player : ToPrint(c)'
    <3>1. \A c \in Player : ToPrint(c)' <=> 1 <= c
          BY <1>4, <1>6, PrintNext DEF PrintFacts
    <3> QED BY <3>1, Processes
  <2>4. \A c \in Player : Untold(c) <=> Untold(c)'
        BY <1>1, <1>2, <1>3, <1>7, <1>8, <2>3 DEF Untold
  <2> QED BY <1>1, <1>8, <2>1, <2>2, <2>4 DEF InPlay, Result
<1>12. Exits'
       BY <1>1, <1>2 DEF Exits
<1>13. Table'
       BY <1>1, <1>2, <1>8, <1>11 DEF Table
<1>14. Count'
       BY <1>1, <1>2, <1>11 DEF Count
<1>15. Notes'
       BY <1>1, <1>8, <1>11 DEF Notes, childVars
<1>16. Claims'
       BY <1>1, <1>8 DEF Claims
<1>17. Types'
       BY <1>1, <1>2, <1>6, TypesKept DEF Types, SignalTypes, ParentTypes
<1> QED BY <1>2, <1>9, <1>10, <1>12, <1>13, <1>14, <1>15, <1>16, <1>17

(* The line has been printed. *)
LEMMA WaitStep ==
    ASSUME Inv, WaitDummy
    PROVE  Inv'
<1> USE DEF Inv, Game
<1>1. /\ Here("wait") /\ post = "wait" /\ version \in {"student", "instructor"}
      /\ answer = IF version = "student" THEN received_signal ELSE Inner(parent).sig
      /\ dummy \in exited
      /\ UNCHANGED <<version, pending, exited, closing, dummycpid, received_signal>>
      /\ UNCHANGED <<current_player, child_status, players_remaining>> /\ UNCHANGED childVars
      BY HereIs DEF WaitDummy, table, answer
<1>2. PICK at \in {"next", "note"} :
         at = (IF version = "student" THEN "next" ELSE "note") /\ Goto(at)
      BY DEF WaitDummy
<1>3. /\ handlers' \in [Process -> Seq(Running)] /\ Stacks' /\ spot' = spot
      /\ pc' \in IF version = "student" THEN MainSteps ELSE {"throw", "paused"}
      /\ post' = at /\ answer' = answer
  <2>1. at \in IF version = "student" THEN MainSteps ELSE ParentSteps
        BY DEF MainSteps, ParentSteps
  <2>2. at # "return"
        OBVIOUS
  <2> QED BY <1>1, <1>2, <2>1, <2>2, ParentGoto DEF childVars
<1>4. Calm /\ ~AwaitsAnswer /\ ~AwaitsLine
      BY <1>1 DEF Token, AwaitsAnswer, AwaitsLine, AwaitsEnd
<1>5. Calm' /\ ~AwaitsAnswer' /\ ~AwaitsLine' /\ ~AwaitsEnd'
      BY <1>1, <1>3, <1>4, CalmKept DEF AwaitsAnswer, AwaitsLine, AwaitsEnd
<1>6. line' = line /\ ball' = ball /\ missed' = missed /\ winners' = winners
      BY <1>1 DEF childVars
<1>7. Token' /\ Lines'
      BY <1>4, <1>5, <1>6, CalmThen
<1>8. (Noted' <=> Noted) /\ (Turn' => Turn) /\ InPlay' = InPlay /\ Result' = Result
      /\ \A c \in Player : ~Untold(c) /\ ~Untold(c)'
  <2>1. Noted' <=> Noted
        BY <1>1, <1>2, <1>3, <1>4, <1>5 DEF Noted
  <2>2. Turn' => Turn
        BY <1>3, <1>5, <2>1 DEF Turn
  <2>3. \A c \in Player : ~Untold(c) /\ ~Untold(c)'
        BY <1>1, <1>2, <1>3, <1>4, <1>5 DEF Untold
  <2> QED BY <1>1, <1>6, <2>1, <2>2, <2>3 DEF InPlay, Result
<1>9. Exits'
      BY <1>1, <1>3 DEF Exits
<1>10. Table'
  <2>1. answer = Result /\ answer # "none"
        BY <1>1 DEF Table, Result
  <2> QED BY <1>1, <1>3, <1>6, <1>8, <2>1 DEF Table
<1>11. Count'
       BY <1>1, <1>2, <1>3, <1>8 DEF Count
<1>12. Notes'
       BY <1>1, <1>6, <1>8 DEF Notes, childVars
<1>13. Claims'
       BY <1>1, <1>6 DEF Claims
<1>14. Types'
       BY <1>1, <1>3, TypesKept DEF Types, SignalTypes, ParentTypes
<1> QED BY <1>3, <1>7, <1>9, <1>10, <1>11, <1>12, <1>13, <1>14

(* A set of numbers that is not empty has a least element. *)
LEMMA LeastNumber ==
    ASSUME NEW I, I \subseteq Nat, I # {}
    PROVE  \E m \in I : \A k \in I : m <= k
<1> DEFINE R == {p \in Nat \X Nat : p[1] < p[2]}
<1>1. IsWellFoundedOn(R, Nat)
      BY NatLessThanWellFounded DEF OpToRel
<1>2. PICK m \in I : \A k \in I : ~ (<<k, m>> \in R)
  <2> HIDE DEF R
  <2> QED BY <1>1, WFMin
<1>3. ASSUME NEW k \in I PROVE m <= k
  <2>1. <<k, m>> \in R <=> k < m
        OBVIOUS
  <2> QED BY <1>2, <2>1
<1> QED BY <1>3

(* Everybody comes after a player, sooner or later, ... *)
LEMMA AfterAll ==
    ASSUME NEW c \in Player, NEW d \in Player
    PROVE  \E k \in 1..n : After(c, k) = d
<1>0. n \in Nat /\ n >= 1 /\ c \in 1..n /\ d \in 1..n
      BY Processes DEF Player
<1>1. CASE d > c
  <2>1. d - c \in 1..n /\ c + (d - c) - 1 = d - 1
        BY <1>0, <1>1
  <2>2. (d - 1) % n = d - 1
        BY <1>0
  <2>3. After(c, d - c) = d
        BY <1>0, <2>1, <2>2 DEF After
  <2> QED BY <2>1, <2>3
<1>2. CASE d <= c
  <2>1. d - c + n \in 1..n /\ c + (d - c + n) - 1 = (d - 1) + n
        BY <1>0, <1>2
  <2>2. ((d - 1) + n) % n = d - 1
        BY <1>0
  <2>3. After(c, d - c + n) = d
        BY <1>0, <2>1, <2>2 DEF After
  <2> QED BY <2>1, <2>3
<1> QED BY <1>0, <1>1, <1>2

(* ... and the one who is found is a player in play if there is one. *)
LEMMA FindsPlayer ==
    ASSUME child_status \in [Player -> {"PLAYING", "OUTOFGAME"}], NEW c \in Player
    PROVE  /\ find_next_player(c) \in Player
           /\ InPlay # {} => find_next_player(c) \in InPlay
<1> DEFINE playing == {k \in 1..n : child_status[After(c, k)] = "PLAYING"}
<1>0. n \in Nat /\ n >= 1 /\ c \in 1..n
      BY Processes DEF Player
<1>1. \A k \in 1..n : After(c, k) \in Player
  <2> SUFFICES ASSUME NEW k \in 1..n PROVE After(c, k) \in Player
      OBVIOUS
  <2>1. (c + k - 1) % n \in 0..(n - 1)
        BY <1>0
  <2> QED BY <1>0, <2>1 DEF After, Player
<1>2. CASE playing = {}
  <2>1. InPlay = {}
    <3>1. ASSUME NEW d \in InPlay PROVE FALSE
      <4>1. PICK k \in 1..n : After(c, k) = d
            BY <3>1, AfterAll DEF InPlay
      <4>2. k \in playing
            BY <3>1, <4>1 DEF InPlay
      <4> QED BY <1>2, <4>2
    <3> QED BY <3>1
  <2>2. find_next_player(c) = c
        BY <1>2 DEF find_next_player
  <2> QED BY <2>1, <2>2
<1>3. CASE playing # {}
  <2>1. playing \subseteq Nat
        BY <1>0
  <2>2. \E m \in playing : \A k \in playing : m <= k
    <3> HIDE DEF playing
    <3> QED BY <1>3, <2>1, LeastNumber
  <2>3. PICK m \in playing : m = CHOOSE k \in playing : \A l \in playing : k <= l
    <3> HIDE DEF playing
    <3> QED BY <2>2
  <2>4. find_next_player(c) = After(c, m)
        BY <1>3, <2>3 DEF find_next_player
  <2>5. After(c, m) \in Player /\ child_status[After(c, m)] = "PLAYING"
        BY <1>1, <2>3
  <2> QED BY <2>4, <2>5 DEF InPlay
<1> QED BY <1>2, <1>3

(* The turn goes to the next player in play. *)
LEMMA NextPlayerStep ==
    ASSUME Inv, NextPlayer
    PROVE  Inv'
<1> USE DEF Inv, Game
<1>1. /\ Here("next") /\ post = "next" /\ version \in {"student", "instructor"}
      /\ UNCHANGED <<version, pending, exited, closing, dummycpid, received_signal>>
      /\ UNCHANGED <<child_status, players_remaining>> /\ UNCHANGED childVars
      BY HereIs DEF NextPlayer
<1>2. PICK at \in {"while", "throw"} :
         at = (IF version = "student" THEN "while" ELSE "throw") /\ Goto(at)
      BY DEF NextPlayer
<1>3. /\ handlers' \in [Process -> Seq(Running)] /\ Stacks' /\ spot' = spot
      /\ pc' \in IF version = "student" THEN MainSteps ELSE {"throw", "paused"}
      /\ post' = at /\ (at = "throw" => answer' = "none")
  <2>1. at \in IF version = "student" THEN MainSteps ELSE ParentSteps
        BY <1>2 DEF MainSteps, ParentSteps
  <2>2. at # "return"
        OBVIOUS
  <2> QED BY <1>1, <1>2, <2>1, <2>2, ParentGoto DEF childVars
<1>4. Calm /\ ~AwaitsAnswer /\ ~AwaitsLine
      BY <1>1, CalmNow
<1>5. Calm' /\ ~AwaitsAnswer' /\ ~AwaitsLine' /\ ~AwaitsEnd'
      BY <1>1, <1>3, <1>4, CalmKept DEF AwaitsAnswer, AwaitsLine, AwaitsEnd
<1>6. line' = line /\ ball' = ball /\ missed' = missed /\ winners' = winners
      BY <1>1 DEF childVars
<1>7. Token' /\ Lines'
      BY <1>4, <1>5, <1>6, CalmThen
<1>8. Noted /\ Noted' /\ InPlay' = InPlay /\ Result' = Result
      /\ \A c \in Player : ~Untold(c) /\ ~Untold(c)'
  <2>1. Noted /\ Noted'
        BY <1>1, <1>2, <1>3 DEF Noted
  <2>2. \A c \in Player : ~Untold(c) /\ ~Untold(c)'
        BY <1>1, <1>2, <1>3, <1>4, <1>5 DEF Untold
  <2> QED BY <1>1, <1>6, <2>1, <2>2 DEF InPlay, Result
<1>9. current_player' \in Player /\ (Turn' => current_player' \in InPlay)
  <2>1. current_player \in Player /\ child_status \in [Player -> {"PLAYING", "OUTOFGAME"}]
        BY DEF Types, ParentTypes
  <2>2. find_next_player(current_player) \in Player
        /\ (InPlay # {} => find_next_player(current_player) \in InPlay)
        BY <2>1, FindsPlayer
  <2>3. players_remaining > 1 => InPlay # {}
    <3>1. InPlay = {} => Cardinality(InPlay) = 0
          BY FS_EmptySet
    <3> QED BY <3>1 DEF Count
  <2>4. CASE version = "student"
    <3>1. Turn' => players_remaining > 1
          BY <1>1, <1>2, <1>3, <1>5, <1>8, <2>4 DEF Turn
    <3> QED BY <2>1, <2>2, <2>3, <2>4, <3>1 DEF NextPlayer
  <2>5. CASE version = "instructor"
    <3>1. InPlay # {}
          BY <2>5 DEF NextPlayer, InPlay
    <3> QED BY <2>2, <2>5, <3>1 DEF NextPlayer
  <2> QED BY <1>1, <2>4, <2>5
<1>10. Exits'
       BY <1>1, <1>3 DEF Exits
<1>11. Table'
       BY <1>1, <1>3, <1>6, <1>8, <1>9 DEF Table
<1>12. Count'
       BY <1>1, <1>2, <1>3, <1>8 DEF Count
<1>13. Notes'
       BY <1>1, <1>6, <1>8 DEF Notes, childVars
<1>14. Claims'
       BY <1>1, <1>6 DEF Claims
<1>15. Types'
       BY <1>1, <1>3, <1>9, TypesKept DEF Types, SignalTypes, ParentTypes
<1> QED BY <1>3, <1>7, <1>10, <1>11, <1>12, <1>13, <1>14, <1>15

(* The children are told one by one that the game is over. *)
LEMMA EndStep ==
    ASSUME Inv, EndGame
    PROVE  Inv'
<1> USE DEF Inv, Game
<1>1. /\ Here("end") /\ Goto("reap") /\ post = "end" /\ version \in {"student", "instructor"}
      /\ parent \notin exited /\ pending' = Kill(pending, closing, "SIGINT")
      /\ UNCHANGED <<version, exited, closing, dummycpid, received_signal>>
      /\ UNCHANGED <<current_player, child_status, players_remaining>> /\ UNCHANGED childVars
      BY HereIs DEF EndGame, table
<1>2. /\ handlers' \in [Process -> Seq(Running)] /\ Stacks' /\ spot' = spot
      /\ pc' \in IF version = "student" THEN MainSteps ELSE {"throw", "paused"}
      /\ post' = "reap"
  <2>1. "reap" \in IF version = "student" THEN MainSteps ELSE ParentSteps
        BY DEF MainSteps, ParentSteps
  <2> QED BY <1>1, <2>1, ParentGoto DEF childVars
<1>3. Calm /\ ~AwaitsAnswer /\ ~AwaitsLine
      BY <1>1, CalmNow
<1>4. closing \in Player /\ closing \in Process /\ closing \notin exited /\ closing # dummy
  <2>1. closing \in Player \cup {dummy} /\ closing # dummy
        BY <1>1, Processes DEF Types, ParentTypes, Player, dummy, Exits
  <2> QED BY <1>1, <2>1, Processes DEF Exits
<1>5. pending' \in [Process -> SUBSET Signals] /\ Sent(closing, "SIGINT")'
  <2>1. \A c \in Player : spot'[c] = "idle"
        BY <1>2, <1>3 DEF Calm
  <2>2. PICK p \in Process : p = closing
        BY <1>4
  <2>3. pending' \in [Process -> SUBSET Signals] /\ Sent(p, "SIGINT")'
        BY <1>1, <1>3, <1>4, <2>1, <2>2, KillSends DEF Calm, Signals
  <2> QED BY <1>1, <2>2, <2>3 DEF Sent, Alone
<1>6. ~AwaitsAnswer' /\ ~AwaitsLine' /\ AwaitsEnd'
      BY <1>1, <1>2, <1>4 DEF AwaitsAnswer, AwaitsLine, AwaitsEnd
<1>7. line' = line /\ ball' = ball /\ missed' = missed /\ winners' = winners
      BY <1>1 DEF childVars
<1>8. Token' /\ Lines'
      BY <1>3, <1>5, <1>6, <1>7 DEF Token, Lines
<1>9. Noted /\ Noted' /\ ~Turn' /\ InPlay' = InPlay /\ Result' = Result
      /\ \A c \in Player : ~Untold(c) /\ ~Untold(c)'
  <2>1. Noted /\ Noted'
        BY <1>1, <1>2 DEF Noted
  <2>2. ~Turn'
        BY <1>2, <1>6, <2>1 DEF Turn
  <2>3. \A c \in Player : ~Untold(c) /\ ~Untold(c)'
        BY <1>1, <1>2, <1>3, <1>6 DEF Untold
  <2> QED BY <1>1, <1>7, <2>1, <2>2, <2>3 DEF InPlay, Result
<1>10. Exits'
       BY <1>1, <1>2 DEF Exits
<1>11. Table'
       BY <1>1, <1>2, <1>7, <1>9 DEF Table
<1>12. Count'
       BY <1>1, <1>2, <1>9 DEF Count
<1>13. Notes'
       BY <1>1, <1>7, <1>9 DEF Notes, childVars
<1>14. Claims'
       BY <1>1, <1>7 DEF Claims
<1>15. Types'
       BY <1>1, <1>2, <1>5, TypesKept DEF Types, SignalTypes, ParentTypes
<1> QED BY <1>2, <1>8, <1>10, <1>11, <1>12, <1>13, <1>14, <1>15

(* A child has been waited for; after the last one the parent exits. *)
LEMMA ReapStep ==
    ASSUME Inv, Reap
    PROVE  Inv'
<1> USE DEF Inv, Game
<1>1. /\ Here("reap") /\ post = "reap" /\ version \in {"student", "instructor"}
      /\ parent \notin exited /\ closing \in exited /\ closing' = closing + 1
      /\ UNCHANGED <<version, pending, dummycpid, received_signal>>
      /\ UNCHANGED <<current_player, child_status, players_remaining>> /\ UNCHANGED childVars
      BY HereIs DEF Reap, table
<1>2. closing \in Player
  <2>1. closing \in Player \cup {dummy} /\ closing # dummy
        BY <1>1, Processes DEF Types, ParentTypes, Player, dummy, Exits
  <2> QED BY <2>1
<1>3. closing \in 1..n /\ n \in Nat /\ dummy = n + 1 /\ Player = 1..n /\ parent = 0
      BY <1>2, Processes DEF Player, dummy, parent
<1>4. /\ handlers' \in [Process -> Seq(Running)] /\ Stacks' /\ spot' = spot
      /\ pc' \in IF version = "student" THEN MainSteps ELSE {"throw", "paused"}
      /\ post' = IF closing < n THEN "end" ELSE "reap"
      /\ exited' = IF closing < n THEN exited ELSE exited \cup {parent}
  <2>1. CASE closing < n
    <3>1. Goto("end") /\ exited' = exited
          BY <2>1 DEF Reap
    <3>2. "end" \in IF version = "student" THEN MainSteps ELSE ParentSteps
          BY DEF MainSteps, ParentSteps
    <3> QED BY <1>1, <2>1, <3>1, <3>2, ParentGoto DEF childVars
  <2>2. CASE ~(closing < n)
    <3>1. exited' = exited \cup {parent} /\ UNCHANGED <<pc, handlers>>
          BY <2>2 DEF Reap
    <3>2. KeepsChildren
          BY <1>1, <3>1, Processes DEF KeepsChildren, childVars
    <3>3. ParentStack'
          BY <1>1, <3>1 DEF Stacks, ParentStack
    <3>4. post' = post
          BY <1>1, <3>1 DEF post, Inner
    <3>5. pc \in IF version = "student" THEN MainSteps ELSE {"throw", "paused"}
          BY DEF Types, SignalTypes
    <3>6. handlers' \in [Process -> Seq(Running)]
          BY <3>1 DEF Types, SignalTypes
    <3> QED BY <1>1, <2>2, <3>1, <3>2, <3>3, <3>4, <3>5, <3>6, ChildrenKept DEF Stacks
  <2> QED BY <2>1, <2>2
<1>5. Calm /\ ~AwaitsAnswer /\ ~AwaitsLine
      BY <1>1 DEF Token, AwaitsAnswer, AwaitsLine, AwaitsEnd
<1>6. Calm' /\ ~AwaitsAnswer' /\ ~AwaitsLine' /\ ~AwaitsEnd'
      BY <1>1, <1>4, <1>5, CalmKept DEF AwaitsAnswer, AwaitsLine, AwaitsEnd
<1>7. line' = line /\ ball' = ball /\ missed' = missed /\ winners' = winners
      BY <1>1 DEF childVars
<1>8. Token' /\ Lines'
      BY <1>5, <1>6, <1>7, CalmThen
<1>9. Noted /\ Noted' /\ ~Turn' /\ InPlay' = InPlay /\ Result' = Result
      /\ \A c \in Player : ~Untold(c) /\ ~Untold(c)'
  <2>1. Noted /\ Noted'
        BY <1>1, <1>4 DEF Noted
  <2>2. ~Turn'
        BY <1>4, <1>6, <2>1 DEF Turn
  <2>3. \A c \in Player : ~Untold(c) /\ ~Untold(c)'
        BY <1>1, <1>4, <1>5, <1>6 DEF Untold
  <2> QED BY <1>1, <1>7, <2>1, <2>2, <2>3 DEF InPlay, Result
<1>10. Exits'
  <2>1. dummy \notin exited' => FALSE
        BY <1>1, <1>3, <1>4 DEF Exits
  <2>2. parent \in exited' <=> closing' = dummy
        BY <1>1, <1>3, <1>4
  <2>3. parent \in exited' => post' = "reap"
        BY <1>1, <1>4
  <2>4. \A c \in Player : (c \in exited' <=> c \in exited) /\ (c \in exited <=> c < closing')
    <3> SUFFICES ASSUME NEW c \in Player
                 PROVE  (c \in exited' <=> c \in exited) /\ (c \in exited <=> c < closing')
        OBVIOUS
    <3>1. c \in exited' <=> c \in exited
          BY <1>4, Processes
    <3>2. c \in exited <=> (c < closing \/ c = closing)
          BY <1>1 DEF Exits
    <3> QED BY <1>1, <1>3, <3>1, <3>2
  <2> QED BY <1>4, <2>1, <2>2, <2>3, <2>4 DEF Exits
<1>11. Table'
       BY <1>1, <1>4, <1>7, <1>9 DEF Table
<1>12. Count'
       BY <1>1, <1>4, <1>9 DEF Count
<1>13. Notes'
       BY <1>1, <1>7, <1>9 DEF Notes, childVars
<1>14. Claims'
       BY <1>1, <1>4, <1>7, Processes DEF Claims
<1>15. Types'
  <2>1. closing' \in 1..dummy
        BY <1>1, <1>3
  <2>2. exited' \subseteq Process
        BY <1>4, Processes DEF Types, SignalTypes
  <2> QED BY <1>1, <1>4, <2>1, <2>2, TypesKept DEF Types, SignalTypes, ParentTypes
<1> QED BY <1>4, <1>8, <1>10, <1>11, <1>12, <1>13, <1>14, <1>15

(* A handler of the instructor's parent returns. *)
LEMMA ParentReturnStep ==
    ASSUME Inv, Return(parent)
    PROVE  Inv'
<1> USE DEF Inv
<1>1. /\ handlers' \in [Process -> Seq(Running)] /\ Stacks'
      /\ post' = post /\ answer' = answer /\ spot' = spot
      BY ParentReturn
<1>2. UNCHANGED data /\ UNCHANGED <<pc, received_signal, pending>>
      BY DEF Return, parentVars, data
<1>3. Types'
  <2>1. pending' \in [Process -> SUBSET Signals]
        BY <1>2 DEF Types, SignalTypes
  <2> QED BY <1>1, <1>2, <2>1, TypesMoved
<1> QED BY <1>1, <1>2, <1>3, NothingMoves

-----------------------------------------------------------------------------
(* The invariant *)

(* The invariant holds at the start. *)
LEMMA InitInv == Init => Inv
<1> SUFFICES ASSUME Init PROVE Inv
    OBVIOUS
<1>1. /\ version \in {"student", "instructor"}
      /\ pending = [p \in Process |-> {}] /\ handlers = [p \in Process |-> <<>>]
      /\ exited = {dummy} /\ pc = IF version = "student" THEN "while" ELSE "throw"
      /\ current_player = 1 /\ child_status = [c \in Player |-> "PLAYING"]
      /\ players_remaining = n /\ received_signal = "none" /\ closing = 1 /\ dummycpid = FALSE
      BY DEF Init, Process
<1>2. /\ my_status = [c \in Player |-> "PLAYING"] /\ last_action = [c \in Player |-> "PLAYING"]
      /\ just_missed = [c \in Player |-> FALSE] /\ state = [c \in Player |-> "PLAYING"]
      /\ line = <<>> /\ ball = [to |-> 1, caught |-> TRUE] /\ missed = {} /\ winners = {}
      BY DEF Init
<1>3. /\ 1 \in Player /\ 1 \in Process /\ n \in Nat /\ n >= 1 /\ dummy = n + 1
      /\ parent \in Process /\ dummy \in Process /\ parent # dummy
      /\ \A c \in Player : c \in Process /\ c # dummy /\ c >= 1 /\ c \in Nat
      BY Processes DEF Player, dummy
<1>4. post = pc /\ post \in {"while", "throw"}
      BY <1>1 DEF post
<1>5. \A c \in Player : spot[c] = "idle"
      BY <1>1, <1>3 DEF spot
<1>6. Types
  <2>1. SignalTypes
    <3>1. <<>> \in Seq(Running)
          BY EmptySeq
    <3>2. handlers \in [Process -> Seq(Running)]
          BY <1>1, <3>1
    <3> QED BY <1>1, <1>3, <3>2 DEF SignalTypes, MainSteps
  <2>2. ParentTypes
    <3>1. closing \in 1..dummy /\ players_remaining \in Nat
          BY <1>1, <1>3
    <3> QED BY <1>1, <1>3, <3>1 DEF ParentTypes
  <2>3. ChildTypes
        BY <1>2, <1>3, EmptySeq DEF ChildTypes
  <2> QED BY <2>1, <2>2, <2>3 DEF Types
<1>7. Stacks
      BY <1>1, <1>3 DEF Stacks, ParentStack, ChildStack
<1>8. ~AwaitsAnswer /\ ~AwaitsLine /\ ~AwaitsEnd
      BY <1>4 DEF AwaitsAnswer, AwaitsLine, AwaitsEnd
<1>9. Token
      BY <1>1, <1>5, <1>8 DEF Token, Calm
<1>10. Exits
       BY <1>1, <1>3, <1>4 DEF Exits
<1>11. Noted /\ InPlay = Player /\ \A c \in Player : ~Untold(c)
       BY <1>1, <1>4, <1>8 DEF Noted, InPlay, Untold
<1>12. Table
  <2>1. post = "throw" => version # "student" /\ answer = "none"
        BY <1>1, <1>4 DEF answer
  <2> QED BY <1>1, <1>2, <1>3, <1>4, <1>11, <2>1 DEF Table
<1>13. Count
  <2>1. version = "student" => post = "while"
        BY <1>1, <1>4
  <2> QED BY <1>1, <1>3, <1>4, <1>11, <2>1, Players DEF Count
<1>14. Notes
       BY <1>2, <1>11 DEF Notes
<1>15. Lines
  <2>1. Len(line) = 0
        BY <1>2
  <2> QED BY <1>8, <2>1 DEF Lines
<1>16. Claims
       BY <1>1, <1>2, <1>3 DEF Claims
<1> QED BY <1>6, <1>7, <1>9, <1>10, <1>12, <1>13, <1>14, <1>15, <1>16 DEF Inv, Game

(* Each step of a child keeps it, ... *)
LEMMA ChildStep ==
    ASSUME Inv, NEW c \in Player, Child(c)
    PROVE  Inv'
BY CalledStep, PrintStep, PassOnStep, ReceiveStep, TellCatchStep, TellMissStep, ExitStep,
   ReturnStepKeeps DEF Child

(* ... and each step of the parent, ... *)
LEMMA ParentStep ==
    ASSUME Inv, Parent
    PROVE  Inv'
BY ParentCalledStep, PlayOnStep, ThrowStep, TestStep, NoteStep, DummyMade, ShowStep, WaitStep,
   NextPlayerStep, EndStep, ReapStep, ParentReturnStep DEF Parent

(* ... and a step that changes nothing. *)
LEMMA StutterStep ==
    ASSUME Inv, UNCHANGED vars
    PROVE  Inv'
<1> USE DEF Inv
<1>1. UNCHANGED data /\ UNCHANGED <<pending, handlers, pc, received_signal>>
      /\ UNCHANGED <<version, exited, state>>
      BY DEF vars, parentVars, data, childVars
<1>2. spot' = spot /\ Stacks'
  <2>1. KeepsChildren
        BY <1>1 DEF KeepsChildren
  <2>2. ParentStack'
        BY <1>1 DEF Stacks, ParentStack
  <2> QED BY <2>1, <2>2, ChildrenKept DEF Stacks
<1>3. post' = post /\ answer' = answer
      BY <1>1, ParentKept DEF KeepsParent
<1>4. Types'
  <2>1. pending' \in [Process -> SUBSET Signals] /\ handlers' \in [Process -> Seq(Running)]
        BY <1>1 DEF Types, SignalTypes
  <2> QED BY <1>1, <2>1, TypesMoved
<1> QED BY <1>1, <1>2, <1>3, <1>4, NothingMoves

(* The signals, the handlers, the table, and what everybody has noted are  *)
(* consistent in every state of either program, for any number of children.*)
THEOREM Invariance == Spec => []Inv
<1>1. Inv /\ [Next]_vars => Inv'
      BY ChildStep, ParentStep, DummyStep, StutterStep DEF Next
<1> QED BY InitInv, <1>1, PTL DEF Spec

-----------------------------------------------------------------------------
(* What follows *)

(* Every variable has its type: each handler is at a step of its signal.   *)
THEOREM TypeCorrect == Spec => []Types
<1>1. Inv => Types
      BY DEF Inv
<1> QED BY Invariance, <1>1, PTL

(* Whatever is pending is the token. *)
LEMMA OneSent ==
    ASSUME Types, Token, NEW p \in Process, NEW s \in pending[p]
    PROVE  Alone(p) /\ pending[p] = {s}
<1>1. ~Calm
      BY DEF Calm
<1>2. CASE AwaitsAnswer
      BY <1>2 DEF Token, Flying, Telling, Sent, Busy, Alone
<1>3. CASE AwaitsLine
      BY <1>3 DEF Token, Sent, Busy, Alone
<1>4. CASE AwaitsEnd
      BY <1>4 DEF Token, Sent, Busy, Alone
<1> QED BY <1>1, <1>2, <1>3, <1>4 DEF Token

(* There is one ball: no signal is lost to another, and the ball is thrown *)
(* to a child that has not missed, by a parent whose table is right.       *)
THEOREM OneBallAlways == Spec => []OneBall
<1>1. ASSUME Inv PROVE OneBall
  <2> USE <1>1 DEF Inv, Game
  <2>1. ASSUME NEW p \in DOMAIN pending, NEW q \in DOMAIN pending,
               NEW s \in pending[p], NEW r \in pending[q]
        PROVE  p = q /\ s = r
    <3>1. p \in Process /\ q \in Process
          BY DEF Types, SignalTypes
    <3>2. Alone(p) /\ pending[p] = {s}
          BY <3>1, OneSent
    <3> QED BY <3>1, <3>2 DEF Alone
  <2>2. ASSUME NEW c \in Player, "SIGUSR2" \in pending[c]
        PROVE  /\ c \notin missed
               /\ \A d \in Player : child_status[d] = "OUTOFGAME" <=> d \in missed
    <3>1. Sent(c, "SIGUSR2") /\ AwaitsAnswer /\ c = current_player
          BY <2>2, WhatIsSent
    <3>2. Noted /\ Turn
          BY <3>1 DEF Noted, Turn, Flying
    <3> QED BY <3>1, <3>2 DEF Table, InPlay
  <2> QED BY <2>1, <2>2 DEF OneBall
<1> QED BY Invariance, <1>1, PTL

(* Whoever claims to have won has never missed, and all others have.       *)
OneCanWin == \A c \in winners : missed = Player \ {c}

(* Only a child that has never missed, while all others have, says that it *)
(* has won.                                                                *)
THEOREM OneCanWinAlways == Spec => []OneCanWin
<1>1. ASSUME Inv PROVE OneCanWin
  <2> USE <1>1 DEF Inv, Game
  <2> SUFFICES ASSUME NEW c \in Player, c \in winners PROVE missed = Player \ {c}
      BY DEF OneCanWin, Types, ChildTypes
  <2>1. c \in exited /\ c \notin missed
        BY DEF Claims
  <2>2. post \in {"end", "reap"}
    <3>1. c < closing \/ (c = closing /\ post = "reap")
          BY <2>1 DEF Exits
    <3> QED BY <3>1, Processes DEF Exits
  <2>3. \A d \in Player : d \in InPlay <=> d \notin missed
    <3>1. Noted
          BY <2>2 DEF Noted
    <3> QED BY <3>1 DEF Table, InPlay, Types, ParentTypes
  <2>4. PICK x : InPlay = {x}
    <3>1. InPlay \in SUBSET Player /\ Cardinality(InPlay) = 1
          BY <2>2 DEF InPlay, Count
    <3> QED BY <3>1, Players, FS_Singleton
  <2>5. InPlay = {c}
        BY <2>1, <2>3, <2>4
  <2> QED BY <2>3, <2>5 DEF Types, ChildTypes
<1> QED BY Invariance, <1>1, PTL

(* A complete line of the table tells of every child, in order, what has   *)
(* happened to it.                                                         *)
THEOREM LinesTrueAlways == Spec => LinesTrue
<1> DEFINE told == [c \in Player |-> [by |-> c, text |-> Happened(c)]]
<1>1. ASSUME Inv, [Next]_vars
      PROVE  [line' # line /\ Len(line') = n =>
                line' = [c \in Player |-> [by |-> c, text |-> Happened(c)]]]_vars
  <2> SUFFICES ASSUME line' # line, Len(line') = n PROVE line' = told
      OBVIOUS
  <2>1. PICK c \in Player : PrintStatus(c)
    <3>1. ~UNCHANGED childVars
          BY DEF childVars
    <3>2. ~Parent
          BY <3>1 DEF Parent, ParentCalled, ReceivedSignal, Call, Return, PlayOn, Throw,
             TestSignal, Pause, NoteAnswer, ForkDummy, WriteDummycpid, ShowLine, WaitDummy,
             NextPlayer, EndGame, Reap
    <3>3. ~DummyExits /\ ~UNCHANGED vars
          BY <3>1 DEF DummyExits, vars
    <3>4. PICK c \in Player : Child(c)
          BY <1>1, <3>2, <3>3 DEF Next
    <3> QED BY <3>1, <3>4 DEF Child, ChildCalled, Call, PassOn, ReceiveBall, TellCatch, TellMiss,
               ChildExits, Return
  <2>2. Inv' /\ Printed(c)'
        BY <1>1, <2>1, PrintStep
  <2>3. \A i : Happened(i)' = Happened(i)
        BY <2>1 DEF PrintStatus, Happened
  <2>4. line' \in Seq(Entries) /\ Player = 1..n /\ c = n
        BY <2>2 DEF Printed, Inv, Types, ChildTypes, Player
  <2>5. line' = [i \in 1..n |-> line'[i]]
    <3>1. line' \in [1..Len(line') -> Entries]
          BY <2>4, LenProperties
    <3> QED BY <3>1
  <2>6. \A i \in 1..n : line'[i] = [by |-> i, text |-> Happened(i)]
        BY <2>2, <2>3, <2>4 DEF Printed
  <2> QED BY <2>4, <2>5, <2>6
<1> HIDE DEF told
<1> QED BY Invariance, <1>1, PTL DEF Spec, LinesTrue
=============================================================================
