------------------------------ MODULE BallGame ------------------------------
(***************************************************************************)
(* Lab A2, A2/{parent,child,dummy}.c and A2/LA2_Solution: a parent throws  *)
(* a ball to its children in turn; a child that misses it is out, and the  *)
(* last one wins.  All they have to talk with are signals.  SIGUSR2 from   *)
(* the parent is the ball; the child answers SIGUSR1 (caught) or SIGUSR2   *)
(* (missed).  Then a line of the table is printed: the parent sends        *)
(* SIGUSR1 to child 1, each child prints its entry and passes SIGUSR1 on,  *)
(* and the last one ends, with SIGINT, the dummy for which the parent      *)
(* waits.  At the end the children get SIGINT.                             *)
(*                                                                         *)
(* A signal is pending until its handler is called: at any moment, but not *)
(* while a handler for the same signal is still running.  A signal that is *)
(* sent while it is pending is lost.  The student's parent plays in main   *)
(* and only notes the signals, the instructor's plays in the handler.      *)
(*                                                                         *)
(* At the start, which the programs order by sleeping, everybody has read  *)
(* the process numbers and installed the handlers.                         *)
(***************************************************************************)
EXTENDS Integers, Sequences

CONSTANT n   (* the number of children *)

ASSUME GameAssumption == n \in Nat \ {0}

Player == 1..n
parent == 0
dummy == n + 1

VARIABLES
    version,                        (* whose program; never changes        *)
    pending,                        (* the signals pending at each process *)
    handlers,                       (* the handlers each process is in,    *)
                                    (* the innermost last                  *)
    exited,                         (* the processes that are no more      *)
    pc, current_player,             (* the parent: pc is that of main;     *)
    child_status, players_remaining,   (* nextplr, state and nplr in the   *)
    received_signal,                   (* instructor's program             *)
    closing,                        (* i of the loop that ends the game    *)
    dummycpid,                      (* the file names the present dummy    *)
    my_status, last_action, just_missed,  (* the student's children        *)
    state,                                (* the instructor's children     *)
    line,                           (* the entries of the current line     *)
    ball, missed, winners           (* history: the last throw, who has    *)
                                    (* missed, who has claimed to have won *)

table == <<current_player, child_status, players_remaining>>
parentVars == <<pc, table, received_signal, closing, dummycpid>>
childVars == <<my_status, last_action, just_missed, state, line, ball, missed, winners>>
vars == <<version, pending, handlers, exited, parentVars, childVars>>

Init ==
    /\ version \in {"student", "instructor"}
    /\ pending = [p \in parent..dummy |-> {}]
    /\ handlers = [p \in parent..dummy |-> <<>>]
    /\ exited = {dummy}
    /\ pc = IF version = "student" THEN "while" ELSE "throw"
    /\ current_player = 1
    /\ child_status = [c \in Player |-> "PLAYING"]
    /\ players_remaining = n
    /\ received_signal = "none"
    /\ closing = 1
    /\ dummycpid = FALSE
    /\ my_status = [c \in Player |-> "PLAYING"]
    /\ last_action = [c \in Player |-> "PLAYING"]
    /\ just_missed = [c \in Player |-> FALSE]
    /\ state = [c \in Player |-> "PLAYING"]
    /\ line = <<>>
    /\ ball = [to |-> 1, caught |-> TRUE]
    /\ missed = {}
    /\ winners = {}

-----------------------------------------------------------------------------
(* Signals.  What is sent to a process that has exited reaches nobody.     *)

Kill(sent, p, sig) ==
    IF p \in exited THEN sent ELSE [sent EXCEPT ![p] = @ \cup {sig}]

Deliverable(p, sig) ==
    /\ p \notin exited
    /\ sig \in pending[p]
    /\ \A i \in DOMAIN handlers[p] : handlers[p][i].sig # sig

Inner(p) == handlers[p][Len(handlers[p])]
In(p, at) == p \notin exited /\ handlers[p] # <<>> /\ Inner(p).at = at
To(p, at) == handlers' = [handlers EXCEPT ![p][Len(handlers[p])].at = at]

(* A handler is called; it starts at its step `at'. *)
Call(p, sig, at) ==
    /\ Deliverable(p, sig)
    /\ pending' = [pending EXCEPT ![p] = @ \ {sig}]
    /\ handlers' = [handlers EXCEPT ![p] = Append(@, [sig |-> sig, at |-> at])]
    /\ UNCHANGED <<version, exited, parentVars, childVars>>

Return(p) ==
    /\ In(p, "return")
    /\ handlers' = [handlers EXCEPT ![p] = SubSeq(@, 1, Len(@) - 1)]
    /\ UNCHANGED <<version, pending, exited, parentVars, childVars>>

-----------------------------------------------------------------------------
(* The children *)

(* What child c prints in the table, and what it makes of it. *)
Entry(c) ==
    IF version = "student"
    THEN IF just_missed[c] THEN "MISS"
         ELSE IF my_status[c] = "OUTOFGAME" THEN "blank"
         ELSE IF last_action[c] = "CATCHMADE" THEN "CATCH" ELSE "dots"
    ELSE CASE state[c] = "PLAYING" -> "dots"
           [] state[c] = "HAVEBALL" -> "CATCH"
           [] state[c] = "BALLMISSED" -> "MISS"
           [] state[c] = "OUTOFGAME" -> "blank"

(* Mutant of AfterPrint: a catch is not forgotten once it is shown. *)
AfterPrintKeepsCatch(c, entry) ==
    IF version = "student"
    THEN /\ just_missed' = [just_missed EXCEPT ![c] = FALSE]
         /\ my_status' = [my_status EXCEPT ![c] = IF entry = "MISS" THEN "OUTOFGAME" ELSE @]
         /\ UNCHANGED <<last_action, state>>
    ELSE /\ state' = [state EXCEPT ![c] = IF entry = "MISS" THEN "OUTOFGAME" ELSE @]
         /\ UNCHANGED <<my_status, last_action, just_missed>>

AfterPrint(c, entry) ==
    IF version = "student"
    THEN /\ just_missed' = [just_missed EXCEPT ![c] = FALSE]
         /\ my_status' = [my_status EXCEPT ![c] = IF entry = "MISS" THEN "OUTOFGAME" ELSE @]
         /\ last_action' = [last_action EXCEPT ![c] = IF entry = "CATCH" THEN "PLAYING" ELSE @]
         /\ UNCHANGED state
    ELSE /\ state' = [state EXCEPT ![c] = CASE entry = "CATCH" -> "PLAYING"
                                            [] entry = "MISS" -> "OUTOFGAME"
                                            [] OTHER -> @]
         /\ UNCHANGED <<my_status, last_action, just_missed>>

(* The handler of SIGUSR1: the entry, which starts a new line if the last  *)
(* one is complete; then the next child, or the dummy if the file names it.*)
PrintStatus(c) ==
    /\ In(c, "print")
    /\ line' = Append(IF Len(line) = n THEN <<>> ELSE line, [by |-> c, text |-> Entry(c)])
    /\ AfterPrint(c, Entry(c))
    /\ To(c, "pass")
    /\ UNCHANGED <<version, pending, exited, parentVars, ball, missed, winners>>

PassOn(c) ==
    /\ In(c, "pass")
    /\ pending' = IF c < n THEN Kill(pending, c + 1, "SIGUSR1")
                  ELSE IF dummycpid THEN Kill(pending, dummy, "SIGINT") ELSE pending
    /\ To(c, "return")
    /\ UNCHANGED <<version, exited, parentVars, childVars>>

(* The handler of SIGUSR2: the child catches the ball or misses it, and    *)
(* tells the parent.  An instructor's child that is not playing complains. *)
ReceiveBall(c, caught) ==
    /\ In(c, "receive")
    /\ ball' = [to |-> c, caught |-> caught]
    /\ missed' = IF caught THEN missed ELSE missed \cup {c}
    /\ IF version = "student"
       THEN /\ IF caught
               THEN /\ last_action' = [last_action EXCEPT ![c] = "CATCHMADE"]
                    /\ To(c, "tellcatch")
                    /\ UNCHANGED just_missed
               ELSE /\ just_missed' = [just_missed EXCEPT ![c] = TRUE]
                    /\ To(c, "tellmiss")
                    /\ UNCHANGED last_action
            /\ UNCHANGED state
       ELSE /\ IF state[c] = "PLAYING"
               THEN /\ state' = [state EXCEPT ![c] = IF caught THEN "HAVEBALL" ELSE "BALLMISSED"]
                    /\ To(c, "tellcatch")
               ELSE /\ To(c, "return")
                    /\ UNCHANGED state
            /\ UNCHANGED <<last_action, just_missed>>
    /\ UNCHANGED <<version, pending, exited, parentVars, my_status, line, winners>>

(* The instructor's child looks at its state again for either answer, and  *)
(* may have printed its entry in between.                                  *)
TellCatch(c) ==
    /\ In(c, "tellcatch")
    /\ pending' = IF version = "student" \/ state[c] = "HAVEBALL"
                  THEN Kill(pending, parent, "SIGUSR1") ELSE pending
    /\ To(c, IF version = "student" THEN "return" ELSE "tellmiss")
    /\ UNCHANGED <<version, exited, parentVars, childVars>>

TellMiss(c) ==
    /\ In(c, "tellmiss")
    /\ pending' = IF version = "student" \/ state[c] = "BALLMISSED"
                  THEN Kill(pending, parent, "SIGUSR2") ELSE pending
    /\ To(c, "return")
    /\ UNCHANGED <<version, exited, parentVars, childVars>>

(* The handler of SIGINT: whoever is still in has won. *)
StillIn(c) == IF version = "student" THEN my_status[c] # "OUTOFGAME" ELSE state[c] = "PLAYING"

ChildExits(c) ==
    /\ In(c, "exit")
    /\ winners' = IF StillIn(c) THEN winners \cup {c} ELSE winners
    /\ exited' = exited \cup {c}
    /\ UNCHANGED <<version, pending, handlers, parentVars,
                   my_status, last_action, just_missed, state, line, ball, missed>>

ChildCalled(c) ==
    \/ Call(c, "SIGUSR1", "print")
    \/ Call(c, "SIGUSR2", "receive")
    \/ Call(c, "SIGINT", "exit")

Child(c) ==
    \/ ChildCalled(c)
    \/ PrintStatus(c)
    \/ PassOn(c)
    \/ \E caught \in BOOLEAN : ReceiveBall(c, caught)
    \/ TellCatch(c)
    \/ TellMiss(c)
    \/ ChildExits(c)
    \/ Return(c)

(* The dummy only waits for its SIGINT, which ends it in any case. *)
DummyExits ==
    /\ dummy \notin exited
    /\ "SIGINT" \in pending[dummy]
    /\ pending' = [pending EXCEPT ![dummy] = {}]
    /\ exited' = exited \cup {dummy}
    /\ UNCHANGED <<version, handlers, parentVars, childVars>>

-----------------------------------------------------------------------------
(* The parent: the student's does these steps in main, the instructor's in *)
(* the handler of the child's answer.                                      *)

Here(at) ==
    /\ parent \notin exited
    /\ IF version = "student" THEN pc = at ELSE In(parent, at)

Goto(at) ==
    IF version = "student" THEN pc' = at /\ UNCHANGED handlers
    ELSE To(parent, at) /\ UNCHANGED pc

(* The handler of the student's parent, which also ends a pause. *)
ReceivedSignal(sig) ==
    /\ version = "student"
    /\ Deliverable(parent, sig)
    /\ pending' = [pending EXCEPT ![parent] = @ \ {sig}]
    /\ received_signal' = sig
    /\ pc' = IF pc = "paused" THEN "test" ELSE pc
    /\ UNCHANGED <<version, handlers, exited, table, closing, dummycpid, childVars>>

ParentCalled ==
    \E sig \in {"SIGUSR1", "SIGUSR2"} :
        \/ ReceivedSignal(sig)
        \/ version = "instructor" /\ Call(parent, sig, "fork")

(* Mutant of PlayOn: the last answer is not forgotten. *)
PlayOnStale ==
    /\ Here("while")
    /\ pc' = IF players_remaining > 1 THEN "throw" ELSE "end"
    /\ UNCHANGED <<version, pending, handlers, exited, table, received_signal, closing,
                   dummycpid, childVars>>

(* The head of the student's loop. *)
PlayOn ==
    /\ Here("while")
    /\ IF players_remaining > 1
       THEN received_signal' = "none" /\ pc' = "throw"
       ELSE pc' = "end" /\ UNCHANGED received_signal
    /\ UNCHANGED <<version, pending, handlers, exited, table, closing, dummycpid, childVars>>

(* The ball is thrown to the current player; the instructor's first throw  *)
(* is in main, which then only pauses.                                     *)
Throw ==
    /\ pending' = Kill(pending, current_player, "SIGUSR2")
    /\ \/ Here("throw") /\ Goto(IF version = "student" THEN "test" ELSE "return")
       \/ /\ version = "instructor" /\ pc = "throw"
          /\ pc' = "paused" /\ UNCHANGED handlers
    /\ UNCHANGED <<version, exited, table, received_signal, closing, dummycpid, childVars>>

(* The student's parent tests whether there is an answer and, if not, goes *)
(* to pause; an answer may come before it is there.                        *)
TestSignal ==
    /\ Here("test")
    /\ Goto(IF received_signal = "none" THEN "pause" ELSE "note")
    /\ UNCHANGED <<version, pending, exited, table, received_signal, closing, dummycpid, childVars>>

Pause ==
    /\ Here("pause")
    /\ Goto("paused")
    /\ UNCHANGED <<version, pending, exited, table, received_signal, closing, dummycpid, childVars>>

(* A player who has missed is out.  The student's parent does this before  *)
(* the line is printed, the instructor's afterwards; the latter ends the   *)
(* game here when one player is left.                                      *)
NoteAnswer ==
    LET answer == IF version = "student" THEN received_signal ELSE Inner(parent).sig
        miss == answer = "SIGUSR2"
    IN  /\ Here("note")
        /\ child_status' = IF miss THEN [child_status EXCEPT ![current_player] = "OUTOFGAME"]
                           ELSE child_status
        /\ players_remaining' = IF miss THEN players_remaining - 1 ELSE players_remaining
        /\ Goto(IF version = "student" THEN "fork"
                ELSE IF miss /\ players_remaining' = 1 THEN "end" ELSE "next")
        /\ UNCHANGED <<version, pending, exited, current_player, received_signal,
                       closing, dummycpid, childVars>>

ForkDummy ==
    /\ Here("fork")
    /\ exited' = exited \ {dummy}
    /\ dummycpid' = FALSE
    /\ Goto("file")
    /\ UNCHANGED <<version, pending, table, received_signal, closing, childVars>>

WriteDummycpid ==
    /\ Here("file")
    /\ dummycpid' = TRUE
    /\ Goto("show")
    /\ UNCHANGED <<version, pending, exited, table, received_signal, closing, childVars>>

ShowLine ==
    /\ Here("show")
    /\ pending' = Kill(pending, 1, "SIGUSR1")
    /\ Goto("wait")
    /\ UNCHANGED <<version, exited, table, received_signal, closing, dummycpid, childVars>>

WaitDummy ==
    /\ Here("wait")
    /\ dummy \in exited
    /\ Goto(IF version = "student" THEN "next" ELSE "note")
    /\ UNCHANGED <<version, pending, exited, table, received_signal, closing, dummycpid, childVars>>

(* The players in the order in which they come after player c, c the last. *)
After(c, k) == 1 + ((c + k - 1) % n)

(* Mutant of find_next_player: whoever comes next. *)
find_next_playerAny(c) == After(c, 1)

(* The first one after c who is playing; c if there is none. *)
find_next_player(c) ==
    LET playing == {k \in 1..n : child_status[After(c, k)] = "PLAYING"}
    IN  IF playing = {} THEN c ELSE After(c, CHOOSE k \in playing : \A l \in playing : k <= l)

(* The student's loop looks for the next player only if there are two; the *)
(* instructor's search does not end if there is none.                      *)
NextPlayer ==
    /\ Here("next")
    /\ version = "instructor" => \E c \in Player : child_status[c] = "PLAYING"
    /\ current_player' = IF version = "instructor" \/ players_remaining > 1
                         THEN find_next_player(current_player) ELSE current_player
    /\ Goto(IF version = "student" THEN "while" ELSE "throw")
    /\ UNCHANGED <<version, pending, exited, child_status, players_remaining,
                   received_signal, closing, dummycpid, childVars>>

(* The end: the children are told one by one, and waited for. *)
EndGame ==
    /\ Here("end")
    /\ pending' = Kill(pending, closing, "SIGINT")
    /\ Goto("reap")
    /\ UNCHANGED <<version, exited, table, received_signal, closing, dummycpid, childVars>>

Reap ==
    /\ Here("reap")
    /\ closing \in exited
    /\ closing' = closing + 1
    /\ IF closing < n
       THEN Goto("end") /\ UNCHANGED exited
       ELSE exited' = exited \cup {parent} /\ UNCHANGED <<pc, handlers>>
    /\ UNCHANGED <<version, pending, table, received_signal, dummycpid, childVars>>

Parent ==
    \/ ParentCalled
    \/ PlayOn
    \/ Throw
    \/ TestSignal
    \/ Pause
    \/ NoteAnswer
    \/ ForkDummy
    \/ WriteDummycpid
    \/ ShowLine
    \/ WaitDummy
    \/ NextPlayer
    \/ EndGame
    \/ Reap
    \/ Return(parent)

Next == Parent \/ DummyExits \/ \E c \in Player : Child(c)

Spec == Init /\ [][Next]_vars

(* Every process runs when it can, and a draw that is made for ever comes  *)
(* out as a miss for ever again.                                           *)
Fairness ==
    /\ WF_vars(Parent)
    /\ WF_vars(DummyExits)
    /\ \A c \in Player : WF_vars(Child(c))
    /\ SF_vars(\E c \in Player : ReceiveBall(c, FALSE))

FairSpec == Spec /\ Fairness

-----------------------------------------------------------------------------
(* Properties *)

(* There is one ball.  At most one signal is under way, so that none is    *)
(* lost to another of its kind; and when the ball is thrown, the parent's  *)
(* table, which it keeps from the answers alone, has exactly those out who *)
(* have missed, and the ball goes to one who is not.                       *)
OneBall ==
    /\ \A p, q \in DOMAIN pending : \A s \in pending[p], r \in pending[q] : p = q /\ s = r
    /\ \A c \in Player : "SIGUSR2" \in pending[c] =>
          /\ c \notin missed
          /\ \A d \in Player : child_status[d] = "OUTOFGAME" <=> d \in missed

(* When a line of the table is complete, each child has printed its entry, *)
(* in order, and together they tell what has happened: who caught or       *)
(* missed the last ball, who was out before, who was not involved.         *)
Happened(c) ==
    IF c = ball.to THEN IF ball.caught THEN "CATCH" ELSE "MISS"
    ELSE IF c \in missed THEN "blank" ELSE "dots"

LinesTrue ==
    [][line' # line /\ Len(line') = n =>
          line' = [c \in Player |-> [by |-> c, text |-> Happened(c)]]]_vars

(* The game comes to its end: everybody has exited, and one child, the one *)
(* that has never missed, has said that it won.  There is one exception:   *)
(* the student's parent has gone to pause when the answer had already come.*)
Decided ==
    /\ exited = parent..dummy
    /\ \E c \in Player : winners = {c} /\ missed = Player \ {c}

Overslept == version = "student" /\ pc = "paused" /\ received_signal # "none"

OneWinner == <>[](Decided \/ Overslept)
=============================================================================
