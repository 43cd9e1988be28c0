-------------------------- MODULE ResourceSolution -------------------------
(***************************************************************************)
(* Lab A8, A8/LA8_Solution/resource.c: the instructor's resource manager.  *)
(* One request at a time passes through the globals reqfrom, reqtype and   *)
(* REQ, under rmtx: the thread meets the master at the barrier REQB, and   *)
(* at its own barrier ACKB[i] once the master has copied the request.  A   *)
(* thread that posts an R request holds its mutex cmtx[i] from before the  *)
(* posting until it sleeps on cwait[i], and the master needs that mutex to *)
(* signal it, so that no signal comes too early.                           *)
(*                                                                         *)
(* A wait is taken to end only when it is signalled.                       *)
(*                                                                         *)
(* The two parties of a barrier leave it in one step, which is that of the *)
(* master.  The tables and the queue are the master's alone, so each       *)
(* request it books and each queue entry it examines is one step.          *)
(***************************************************************************)
EXTENDS Session

CONSTANTS Nobody         (* rmtx is free                                   *)

ASSUME SolutionAssumption == Nobody \notin Threads

VARIABLES
    AVAILABLE, ALLOC, NEED,    (* the tables                               *)
    rmtx,                      (* the thread that holds rmtx               *)
    cmtx,                      (* the threads that hold their own cmtx     *)
    reqfrom, reqtype, REQ,     (* the request being posted                 *)
    Q,                         (* the queue of pending requests            *)
    at,                        (* the entry of Q that serverequest is at   *)
    granted,                   (* whom it is about to signal               *)
    exited                     (* the threads whose Q has been processed   *)

sTables == <<AVAILABLE, ALLOC, NEED>>
post == <<reqfrom, reqtype, REQ>>
sVars == <<Avoid, AVAILABLE, ALLOC, NEED, rmtx, cmtx, reqfrom, reqtype, REQ, Q, at,
           granted, exited, mpc, tpc, held, sent>>

SInit ==
    /\ Avoid \in BOOLEAN
    /\ AVAILABLE = Total
    /\ ALLOC = [t \in Threads |-> Zero]
    /\ NEED = maxNeed
    /\ rmtx = Nobody /\ cmtx = {}
    /\ reqfrom = Nobody /\ reqtype = "none" /\ REQ = Zero
    /\ Q = <<>> /\ at = 1 /\ granted = Nobody
    /\ exited = {}
    /\ mpc = "receive"
    /\ tpc = [t \in Threads |-> "delay"]
    /\ held = [t \in Threads |-> Zero]
    /\ sent = [t \in Threads |-> 0]

SRunning == mpc # "exit"

-----------------------------------------------------------------------------
(* tmain *)

ThreadGoes(t, from, to) ==
    /\ SRunning
    /\ tpc[t] = from
    /\ tpc' = [tpc EXCEPT ![t] = to]
    /\ UNCHANGED <<sTables, Q, at, granted, exited, mpc>>

PostQuit(t) ==
    /\ rmtx = Nobody
    /\ ThreadGoes(t, "delay", "quitting")
    /\ rmtx' = t
    /\ reqfrom' = t /\ reqtype' = "Q"
    /\ UNCHANGED <<REQ, cmtx, script>>

(* Mutant of PostRequest: the thread does not take its cmtx first. *)
PostRequestUnlocked(t, q) ==
    /\ rmtx = Nobody /\ sent[t] < MaxRequests
    /\ ThreadGoes(t, "delay", IF IsZero(Wanted(q)) THEN "releasing" ELSE "asking")
    /\ rmtx' = t
    /\ reqfrom' = t /\ reqtype' = "R" /\ REQ' = q
    /\ held' = [held EXCEPT ![t] = Add(@, q)]
    /\ sent' = [sent EXCEPT ![t] = @ + 1]
    /\ UNCHANGED cmtx

(* It takes rmtx, then its cmtx, which only the master's signalling could  *)
(* hold, and goes to the barrier REQB.  `asking' is the code's flag.       *)
PostRequest(t, q) ==
    /\ rmtx = Nobody /\ sent[t] < MaxRequests
    /\ ThreadGoes(t, "delay", IF IsZero(Wanted(q)) THEN "releasing" ELSE "asking")
    /\ rmtx' = t /\ cmtx' = cmtx \cup {t}
    /\ reqfrom' = t /\ reqtype' = "R" /\ REQ' = q
    /\ held' = [held EXCEPT ![t] = Add(@, q)]
    /\ sent' = [sent EXCEPT ![t] = @ + 1]

(* Past ACKB the thread lets go of rmtx and, unless it is to sleep, of     *)
(* its cmtx too.                                                           *)
UnlockRmtx(t) ==
    \/ /\ ThreadGoes(t, "quitAcked", "done")
       /\ rmtx' = Nobody
       /\ UNCHANGED <<cmtx, post, script>>
    \/ /\ ThreadGoes(t, "releaseAcked", "delay")
       /\ rmtx' = Nobody /\ cmtx' = cmtx \ {t}
       /\ UNCHANGED <<post, script>>
    \/ /\ ThreadGoes(t, "askAcked", "toSleep")
       /\ rmtx' = Nobody
       /\ UNCHANGED <<cmtx, post, script>>

(* pthread_cond_wait; once signalled the thread takes and releases cmtx.   *)
SSleep(t) ==
    /\ ThreadGoes(t, "toSleep", "asleep")
    /\ cmtx' = cmtx \ {t}
    /\ UNCHANGED <<rmtx, post, script>>

-----------------------------------------------------------------------------
(* main, the master *)

Acked(step) == CASE step = "quitting" -> "quitAcked"
                 [] step = "releasing" -> "releaseAcked"
                 [] step = "asking" -> "askAcked"

AtREQB == {t \in Threads : tpc[t] \in {"quitting", "releasing", "asking"}}

(* registerrequest books what REQ returns and clears it; the rest is put   *)
(* in the queue.                                                           *)
ReceiveRequest ==
    /\ mpc = "receive" /\ AtREQB # {} /\ reqtype = "R"
    /\ AVAILABLE' = Add(AVAILABLE, Returned(REQ))
    /\ ALLOC' = [ALLOC EXCEPT ![reqfrom] = Sub(@, Returned(REQ))]
    /\ NEED' = [NEED EXCEPT ![reqfrom] = Add(@, Returned(REQ))]
    /\ REQ' = Wanted(REQ)
    /\ Q' = IF IsZero(REQ') THEN Q ELSE Append(Q, [from |-> reqfrom, request |-> REQ'])
    /\ mpc' = "serve" /\ at' = 1
    /\ tpc' = [tpc EXCEPT ![reqfrom] = Acked(@)]
    /\ UNCHANGED <<rmtx, cmtx, reqfrom, reqtype, granted, exited, script>>

(* Mutants of SReceiveQuit: the waiting requests are not tried again, or   *)
(* what the thread held is not returned.                                   *)
SReceiveQuitIdle ==
    /\ mpc = "receive" /\ AtREQB # {} /\ reqtype = "Q"
    /\ exited' = exited \cup {reqfrom}
    /\ AVAILABLE' = Add(AVAILABLE, ALLOC[reqfrom])
    /\ ALLOC' = [ALLOC EXCEPT ![reqfrom] = Zero]
    /\ NEED' = [NEED EXCEPT ![reqfrom] = Zero]
    /\ mpc' = IF exited' = Threads THEN "exit" ELSE "receive"
    /\ at' = 1
    /\ tpc' = [tpc EXCEPT ![reqfrom] = Acked(@)]
    /\ UNCHANGED <<rmtx, cmtx, post, Q, granted, script>>

ReceiveQuitLeaks ==
    /\ mpc = "receive" /\ AtREQB # {} /\ reqtype = "Q"
    /\ exited' = exited \cup {reqfrom}
    /\ ALLOC' = [ALLOC EXCEPT ![reqfrom] = Zero]
    /\ NEED' = [NEED EXCEPT ![reqfrom] = Zero]
    /\ mpc' = IF exited' = Threads THEN "exit" ELSE "serve"
    /\ at' = 1
    /\ tpc' = [tpc EXCEPT ![reqfrom] = Acked(@)]
    /\ UNCHANGED <<AVAILABLE, rmtx, cmtx, post, Q, granted, script>>

SReceiveQuit ==
    /\ mpc = "receive" /\ AtREQB # {} /\ reqtype = "Q"
    /\ exited' = exited \cup {reqfrom}
    /\ AVAILABLE' = Add(AVAILABLE, ALLOC[reqfrom])
    /\ ALLOC' = [ALLOC EXCEPT ![reqfrom] = Zero]
    /\ NEED' = [NEED EXCEPT ![reqfrom] = Zero]
    /\ mpc' = IF exited' = Threads THEN "exit" ELSE "serve"
    /\ at' = 1
    /\ tpc' = [tpc EXCEPT ![reqfrom] = Acked(@)]
    /\ UNCHANGED <<rmtx, cmtx, post, Q, granted, script>>

safetoallocate(p) ==
    issafe(Threads \ exited, Sub(AVAILABLE, p.request),
           [ALLOC EXCEPT ![p.from] = Add(@, p.request)],
           [NEED EXCEPT ![p.from] = Sub(@, p.request)])

(* Mutant of canserve: it is not checked that granting leaves the state    *)
(* safe, only that there is enough.                                        *)
canserveUnsafe(p) == Leq(p.request, AVAILABLE)

canserve(p) == Leq(p.request, AVAILABLE) /\ (Avoid => safetoallocate(p))

(* serverequest: grant the entry at hand and unlink it, ...                *)
Serve ==
    /\ mpc = "serve" /\ at <= Len(Q)
    /\ canserve(Q[at])
    /\ AVAILABLE' = Sub(AVAILABLE, Q[at].request)
    /\ ALLOC' = [ALLOC EXCEPT ![Q[at].from] = Add(@, Q[at].request)]
    /\ NEED' = [NEED EXCEPT ![Q[at].from] = Sub(@, Q[at].request)]
    /\ granted' = Q[at].from
    /\ Q' = RemoveAt(Q, at)
    /\ mpc' = "signal"
    /\ UNCHANGED <<rmtx, cmtx, post, at, exited, tpc, script>>

(* ... then signal its thread under its cmtx, ...                          *)
Signal ==
    /\ mpc = "signal" /\ granted \notin cmtx
    /\ tpc' = [tpc EXCEPT ![granted] = IF @ = "asleep" THEN "delay" ELSE @]
    /\ granted' = Nobody
    /\ mpc' = "serve"
    /\ UNCHANGED <<sTables, rmtx, cmtx, post, Q, at, exited, script>>

(* ... or pass over the entry, ...                                         *)
PassOver ==
    /\ mpc = "serve" /\ at <= Len(Q)
    /\ ~canserve(Q[at])
    /\ at' = at + 1
    /\ UNCHANGED <<sTables, rmtx, cmtx, post, Q, granted, exited, mpc, tpc, script>>

(* ... until the end of the queue.                                         *)
EndServe ==
    /\ mpc = "serve" /\ at > Len(Q)
    /\ mpc' = "receive"
    /\ UNCHANGED <<sTables, rmtx, cmtx, post, Q, at, granted, exited, tpc, script>>

SMaster ==
    /\ (ReceiveRequest \/ SReceiveQuit \/ Serve \/ Signal \/ PassOver \/ EndServe)
    /\ UNCHANGED Avoid

ThreadStep(t) ==
    /\ \/ \E q \in ScriptRequests(held[t], maxNeed[t]) : PostRequest(t, q)
       \/ PostQuit(t) \/ UnlockRmtx(t) \/ SSleep(t)
    /\ UNCHANGED Avoid

SNext == SMaster \/ \E t \in Threads : ThreadStep(t)

SSpec == SInit /\ [][SNext]_sVars

(* Every thread that can run runs; rmtx is handed on in the end, since a   *)
(* script has finitely many lines.                                         *)
Fairness == WF_sVars(SMaster) /\ \A t \in Threads : WF_sVars(ThreadStep(t))

FairSpec == SSpec /\ Fairness

-----------------------------------------------------------------------------
(* Properties *)

SLive == Threads \ exited
QueuedBy(t) == {i \in DOMAIN Q : Q[i].from = t}

(* The shape of the state; no count goes negative or above the total. *)
STypeOK ==
    /\ AVAILABLE \in Counts
    /\ ALLOC \in [Threads -> Counts] /\ NEED \in [Threads -> Counts]
    /\ rmtx \in Threads \cup {Nobody} /\ cmtx \subseteq Threads
    /\ reqfrom \in Threads \cup {Nobody} /\ reqtype \in {"none", "Q", "R"}
    /\ REQ \in [Resources -> -Cap..Cap]
    /\ Q \in Seq([from : Threads, request : Counts])
    /\ at \in 1..(Len(Q) + 1)
    /\ granted \in Threads \cup {Nobody} /\ exited \subseteq Threads
    /\ mpc \in {"receive", "serve", "signal", "exit"}
    /\ tpc \in [Threads -> {"delay", "quitting", "quitAcked", "releasing",
                            "releaseAcked", "asking", "askAcked", "toSleep",
                            "asleep", "done"}]
    /\ held \in [Threads -> Counts] /\ sent \in [Threads -> 0..MaxRequests]

(* Free and allocated resources add up to the total, a thread's allocation *)
(* and need to its claim, and its script to what is booked or on its way.  *)
SConserved ==
    /\ STypeOK
    /\ Work(AVAILABLE, ALLOC, Threads) = Total
    /\ \A t \in SLive :
          /\ Add(ALLOC[t], NEED[t]) = maxNeed[t]
          /\ held[t] = FoldLeft(LAMBDA sum, p : IF p.from = t THEN Add(sum, p.request)
                                               ELSE sum,
                                IF t = reqfrom /\ tpc[t] \in {"asking", "releasing"}
                                THEN Add(ALLOC[t], REQ) ELSE ALLOC[t], Q)

(* One traversal of the queue is enough: at its end nothing is left that   *)
(* could be granted.                                                       *)
NothingGrantableLeft ==
    mpc = "receive" => \A i \in DOMAIN Q : ~canserve(Q[i])

(* Under avoidance the master is a banker.  It has processed a QUIT once   *)
(* it has marked the thread as exited; a thread waits, for the banker,     *)
(* while it is queued.                                                     *)
SBanker == INSTANCE Banker WITH
    available <- AVAILABLE, allocation <- ALLOC, need <- NEED,
    pending <- [t \in Threads |->
                   IF QueuedBy(t) = {} THEN None
                   ELSE Q[CHOOSE i \in DOMAIN Q : Q[i].from = t].request],
    live <- SLive

SImplementsBanker == SBanker!Init /\ [][Avoid => SBanker!Next]_(SBanker!vars)

(* Under avoidance every thread is granted all it asks for and quits, and  *)
(* the session ends.                                                       *)
SessionEnds == Avoid => <>(exited = Threads)
=============================================================================
