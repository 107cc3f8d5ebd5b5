---------------------------- MODULE ServersProofs ----------------------------
(***************************************************************************)
(* What the two HTTP servers of the process keep beside the statistics,    *)
(* for every window, lifetime, limit and number of requests:               *)
(*   the limiter    how many failures slip past it, what lies behind a     *)
(*                  block, and what lifts it;                              *)
(*   the sessions   a token is good for its lifetime and not longer;       *)
(*   the cache      keeps its limit, drops nothing that is valid, and lets *)
(*                  nothing old be dialled;                                *)
(*   the trend      when it answers, it answers in full, and only midnight *)
(*                  within a call loses it.                                *)
(***************************************************************************)
EXTENDS MCServers, FiniteSetTheorems, SequenceTheorems, TLAPS

-----------------------------------------------------------------------------
(* The limiter of the logins. *)

Busy == [pc : Steps \ {"idle"}, client : Clients, stamp : 0 .. MaxStage]

(* The handlers that are past the check of a client and may still count a
   failure against it. *)
Past(c) ==
    {h \in Handlers : login[h].pc \in {"verify", "record"} /\ login[h].client = c}

(* A full count has begun a block, which outlasts the window. *)
BlockOutlasts(c) ==
    failures[c].failures >= LoginMaxFailures =>
        failures[c].age = OldAge \/ failures[c].age + failures[c].left >= LoginBlock - MaxStage

(* What is counted, and what may still be. *)
CountBounded(c) ==
    failures[c].failures + Cardinality(Past(c)) =< LoginMaxFailures - 1 + Cardinality(Handlers)

LoginInv ==
    /\ LoginTypeOK
    /\ \A c \in DOMAIN failures : BlockOutlasts(c) /\ CountBounded(c)

(* Finite sets of handlers. *)
LEMMA HandlersLaw ==
    /\ Cardinality(Handlers) \in Nat
    /\ \A S \in SUBSET Handlers :
         /\ Cardinality(S) \in Nat /\ Cardinality(S) =< Cardinality(Handlers)
         /\ \A T \in SUBSET S : Cardinality(T) =< Cardinality(S)
         /\ \A h \in S : Cardinality(S \ {h}) = Cardinality(S) - 1
<1>1. \A S \in SUBSET Handlers :
        IsFiniteSet(S) /\ Cardinality(S) \in Nat /\ Cardinality(S) =< Cardinality(Handlers)
  BY HandlersAssumption, FS_Subset, FS_CardinalityType
<1>2. ASSUME NEW S \in SUBSET Handlers
      PROVE  /\ \A T \in SUBSET S : Cardinality(T) =< Cardinality(S)
             /\ \A h \in S : Cardinality(S \ {h}) = Cardinality(S) - 1
  BY <1>1, FS_Subset, FS_RemoveElement
<1>3. Cardinality(Handlers) \in Nat
  BY HandlersAssumption, FS_CardinalityType
<1> QED
  BY <1>1, <1>2, <1>3

(* A handler is at rest, or has a client and a reading of the clock. *)
LEMMA LoginLaw ==
    ASSUME LoginTypeOK, NEW h \in Handlers, login[h].pc # "idle"
    PROVE  /\ login[h] \in Busy
           /\ login[h].client \in Clients /\ login[h].stamp \in 0 .. MaxStage
  <1>1. login[h] \in [pc : {"idle"}] \cup Busy
    BY DEF LoginTypeOK, Logins, Busy
  <1>2. login[h] \in Busy
    BY <1>1
  <1> QED
    BY <1>2 DEF Busy

(* What a failure makes of the state of its client. *)
LEMMA OneMoreLaw ==
    ASSUME LoginTypeOK, NEW c \in Clients, NEW s \in 0 .. MaxStage,
           c \in DOMAIN failures => BlockOutlasts(c)
    PROVE  LET new == OneMore(c, s)
           IN  /\ new \in FailureStates
               /\ new.failures >= LoginMaxFailures =>
                    new.age = OldAge \/ new.age + new.left >= LoginBlock - MaxStage
               /\ \/ new.failures = 1
                  \/ c \in DOMAIN failures /\ new.failures = failures[c].failures + 1
               /\ c \in DOMAIN failures /\ ~WindowOver(failures[c], s) =>
                    new.age = failures[c].age /\ new.left \in {failures[c].left, LoginBlock - s}
<1> DEFINE state == CountedIn(c, s)
<1>1. /\ LoginBlock \in Nat /\ LoginWindow \in Nat /\ MaxStage \in Nat /\ s =< MaxStage /\ s >= 0
      /\ s \in Int /\ LoginWindow + MaxStage =< LoginBlock /\ MaxStage < LoginWindow
      /\ LoginMaxFailures \in Nat \ {0}
      /\ OldAge = LoginWindow + MaxStage /\ LongOver = -MaxStage - 1
  BY LimiterAssumption DEF OldAge, LongOver
<1>2. \A d \in DOMAIN failures :
        /\ failures[d] \in FailureStates
        /\ failures[d].age \in 0 .. OldAge /\ failures[d].failures \in Nat
        /\ failures[d].left \in LongOver .. LoginBlock
  BY DEF LoginTypeOK, FailureStates
<1>3. /\ state \in FailureStates
      /\ state.age \in 0 .. OldAge /\ state.failures \in Nat /\ state.left \in LongOver .. LoginBlock
      /\ state.failures = 0 \/ (c \in DOMAIN failures /\ state = failures[c])
      /\ c \in DOMAIN failures /\ ~WindowOver(failures[c], s) => state = failures[c]
  <2>1. Fresh(s) \in FailureStates /\ Fresh(s).failures = 0
    BY <1>1 DEF Fresh, FailureStates
  <2> QED
    BY <1>2, <2>1 DEF CountedIn, FailureStates
<1> HIDE DEF state
<1>4. /\ OneMore(c, s).age = state.age /\ OneMore(c, s).failures = state.failures + 1
      /\ OneMore(c, s).left =
           IF state.failures + 1 >= LoginMaxFailures THEN LoginBlock - s ELSE state.left
      /\ OneMore(c, s) \in FailureStates
  <2> DEFINE left == IF state.failures + 1 >= LoginMaxFailures THEN LoginBlock - s ELSE state.left
  <2>1. left \in LongOver .. LoginBlock /\ state.failures + 1 \in Nat
    BY <1>1, <1>3
  <2>2. OneMore(c, s) = [[state EXCEPT !.failures = @ + 1] EXCEPT !.left = left]
    BY DEF OneMore, state
  <2> HIDE DEF left
  <2>3. /\ OneMore(c, s) \in FailureStates
        /\ OneMore(c, s).age = state.age /\ OneMore(c, s).failures = state.failures + 1
        /\ OneMore(c, s).left = left
    BY <1>3, <2>1, <2>2 DEF FailureStates
  <2> QED
    BY <2>3 DEF left
<1> QED
  BY <1>1, <1>3, <1>4

(* A step that counts nothing and forgets clients, or none: nobody else gets past
   the check of a client whose count is full. *)
LEMMA ShrinkLaw ==
    ASSUME LoginInv, NEW D \in SUBSET DOMAIN failures,
           failures' = [c \in D |-> failures[c]], failed' = [c \in D |-> failed[c]],
           login' \in [Handlers -> Logins],
           \A c \in D : Past(c)' \subseteq Past(c) \/ failures[c].failures < LoginMaxFailures
    PROVE  LoginInv'
<1>1. LoginTypeOK'
  BY DEF LoginInv, LoginTypeOK
<1>2. ASSUME NEW c \in DOMAIN failures'
      PROVE  BlockOutlasts(c)' /\ CountBounded(c)'
  <2>1. c \in D /\ failures'[c] = failures[c] /\ BlockOutlasts(c) /\ CountBounded(c)
    BY DEF LoginInv
  <2>2. /\ Past(c) \in SUBSET Handlers /\ Past(c)' \in SUBSET Handlers
        /\ failures[c].failures \in Nat
    BY <2>1 DEF Past, LoginInv, LoginTypeOK, FailureStates
  <2>3. /\ Cardinality(Past(c)') \in Nat /\ Cardinality(Past(c)') =< Cardinality(Handlers)
        /\ Cardinality(Past(c)) \in Nat /\ Cardinality(Handlers) \in Nat
    BY <2>2, HandlersLaw
  <2>4. CountBounded(c)'
    <3>1. CASE Past(c)' \subseteq Past(c)
      <4>1. Cardinality(Past(c)') =< Cardinality(Past(c))
        BY <2>2, <3>1, HandlersLaw
      <4> QED
        BY <2>1, <2>2, <2>3, <4>1, LimiterAssumption DEF CountBounded
    <3>2. CASE failures[c].failures < LoginMaxFailures
      BY <2>1, <2>2, <2>3, <3>2, LimiterAssumption DEF CountBounded
    <3> QED
      BY <2>1, <3>1, <3>2
  <2> QED
    BY <2>1, <2>4 DEF BlockOutlasts
<1> QED
  BY <1>1, <1>2 DEF LoginInv

(* The limiter admits a client it knows only while the count is not full: a full
   count is behind a block, or is forgotten. *)
LEMMA AdmittedLaw ==
    ASSUME LoginInv, NEW h \in Handlers, Admitted(h)
    PROVE  LoginInv'
<1>1. PICK c \in Clients, s \in 0 .. MaxStage : c = login[h].client /\ s = login[h].stamp
  BY LoginLaw DEF Admitted, At, LoginInv
<1>2. login' \in [Handlers -> Logins] /\ \A d \in Clients \ {c} : Past(d)' \subseteq Past(d)
  <2>1. [pc |-> "verify", client |-> c, stamp |-> 0] \in Logins
    BY <1>1, LimiterAssumption DEF Logins, Steps
  <2>2. login' = [login EXCEPT ![h] = [pc |-> "verify", client |-> c, stamp |-> 0]]
    BY <1>1 DEF Admitted, Goto
  <2>3. login' \in [Handlers -> Logins]
    BY <2>1, <2>2 DEF LoginInv, LoginTypeOK
  <2> QED
    BY <2>2, <2>3 DEF Past, LoginInv, LoginTypeOK
<1>3. DOMAIN failures \subseteq Clients /\ failures = [d \in DOMAIN failures |-> failures[d]]
      /\ failed = [d \in DOMAIN failures |-> failed[d]]
  BY DEF LoginInv, LoginTypeOK
<1>4. CASE c \in DOMAIN failures /\ WindowOver(failures[c], s)
  <2> DEFINE D == DOMAIN failures \ {c}
  <2>1. failures' = [d \in D |-> failures[d]] /\ failed' = [d \in D |-> failed[d]]
    BY <1>1, <1>3, <1>4 DEF Admitted, Forget, Restrict
  <2> QED
    BY <1>2, <1>3, <2>1, ShrinkLaw
<1>5. CASE ~(c \in DOMAIN failures /\ WindowOver(failures[c], s))
  <2>1. UNCHANGED <<failures, failed>>
    BY <1>1, <1>5 DEF Admitted
  <2>2. c \in DOMAIN failures => failures[c].failures < LoginMaxFailures
    <3> SUFFICES ASSUME c \in DOMAIN failures, ~(failures[c].failures < LoginMaxFailures)
                 PROVE  FALSE
      OBVIOUS
    <3> DEFINE age == failures[c].age
               left == failures[c].left
    <3>1. /\ age \in 0 .. OldAge /\ left \in LongOver .. LoginBlock /\ failures[c].failures \in Nat
          /\ age = OldAge \/ age + left >= LoginBlock - MaxStage
      <4>1. failures[c] \in FailureStates /\ BlockOutlasts(c)
        BY DEF LoginInv, LoginTypeOK
      <4> QED
        BY <4>1, LimiterAssumption DEF FailureStates, BlockOutlasts
    <3>2. ~(left > -s) /\ ~(age - s >= LoginWindow)
      BY <1>1, <1>5 DEF Admitted, BlockedAt, WindowOver
    <3> HIDE DEF age, left
    <3> QED
      BY <1>1, <3>1, <3>2, LimiterAssumption DEF OldAge, LongOver
  <2> QED
    BY <1>2, <1>3, <2>1, <2>2, ShrinkLaw
<1> QED
  BY <1>4, <1>5

(* A failure moves its handler from those that may count to what is counted. *)
LEMMA FailureLaw ==
    ASSUME LoginInv, NEW h \in Handlers, RecordFailure(h)
    PROVE  LoginInv'
<1>1. PICK c \in Clients, s \in 0 .. MaxStage :
        c = login[h].client /\ s = login[h].stamp /\ h \in Past(c)
  BY LoginLaw DEF RecordFailure, At, LoginInv, Past
<1> DEFINE new == OneMore(c, s)
           updated == [x \in DOMAIN failures \cup {c} |-> IF x = c THEN new ELSE failures[x]]
           K == Kept(updated, s)
           before == IF c \in DOMAIN failures THEN failed[c] ELSE <<>>
<1>2. /\ new \in FailureStates
      /\ new.failures >= LoginMaxFailures =>
           new.age = OldAge \/ new.age + new.left >= LoginBlock - MaxStage
      /\ new.failures = 1 \/ (c \in DOMAIN failures /\ new.failures = failures[c].failures + 1)
  BY <1>1, OneMoreLaw DEF LoginInv
<1>3. /\ failures' = [x \in K |-> updated[x]]
      /\ failed' = [x \in K |-> IF x = c THEN LastFailures(Append(before, s)) ELSE failed[x]]
      /\ login' = [login EXCEPT ![h] = AtRest]
  BY <1>1 DEF RecordFailure, Restrict, Finish
<1>4. K \subseteq DOMAIN failures \cup {c}
  BY DEF Kept
<1>5. /\ DOMAIN failures \subseteq Clients
      /\ \A x \in DOMAIN failures : failures[x] \in FailureStates /\ failed[x] \in Seq(Nat)
  BY DEF LoginInv, LoginTypeOK
<1>6. LastFailures(Append(before, s)) \in Seq(Nat)
  <2>1. before \in Seq(Nat) /\ s \in Nat
    BY <1>1, <1>5, LimiterAssumption
  <2> HIDE DEF before
  <2>2. Append(before, s) \in Seq(Nat) /\ Append(before, s) # <<>>
    BY <2>1
  <2> QED
    BY <2>2 DEF LastFailures
<1> HIDE DEF before, K
<1>7. \A x \in K : failures'[x] = IF x = c THEN new ELSE failures[x]
  BY <1>3, <1>4
<1> HIDE DEF new
<1>8. LoginTypeOK'
  <2>1. login' \in [Handlers -> Logins]
    BY <1>3 DEF AtRest, Logins, LoginInv, LoginTypeOK
  <2>2. DOMAIN failures' = K /\ K \subseteq Clients /\ DOMAIN failed' = K
    BY <1>1, <1>3, <1>4, <1>5
  <2>3. \A x \in K : failures'[x] \in FailureStates
    BY <1>2, <1>4, <1>5, <1>7
  <2>4. failures' \in [K -> FailureStates]
    BY <1>3, <2>3
  <2>5. failed' \in [K -> Seq(Nat)]
    BY <1>3, <1>4, <1>5, <1>6
  <2> QED
    BY <2>1, <2>2, <2>4, <2>5 DEF LoginTypeOK
<1>9. /\ Past(c)' = Past(c) \ {h}
      /\ \A x \in Clients \ {c} : Past(x)' = Past(x)
  BY <1>1, <1>3 DEF Past, AtRest, LoginInv, LoginTypeOK
<1>10. ASSUME NEW x \in K
       PROVE  BlockOutlasts(x)' /\ CountBounded(x)'
  <2>1. CASE x = c
    <3>1. failures'[c] = new
      BY <1>7, <2>1
    <3>2. Past(c) \in SUBSET Handlers
      BY DEF Past
    <3>3. /\ Cardinality(Past(c)') = Cardinality(Past(c)) - 1
          /\ Cardinality(Past(c)) \in Nat /\ Cardinality(Handlers) \in Nat
          /\ Cardinality(Past(c)) =< Cardinality(Handlers)
      BY <1>1, <1>9, <3>2, HandlersLaw
    <3>4. c \in DOMAIN failures =>
            /\ failures[c].failures \in Nat
            /\ failures[c].failures + Cardinality(Past(c)) =< LoginMaxFailures - 1 + Cardinality(Handlers)
      BY <1>5 DEF LoginInv, CountBounded, FailureStates
    <3>5. BlockOutlasts(c)'
      BY <1>2, <3>1 DEF BlockOutlasts
    <3>6. CountBounded(c)'
      BY <1>2, <3>1, <3>3, <3>4, LimiterAssumption DEF CountBounded
    <3> QED
      BY <2>1, <3>5, <3>6
  <2>2. CASE x # c
    <3>1. x \in DOMAIN failures /\ x \in Clients /\ failures'[x] = failures[x] /\ Past(x)' = Past(x)
      BY <1>4, <1>5, <1>7, <1>9, <2>2
    <3> QED
      BY <3>1 DEF BlockOutlasts, CountBounded, LoginInv
  <2> QED
    BY <2>1, <2>2
<1> QED
  BY <1>3, <1>8, <1>10 DEF LoginInv

(* Time moves neither a handler nor a count, and a full count stays behind its
   block until its window is over. *)
LEMMA TickLaw ==
    ASSUME LoginInv, Tick
    PROVE  LoginInv'
<1>0. /\ LoginBlock \in Nat /\ LoginWindow \in Nat /\ MaxStage \in Nat /\ OldAge \in Nat
      /\ OldAge = LoginWindow + MaxStage /\ LongOver = -MaxStage - 1
      /\ LoginWindow + MaxStage =< LoginBlock
  BY LimiterAssumption DEF OldAge, LongOver
<1>1. ASSUME NEW h \in Handlers
      PROVE  /\ login'[h] \in Logins /\ login'[h].pc = login[h].pc
             /\ login[h].pc # "idle" => login'[h].client = login[h].client
  <2>1. CASE login[h].pc = "idle"
    <3>1. login'[h] = login[h]
      BY <2>1 DEF Tick, At
    <3> QED
      BY <3>1 DEF LoginInv, LoginTypeOK
  <2>2. CASE login[h].pc # "idle"
    <3>1. login'[h] = [login[h] EXCEPT !.stamp = @ + 1] /\ login[h].stamp < MaxStage
      BY <2>2 DEF Tick, At
    <3>2. login[h] \in Busy /\ login[h].stamp \in 0 .. MaxStage
      BY <2>2, LoginLaw DEF LoginInv
    <3>3. login[h].stamp + 1 \in 0 .. MaxStage
      BY <1>0, <3>1, <3>2
    <3>4. login'[h] \in Busy /\ login'[h].pc = login[h].pc /\ login'[h].client = login[h].client
      BY <3>1, <3>2, <3>3 DEF Busy
    <3> QED
      BY <3>4 DEF Busy, Logins
  <2> QED
    BY <2>1, <2>2
<1>2. ASSUME NEW c \in DOMAIN failures
      PROVE  /\ failures'[c] \in FailureStates /\ failures'[c].failures = failures[c].failures
             /\ BlockOutlasts(c)'
  <2> DEFINE age == Least(failures[c].age + 1, OldAge)
             left == Most(failures[c].left - 1, LongOver)
  <2>1. /\ failures[c] \in FailureStates /\ failures[c].failures \in Nat
        /\ failures[c].age \in 0 .. OldAge /\ failures[c].left \in LongOver .. LoginBlock
        /\ BlockOutlasts(c)
    BY DEF LoginInv, LoginTypeOK, FailureStates
  <2>2. failures'[c] = [[failures[c] EXCEPT !.age = age] EXCEPT !.left = left]
    BY DEF Tick
  <2>3. /\ age \in 0 .. OldAge /\ left \in LongOver .. LoginBlock
        /\ age = OldAge \/ age = failures[c].age + 1
        /\ left >= failures[c].left - 1
    BY <1>0, <2>1 DEF Least, Most
  <2> HIDE DEF age, left
  <2>4. /\ failures'[c] \in FailureStates /\ failures'[c].failures = failures[c].failures
        /\ failures'[c].age = age /\ failures'[c].left = left
    BY <2>1, <2>2, <2>3 DEF FailureStates
  <2>5. failures[c].age = OldAge => age = OldAge
    BY <1>0, <2>1, <2>3
  <2>6. failures[c].age + failures[c].left >= LoginBlock - MaxStage =>
          age = OldAge \/ age + left >= LoginBlock - MaxStage
    BY <1>0, <2>1, <2>3
  <2> QED
    BY <2>1, <2>4, <2>5, <2>6 DEF BlockOutlasts
<1>3. ASSUME NEW c \in DOMAIN failures
      PROVE  failed'[c] \in Seq(Nat)
  <2> DEFINE f == [i \in DOMAIN failed[c] |-> Least(failed[c][i] + 1, LoginBlock + OldAge + MaxStage)]
  <2>1. PICK n \in Nat : failed[c] \in [1 .. n -> Nat]
    BY SeqDef DEF LoginInv, LoginTypeOK
  <2>2. f \in [1 .. n -> Nat]
    BY <1>0, <2>1 DEF Least
  <2>3. failed'[c] = f
    BY DEF Tick, LoginInv, LoginTypeOK
  <2> QED
    BY <2>2, <2>3, SeqDef
<1>4. /\ DOMAIN failures' = DOMAIN failures /\ DOMAIN failed' = DOMAIN failures
      /\ failures' = [c \in DOMAIN failures |-> failures'[c]]
      /\ failed' = [c \in DOMAIN failures |-> failed'[c]]
      /\ login' = [h \in Handlers |-> login'[h]]
  BY DEF Tick, LoginInv, LoginTypeOK
<1>5. LoginTypeOK'
  <2>1. login' \in [Handlers -> Logins]
    BY <1>1, <1>4
  <2>2. failures' \in [DOMAIN failures -> FailureStates] /\ failed' \in [DOMAIN failures -> Seq(Nat)]
    BY <1>2, <1>3, <1>4
  <2> QED
    BY <1>4, <2>1, <2>2 DEF LoginInv, LoginTypeOK
<1>6. ASSUME NEW c \in DOMAIN failures
      PROVE  CountBounded(c)'
  <2>1. Past(c)' = Past(c)
    BY <1>1 DEF Past
  <2> QED
    BY <1>2, <2>1 DEF CountBounded, LoginInv
<1> QED
  BY <1>2, <1>4, <1>5, <1>6 DEF LoginInv

-----------------------------------------------------------------------------
(* Every step of the logins keeps the count within what is at the door. *)
LEMMA LoginSafety == LoginInit /\ [][LoginNext]_loginVars => []LoginInv
<1>1. LoginInit => LoginInv
  BY DEF LoginInit, NoFailures, AtRest, LoginInv, LoginTypeOK, Logins
<1>2. LoginInv /\ [LoginNext]_loginVars => LoginInv'
  <2> SUFFICES ASSUME LoginInv, [LoginNext]_loginVars
               PROVE  LoginInv'
    OBVIOUS
  <2>0. /\ failures = [c \in DOMAIN failures |-> failures[c]]
        /\ failed = [c \in DOMAIN failures |-> failed[c]]
        /\ login \in [Handlers -> Logins] /\ DOMAIN failures \subseteq Clients
    BY DEF LoginInv, LoginTypeOK
  <2>1. ASSUME UNCHANGED <<failures, failed>>, login' \in [Handlers -> Logins],
               \A c \in Clients : Past(c)' \subseteq Past(c)
        PROVE  LoginInv'
    BY <2>0, <2>1, ShrinkLaw
  <2>2. ASSUME NEW h \in Handlers, NEW c \in Clients, Arrive(h, c)
        PROVE  LoginInv'
    <3>1. [pc |-> "check", client |-> c, stamp |-> 0] \in Logins
      BY LimiterAssumption DEF Logins, Steps
    <3>2. login' \in [Handlers -> Logins]
      BY <2>0, <2>2, <3>1 DEF Arrive
    <3>3. \A d \in Clients : Past(d)' \subseteq Past(d)
      BY <2>0, <2>2 DEF Arrive, Past
    <3> QED
      BY <2>1, <2>2, <3>2, <3>3 DEF Arrive
  <2>3. ASSUME NEW h \in Handlers, Denied(h) \/ BadRequest(h)
        PROVE  LoginInv'
    <3>1. login' = [login EXCEPT ![h] = AtRest] /\ UNCHANGED <<failures, failed>>
      BY <2>3 DEF Denied, BadRequest, Finish
    <3>2. login' \in [Handlers -> Logins]
      BY <2>0, <3>1 DEF AtRest, Logins
    <3>3. \A d \in Clients : Past(d)' \subseteq Past(d)
      BY <2>0, <3>1 DEF AtRest, Past
    <3> QED
      BY <2>1, <3>1, <3>2, <3>3
  <2>4. ASSUME NEW h \in Handlers, Verify(h)
        PROVE  LoginInv'
    <3>1. PICK c \in Clients, step \in {"record", "reset"} :
            /\ login[h].pc = "verify" /\ c = login[h].client
            /\ login' = [login EXCEPT ![h] = [pc |-> step, client |-> c, stamp |-> 0]]
      BY <2>4, LoginLaw DEF Verify, At, Goto, LoginInv
    <3>2. [pc |-> step, client |-> c, stamp |-> 0] \in Logins
      BY LimiterAssumption DEF Logins, Steps
    <3>3. login' \in [Handlers -> Logins]
      BY <2>0, <3>1, <3>2
    <3>4. \A d \in Clients : Past(d)' \subseteq Past(d)
      BY <2>0, <3>1 DEF Past
    <3> QED
      BY <2>1, <2>4, <3>3, <3>4 DEF Verify
  <2>5. ASSUME NEW h \in Handlers, Reset(h)
        PROVE  LoginInv'
    <3>1. login' = [login EXCEPT ![h] = AtRest]
      BY <2>5 DEF Reset, Finish
    <3>2. login' \in [Handlers -> Logins]
      BY <2>0, <3>1 DEF AtRest, Logins
    <3>3. \A d \in Clients : Past(d)' \subseteq Past(d)
      BY <2>0, <3>1 DEF AtRest, Past
    <3>4. PICK D \in SUBSET DOMAIN failures :
            failures' = [c \in D |-> failures[c]] /\ failed' = [c \in D |-> failed[c]]
      BY <2>5, <2>0 DEF Reset, Forget, Restrict
    <3> QED
      BY <2>0, <3>2, <3>3, <3>4, ShrinkLaw
  <2>6. CASE LimiterRestart
    BY <2>6 DEF LimiterRestart, NoFailures, AtRest, LoginInv, LoginTypeOK, Logins
  <2>7. CASE Tick
    BY <2>7, TickLaw
  <2>8. CASE UNCHANGED loginVars
    BY <2>0, <2>1, <2>8 DEF loginVars, Past
  <2> QED
    BY <2>2, <2>3, <2>4, <2>5, <2>6, <2>7, <2>8, AdmittedLaw, FailureLaw
       DEF LoginNext, HandleLogin
<1> QED
  BY <1>1, <1>2, PTL

(* The invariant of the limiter: no count outgrows what was at the door, and a
   full count has begun a block that outlasts its window. *)
THEOREM LoginInvariant == LoginSpec => []LoginInv
<1>1. LoginSpec => LoginInit /\ [][LoginNext]_loginVars
  BY PTL DEF LoginSpec
<1> QED
  BY <1>1, LoginSafety, PTL

(* Every variable of the limiter keeps its type. *)
THEOREM LoginTypes == LoginSpec => []LoginTypeOK
BY LoginInvariant, PTL DEF LoginInv

(* However many logins are in flight together, the failures counted against a
   client in a window stay below the limit and the number of handlers. *)
THEOREM FailuresStayBounded == LoginSpec => []FailuresBounded
<1>1. LoginInv => FailuresBounded
  <2> SUFFICES ASSUME LoginInv, NEW c \in DOMAIN failures
               PROVE  failures[c].failures =< LoginMaxFailures - 1 + Cardinality(Handlers)
    BY DEF FailuresBounded
  <2>1. Past(c) \in SUBSET Handlers /\ failures[c].failures \in Nat /\ CountBounded(c)
    BY DEF Past, LoginInv, LoginTypeOK, FailureStates
  <2>2. Cardinality(Past(c)) \in Nat /\ Cardinality(Handlers) \in Nat
    BY <2>1, HandlersLaw
  <2> QED
    BY <2>1, <2>2, LimiterAssumption DEF CountBounded
<1> QED
  BY <1>1, LoginInvariant, PTL

(* A block is lifted by time, by a restart, or by what its own client had in
   flight; the sweep of a full map, which another client brings about, leaves it. *)
THEOREM BlocksEndForCause == LoginSpec => BlockEndsForCause
<1> DEFINE Cause(c) ==
             \E h \in Handlers : ~At(h, "idle") /\ login[h].client = c /\
               \/ Reset(h)
               \/ RecordFailure(h) /\ WindowOver(failures[c], login[h].stamp)
           Law == \A c \in Clients : Blocked(c) /\ ~Blocked(c)' =>
                    \/ Tick \/ LimiterRestart
                    \/ \E h \in Handlers : ~At(h, "idle") /\ login[h].client = c /\
                         \/ Reset(h)
                         \/ RecordFailure(h) /\ WindowOver(failures[c], login[h].stamp)
<1>1. LoginInv /\ [LoginNext]_loginVars => [Law]_loginVars
  <2> SUFFICES ASSUME LoginInv, LoginNext, NEW c \in Clients, Blocked(c), ~Blocked(c)'
               PROVE  (Tick \/ LimiterRestart) \/ Cause(c)
    OBVIOUS
  <2>0. c \in DOMAIN failures /\ failures[c] \in FailureStates
        /\ failures[c].left \in LongOver .. LoginBlock /\ failures[c].left > 0
    BY DEF Blocked, LoginInv, LoginTypeOK, FailureStates
  <2>1. ASSUME c \in DOMAIN failures', failures'[c].left > 0
        PROVE  FALSE
    BY <2>1 DEF Blocked
  <2>2. failures' # failures
    BY <2>0, <2>1
  <2>3. ASSUME NEW h \in Handlers, Admitted(h) \/ RecordFailure(h) \/ Reset(h)
        PROVE  Cause(c)
    <3>1. PICK d \in Clients, s \in 0 .. MaxStage : d = login[h].client /\ s = login[h].stamp
      BY <2>3, LoginLaw DEF Admitted, RecordFailure, Reset, At, LoginInv
    <3>2. s \in Int /\ s >= 0 /\ LoginBlock - s > 0
      BY LimiterAssumption
    <3>3. CASE Admitted(h)
      <4>1. failures' = Restrict(failures, DOMAIN failures \ {d}) /\ d \in DOMAIN failures
        BY <2>2, <3>1, <3>3 DEF Admitted, Forget
      <4>2. ~(failures[d].left > -s)
        BY <3>1, <3>3, <4>1 DEF Admitted, BlockedAt
      <4>3. d # c
        BY <2>0, <3>2, <4>2 DEF LongOver
      <4>4. c \in DOMAIN failures' /\ failures'[c] = failures[c]
        BY <2>0, <4>1, <4>3 DEF Restrict
      <4> QED
        BY <2>0, <2>1, <4>4
    <3>4. CASE Reset(h)
      <4>1. CASE d = c
        BY <3>1, <3>4, <4>1 DEF Reset, At
      <4>2. CASE d # c
        <5>1. c \in DOMAIN failures' /\ failures'[c] = failures[c]
          BY <2>0, <3>1, <3>4, <4>2 DEF Reset, Forget, Restrict
        <5> QED
          BY <2>0, <2>1, <5>1
      <4> QED
        BY <4>1, <4>2
    <3>5. CASE RecordFailure(h)
      <4> DEFINE updated == [x \in DOMAIN failures \cup {d} |->
                               IF x = d THEN OneMore(d, s) ELSE failures[x]]
      <4>1. /\ At(h, "record")
            /\ failures' = [x \in Kept(updated, s) |-> updated[x]]
        BY <3>1, <3>5 DEF RecordFailure, Restrict
      <4>2. SUFFICES ASSUME d = c => ~WindowOver(failures[c], s)
                     PROVE  c \in DOMAIN failures' /\ failures'[c].left > 0
        BY <2>1, <3>1, <3>5, <4>1 DEF At
      <4>3. /\ updated[c].left > 0 /\ updated[c].left \in Int
            /\ ~(WindowOver(updated[c], s) /\ BlockOver(updated[c], s))
        <5>1. CASE d = c
          <6>1. /\ OneMore(c, s).age = failures[c].age
                /\ OneMore(c, s).left \in {failures[c].left, LoginBlock - s}
            BY <2>0, <4>2, <5>1, OneMoreLaw DEF LoginInv
          <6>2. updated[c] = OneMore(c, s)
            BY <5>1
          <6> QED
            BY <2>0, <3>2, <4>2, <5>1, <6>1, <6>2, LimiterAssumption DEF WindowOver, LongOver
        <5>2. CASE d # c
          <6>1. updated[c] = failures[c]
            BY <2>0, <5>2
          <6> QED
            BY <2>0, <3>2, <6>1, LimiterAssumption DEF BlockOver, LongOver
        <5> QED
          BY <5>1, <5>2
      <4>4. c \in Kept(updated, s)
        BY <2>0, <4>3 DEF Kept
      <4> QED
        BY <4>1, <4>3, <4>4
    <3> QED
      BY <2>3, <3>3, <3>4, <3>5
  <2> QED
    BY <2>2, <2>3 DEF LoginNext, HandleLogin, Arrive, Denied, BadRequest, Verify
<1> QED
  BY <1>1, LoginInvariant, PTL DEF LoginSpec, BlockEndsForCause

(* The failures behind a count: the latest of those that are remembered, as many
   as were counted, belong to the window that is open. *)
WindowKnown(c) ==
    /\ failures[c].failures > 0
    /\ Len(failed[c]) =< LoginMaxFailures
    /\ Len(failed[c]) >= failures[c].failures \/ Len(failed[c]) = LoginMaxFailures
    /\ failures[c].age < OldAge =>
         \A i \in DOMAIN failed[c] : i > Len(failed[c]) - failures[c].failures =>
            /\ failures[c].age - failed[c][i] < LoginWindow
            /\ failed[c][i] - failures[c].age =< MaxStage

(* Behind a block that is not long over is a full count, whose last failure
   began it. *)
BlockKnown(c) ==
    failures[c].left > LongOver =>
        /\ failures[c].failures >= LoginMaxFailures
        /\ failed[c][Len(failed[c])] = LoginBlock - failures[c].left
        /\ \A i, j \in DOMAIN failed[c] : failed[c][i] - failed[c][j] < LoginWindow + MaxStage

CauseInv == \A c \in DOMAIN failures : WindowKnown(c) /\ BlockKnown(c)

(* The latest of f and s, as many as the limit at most. *)
Appended(f, s, g) ==
    /\ g \in Seq(Nat) /\ Len(g) > 0 /\ Len(g) =< LoginMaxFailures
    /\ Len(g) = Len(f) + 1 \/ Len(g) = LoginMaxFailures
    /\ g[Len(g)] = s
    /\ \A i \in 1 .. Len(g) - 1 : \E j \in 1 .. Len(f) :
         j = i + (Len(f) + 1 - Len(g)) /\ g[i] = f[j]

(* What is remembered once another failure was appended. *)
LEMMA LastLaw ==
    ASSUME NEW f \in Seq(Nat), NEW s \in Nat, Len(f) =< LoginMaxFailures,
           NEW g, g = LastFailures(Append(f, s))
    PROVE  Appended(f, s, g)
<1> DEFINE a == Append(f, s)
<1>1. /\ a \in Seq(Nat) /\ Len(a) = Len(f) + 1 /\ a[Len(a)] = s
      /\ \A i \in 1 .. Len(f) : a[i] = f[i]
      /\ Len(f) \in Nat /\ LoginMaxFailures \in Nat /\ LoginMaxFailures > 0
  BY LimiterAssumption
<1> HIDE DEF a
<1>2. CASE Len(a) > LoginMaxFailures
  <2>1. LastFailures(a) = Tail(a) /\ a # <<>>
    BY <1>1, <1>2 DEF LastFailures
  <2>2. /\ Tail(a) \in Seq(Nat) /\ Len(Tail(a)) = Len(a) - 1
        /\ \A i \in 1 .. Len(a) - 1 : Tail(a)[i] = a[i + 1]
    BY <1>1, <2>1
  <2>3. Len(a) - 1 = LoginMaxFailures /\ Len(f) = LoginMaxFailures
    BY <1>1, <1>2
  <2>4. Tail(a)[Len(a) - 1] = s
    BY <1>1, <2>2, <2>3
  <2>5. \A i \in 1 .. Len(f) - 1 : i + 1 \in 1 .. Len(f) /\ Tail(a)[i] = f[i + 1]
    BY <1>1, <2>2
  <2>6. ASSUME NEW i \in 1 .. LoginMaxFailures - 1
        PROVE  \E j \in 1 .. Len(f) :
                 j = i + (Len(f) + 1 - LoginMaxFailures) /\ Tail(a)[i] = f[j]
    <3>1. i + 1 \in 1 .. Len(f) /\ Tail(a)[i] = f[i + 1]
      BY <2>3, <2>5
    <3>2. i + 1 = i + (Len(f) + 1 - LoginMaxFailures)
      BY <1>1, <2>3
    <3> QED BY <3>1, <3>2
  <2>7. Len(Tail(a)) = LoginMaxFailures
    BY <2>2, <2>3
  <2>8. Tail(a) \in Seq(Nat) /\ Tail(a)[LoginMaxFailures] = s
    BY <2>2, <2>3, <2>4
  <2>9. g = Tail(a)
    BY <2>1 DEF a
  <2>10. \A i \in 1 .. Len(g) - 1 : \E j \in 1 .. Len(f) :
           j = i + (Len(f) + 1 - Len(g)) /\ g[i] = f[j]
    BY <2>6, <2>7, <2>9
  <2>11. Len(g) = LoginMaxFailures /\ g \in Seq(Nat) /\ g[Len(g)] = s
    BY <2>7, <2>8, <2>9
  <2>12. Len(g) > 0 /\ Len(g) =< LoginMaxFailures
    <3>1. LoginMaxFailures \in Nat /\ LoginMaxFailures > 0
      BY <1>1
    <3> QED BY <2>11, <3>1
  <2> QED BY <2>10, <2>11, <2>12 DEF Appended
<1>3. CASE ~(Len(a) > LoginMaxFailures)
  <2>1. g = a
    BY <1>3 DEF LastFailures, a
  <2>2. Len(g) \in Nat /\ Len(g) = Len(f) + 1 /\ Len(g) =< LoginMaxFailures
    BY <1>1, <1>3, <2>1
  <2>3. ASSUME NEW i \in 1 .. Len(g) - 1
        PROVE  i \in 1 .. Len(f) /\ i = i + (Len(f) + 1 - Len(g)) /\ g[i] = f[i]
    <3>1. i \in 1 .. Len(f) /\ i = i + (Len(f) + 1 - Len(g))
      BY <1>1, <2>2
    <3> QED BY <1>1, <2>1, <3>1
  <2>4. g \in Seq(Nat) /\ g[Len(g)] = s /\ Len(g) > 0
    BY <1>1, <2>1
  <2> QED BY <2>2, <2>3, <2>4 DEF Appended
<1> QED BY <1>2, <1>3

(* What a failure adds to: the open window of its client, or a new one. *)
LEMMA CountLaw ==
    ASSUME LoginTypeOK, NEW c \in Clients, NEW s \in 0 .. MaxStage
    PROVE  LET new == OneMore(c, s)
           IN  \/ /\ c \in DOMAIN failures /\ ~WindowOver(failures[c], s)
                  /\ new.age = failures[c].age /\ new.failures = failures[c].failures + 1
                  /\ new.left = IF failures[c].failures + 1 >= LoginMaxFailures
                                THEN LoginBlock - s ELSE failures[c].left
               \/ /\ new.age = s /\ new.failures = 1
                  /\ new.left = IF 1 >= LoginMaxFailures THEN LoginBlock - s ELSE LongOver
<1>1. \A state \in [age : Int, failures : Int, left : Int] : \A l \in Int :
        LET new == [state EXCEPT !.failures = @ + 1, !.left = l]
        IN  new.age = state.age /\ new.failures = state.failures + 1 /\ new.left = l
  OBVIOUS
<1>2. LoginBlock \in Int /\ s \in Int /\ LongOver \in Int
  BY LimiterAssumption DEF LongOver
<1>3. CASE c \in DOMAIN failures /\ ~WindowOver(failures[c], s)
  <2>1. CountedIn(c, s) = failures[c]
    BY <1>3 DEF CountedIn
  <2>2. failures[c] \in FailureStates
    BY <1>3 DEF LoginTypeOK
  <2>3. failures[c] \in [age : Int, failures : Int, left : Int]
    BY <2>2 DEF FailureStates
  <2>4. OneMore(c, s) = [failures[c] EXCEPT !.failures = @ + 1,
                           !.left = IF failures[c].failures + 1 >= LoginMaxFailures
                                    THEN LoginBlock - s ELSE failures[c].left]
    BY <2>1, <2>3 DEF OneMore
  <2>5. failures[c].left \in Int /\ LoginBlock - s \in Int
    BY <1>2, <2>3
  <2> QED BY <1>1, <1>3, <2>3, <2>4, <2>5
<1>4. CASE ~(c \in DOMAIN failures /\ ~WindowOver(failures[c], s))
  <2>1. CountedIn(c, s) = Fresh(s)
    BY <1>4 DEF CountedIn
  <2>2. /\ Fresh(s) \in [age : Int, failures : Int, left : Int]
        /\ Fresh(s).age = s /\ Fresh(s).failures = 0 /\ Fresh(s).left = LongOver
    BY <1>2 DEF Fresh
  <2>3. OneMore(c, s) = [Fresh(s) EXCEPT !.failures = @ + 1,
                           !.left = IF 1 >= LoginMaxFailures THEN LoginBlock - s ELSE LongOver]
    BY <2>1, <2>2 DEF OneMore
  <2>4. LoginBlock - s \in Int
    BY <1>2
  <2> QED BY <1>1, <1>2, <2>2, <2>3, <2>4
<1> QED BY <1>3, <1>4

(* A failure that is counted, and remembered. *)
LEMMA CauseFailure ==
    ASSUME LoginInv, CauseInv, NEW h \in Handlers, RecordFailure(h)
    PROVE  CauseInv'
<1>1. PICK c \in Clients, s \in 0 .. MaxStage : c = login[h].client /\ s = login[h].stamp
  BY LoginLaw DEF RecordFailure, At, LoginInv
<1> DEFINE new == OneMore(c, s)
           updated == [x \in DOMAIN failures \cup {c} |-> IF x = c THEN new ELSE failures[x]]
           K == Kept(updated, s)
           f == IF c \in DOMAIN failures THEN failed[c] ELSE <<>>
           g == LastFailures(Append(f, s))
<1>2. /\ failures' = [x \in K |-> updated[x]]
      /\ failed' = [x \in K |-> IF x = c THEN g ELSE failed[x]]
      /\ K \subseteq DOMAIN failures \cup {c}
  BY <1>1 DEF RecordFailure, Restrict, Kept
<1> HIDE DEF K
<1>3. \A x \in K : failures'[x] = (IF x = c THEN new ELSE failures[x])
                   /\ failed'[x] = (IF x = c THEN g ELSE failed[x])
  BY <1>2
<1>4. ASSUME NEW x \in K, x # c
      PROVE  WindowKnown(x)' /\ BlockKnown(x)'
  <2>1. x \in DOMAIN failures /\ failures'[x] = failures[x] /\ failed'[x] = failed[x]
    BY <1>2, <1>3, <1>4
  <2> QED BY <2>1 DEF CauseInv, WindowKnown, BlockKnown
<1>5. /\ LoginBlock \in Nat /\ LoginWindow \in Nat /\ MaxStage \in Nat
      /\ s \in Nat /\ s =< MaxStage /\ LoginWindow > 0
      /\ LoginMaxFailures \in Nat /\ LoginMaxFailures > 0
      /\ OldAge = LoginWindow + MaxStage /\ LongOver = -MaxStage - 1
  BY LimiterAssumption DEF OldAge, LongOver
<1>6. /\ f \in Seq(Nat) /\ Len(f) \in Nat /\ Len(f) =< LoginMaxFailures
      /\ c \in DOMAIN failures =>
           /\ f = failed[c] /\ WindowKnown(c) /\ BlockKnown(c)
           /\ failures[c].age \in Nat /\ failures[c].failures \in Nat /\ failures[c].left \in Int
           /\ failures[c].left >= LongOver
  <2>1. CASE c \in DOMAIN failures
    <3>1. failures[c] \in FailureStates /\ failed[c] \in Seq(Nat)
      BY <2>1 DEF LoginInv, LoginTypeOK
    <3>2. failures[c].age \in Nat /\ failures[c].failures \in Nat /\ failures[c].left \in Int
          /\ failures[c].left >= LongOver
      BY <1>5, <3>1 DEF FailureStates
    <3>3. WindowKnown(c) /\ BlockKnown(c)
      BY <2>1 DEF CauseInv
    <3> QED BY <2>1, <3>1, <3>2, <3>3 DEF WindowKnown
  <2>2. CASE c \notin DOMAIN failures
    BY <1>5, <2>2
  <2> QED BY <2>1, <2>2
<1>7. /\ g \in Seq(Nat) /\ Len(g) > 0 /\ Len(g) =< LoginMaxFailures
      /\ Len(g) = Len(f) + 1 \/ Len(g) = LoginMaxFailures
      /\ g[Len(g)] = s
      /\ \A i \in 1 .. Len(g) - 1 : \E j \in 1 .. Len(f) :
           j = i + (Len(f) + 1 - Len(g)) /\ g[i] = f[j]
  <2>1. g = LastFailures(Append(f, s))
    OBVIOUS
  <2>2. f \in Seq(Nat) /\ s \in Nat /\ Len(f) =< LoginMaxFailures
    BY <1>5, <1>6
  <2> HIDE DEF f, g
  <2>3. Appended(f, s, g)
    BY <2>1, <2>2, LastLaw
  <2> QED BY <2>3 DEF Appended
<1>8. \/ /\ c \in DOMAIN failures /\ failures[c].age - s < LoginWindow
         /\ new.age = failures[c].age /\ new.failures = failures[c].failures + 1
         /\ new.left = IF failures[c].failures + 1 >= LoginMaxFailures
                       THEN LoginBlock - s ELSE failures[c].left
      \/ /\ new.age = s /\ new.failures = 1
         /\ new.left = IF 1 >= LoginMaxFailures THEN LoginBlock - s ELSE LongOver
  <2>1. c \in DOMAIN failures /\ ~WindowOver(failures[c], s) => failures[c].age - s < LoginWindow
    BY <1>5, <1>6 DEF WindowOver
  <2> QED BY <2>1, CountLaw DEF LoginInv
<1> HIDE DEF new, f, g
<1>9. Len(g) \in Nat /\ Len(g) > 0 /\ Len(g) =< LoginMaxFailures
  <2>1. g \in Seq(Nat) /\ Len(g) > 0 /\ Len(g) =< LoginMaxFailures
    BY <1>7
  <2> QED BY <2>1
<1>10. Len(g) \in Nat /\ DOMAIN g = 1 .. Len(g) /\ \A i \in DOMAIN g : g[i] \in Nat
  BY <1>7
<1>11. DOMAIN f = 1 .. Len(f) /\ \A i \in DOMAIN f : f[i] \in Nat
  BY <1>6
<1>12. new.failures \in Int /\ new.age \in Int /\ new.left \in Int /\ new.failures > 0
  BY <1>5, <1>6, <1>8
<1>13. \A i \in DOMAIN g : i > Len(g) - new.failures =>
         new.age - g[i] < LoginWindow /\ g[i] - new.age =< MaxStage
  <2> SUFFICES ASSUME NEW i \in 1 .. Len(g), i > Len(g) - new.failures
               PROVE  new.age - g[i] < LoginWindow /\ g[i] - new.age =< MaxStage
    BY <1>10
  <2>1. CASE i = Len(g)
    BY <1>5, <1>6, <1>7, <1>8, <2>1
  <2>2. CASE i # Len(g) /\ new.failures = 1
    <3>1. Len(g) \in Int /\ i =< Len(g) /\ ~(i > Len(g) - 1)
      <4>1. \A n \in Nat : \A m \in 1 .. n : m # n => n \in Int /\ m =< n /\ ~(m > n - 1)
        OBVIOUS
      <4>2. Len(g) \in Nat
        BY <1>10
      <4> QED BY <2>2, <4>1, <4>2
    <3> QED BY <2>2, <3>1
  <2>3. CASE i # Len(g) /\ new.failures # 1
    <3>1. /\ c \in DOMAIN failures /\ failures[c].age - s < LoginWindow
          /\ new.age = failures[c].age /\ new.failures = failures[c].failures + 1
      BY <1>8, <2>3
    <3>2. PICK j \in 1 .. Len(f) : j = i + (Len(f) + 1 - Len(g)) /\ g[i] = f[j]
      <4>1. Len(g) \in Int
        BY <1>10
      <4>2. i \in 1 .. Len(g) - 1
        BY <2>3, <4>1
      <4> QED BY <1>7, <4>2
    <3>3. j > Len(f) - failures[c].failures
      <4>1. /\ Len(g) \in Int /\ Len(f) \in Int /\ failures[c].failures \in Int
            /\ i > Len(g) - (failures[c].failures + 1)
        BY <1>6, <1>10, <3>1
      <4> QED BY <3>2, <4>1
    <3>4. failures[c].age < OldAge
      BY <1>5, <1>6, <3>1
    <3> QED BY <1>6, <1>11, <3>1, <3>2, <3>3, <3>4 DEF WindowKnown
  <2> QED BY <2>1, <2>2, <2>3
<1>14. Len(g) >= new.failures \/ Len(g) = LoginMaxFailures
  <2>1. CASE new.failures = 1
    <3>1. Len(g) \in Int /\ Len(g) > 0
      BY <1>9
    <3> QED BY <2>1, <3>1
  <2>2. CASE c \in DOMAIN failures /\ new.failures = failures[c].failures + 1
    <3>1. Len(f) >= failures[c].failures \/ Len(f) = LoginMaxFailures
      BY <1>6, <2>2 DEF WindowKnown
    <3>2. /\ Len(g) \in Int /\ Len(f) \in Int /\ failures[c].failures \in Int
          /\ LoginMaxFailures \in Int
      BY <1>5, <1>6, <1>10, <2>2
    <3>3. Len(g) =< LoginMaxFailures /\ (Len(g) = Len(f) + 1 \/ Len(g) = LoginMaxFailures)
      BY <1>7
    <3> QED BY <2>2, <3>1, <3>2, <3>3
  <2> QED BY <1>8, <2>1, <2>2
<1>15. new.left > LongOver =>
         /\ new.failures >= LoginMaxFailures /\ new.left = LoginBlock - s
         /\ \A i, j \in DOMAIN g : g[i] - g[j] < LoginWindow + MaxStage
  <2> SUFFICES ASSUME new.left > LongOver
               PROVE  /\ new.failures >= LoginMaxFailures /\ new.left = LoginBlock - s
                      /\ \A i, j \in DOMAIN g : g[i] - g[j] < LoginWindow + MaxStage
    OBVIOUS
  <2>1. new.failures >= LoginMaxFailures /\ new.left = LoginBlock - s
    BY <1>5, <1>6, <1>8 DEF BlockKnown
  <2>2. \A i \in DOMAIN g : new.age - g[i] < LoginWindow /\ g[i] - new.age =< MaxStage
    <3>1. Len(g) - new.failures \in Int /\ Len(g) - new.failures =< 0
      <4>1. /\ Len(g) \in Int /\ new.failures \in Int /\ LoginMaxFailures \in Int
            /\ Len(g) =< LoginMaxFailures
        BY <1>5, <1>9, <1>12
      <4> QED BY <2>1, <4>1
    <3>2. \A i \in DOMAIN g : i > Len(g) - new.failures
      BY <1>10, <3>1
    <3> QED BY <1>13, <3>2
  <2> QED BY <1>5, <1>10, <1>12, <2>1, <2>2
<1>16. ASSUME c \in K
       PROVE  WindowKnown(c)' /\ BlockKnown(c)'
  <2>1. failures'[c] = new /\ failed'[c] = g
    BY <1>3, <1>16
  <2>2. WindowKnown(c)'
    BY <1>7, <1>13, <1>14, <1>12, <2>1 DEF WindowKnown
  <2>3. BlockKnown(c)'
    <3>1. new.left > LongOver => s = LoginBlock - new.left
      BY <1>5, <1>15
    <3> QED BY <1>7, <1>15, <2>1, <3>1 DEF BlockKnown
  <2> QED BY <2>2, <2>3
<1> QED BY <1>2, <1>4, <1>16 DEF CauseInv

(* Time passes for the window, the block and the failures alike, and none of
   them comes to its last value while it matters. *)
LEMMA CauseTick ==
    ASSUME LoginInv, CauseInv, Tick
    PROVE  CauseInv'
<1>1. /\ LoginBlock \in Nat /\ LoginWindow \in Nat /\ MaxStage \in Nat
      /\ LoginMaxFailures \in Nat /\ LoginMaxFailures > 0
      /\ OldAge = LoginWindow + MaxStage /\ LongOver = -MaxStage - 1
  BY LimiterAssumption DEF OldAge, LongOver
<1>2. DOMAIN failures' = DOMAIN failures
  BY DEF Tick
<1>3. ASSUME NEW c \in DOMAIN failures
      PROVE  WindowKnown(c)' /\ BlockKnown(c)'
  <2> DEFINE f == failed[c]
             g == failed'[c]
             cap == LoginBlock + OldAge + MaxStage
  <2>1. /\ failures[c] \in FailureStates /\ f \in Seq(Nat) /\ WindowKnown(c) /\ BlockKnown(c)
    BY DEF LoginInv, LoginTypeOK, CauseInv
  <2>2. /\ failures[c].age \in Nat /\ failures[c].failures \in Nat /\ failures[c].left \in Int
        /\ failures[c].age =< OldAge /\ failures[c].left >= LongOver
    BY <1>1, <2>1 DEF FailureStates
  <2>3. /\ failures'[c].age = Least(failures[c].age + 1, OldAge)
        /\ failures'[c].failures = failures[c].failures
        /\ failures'[c].left = Most(failures[c].left - 1, LongOver)
    <3>1. failures'[c] = [failures[c] EXCEPT !.age = Least(@ + 1, OldAge),
                                             !.left = Most(@ - 1, LongOver)]
      BY DEF Tick
    <3> QED BY <2>1, <3>1 DEF FailureStates
  <2>4. /\ DOMAIN f = 1 .. Len(f) /\ Len(f) \in Nat /\ \A i \in DOMAIN f : f[i] \in Nat
        /\ Len(f) > 0
    <3>1. DOMAIN f = 1 .. Len(f) /\ Len(f) \in Nat /\ \A i \in DOMAIN f : f[i] \in Nat
      BY <2>1
    <3>2. failures[c].failures > 0 /\ (Len(f) >= failures[c].failures \/ Len(f) = LoginMaxFailures)
      BY <2>1 DEF WindowKnown
    <3> HIDE DEF f
    <3>3. Len(f) > 0
      <4>1. Len(f) \in Int /\ failures[c].failures \in Int
        BY <2>2, <3>1
      <4> QED BY <1>1, <3>2, <4>1
    <3> QED BY <3>1, <3>3
  <2>5. g = [i \in DOMAIN f |-> Least(f[i] + 1, cap)]
    BY DEF Tick, LoginInv, LoginTypeOK
  <2>6. /\ DOMAIN g = DOMAIN f /\ Len(g) = Len(f)
        /\ \A i \in DOMAIN f : g[i] = Least(f[i] + 1, cap)
    <3>1. DOMAIN g = DOMAIN f
      BY <2>5
    <3>2. g \in Seq(Int)
      <4>1. \A i \in DOMAIN f : Least(f[i] + 1, cap) \in Int
        BY <1>1, <2>4 DEF Least
      <4>2. g \in [1 .. Len(f) -> Int]
        BY <2>4, <2>5, <4>1
      <4> QED BY <2>4, <4>2, SeqDef
    <3>3. DOMAIN g = 1 .. Len(g) /\ Len(g) \in Nat
      BY <3>2
    <3> QED BY <2>4, <2>5, <3>1, <3>3
  <2> HIDE DEF f, g
  <2>7. ASSUME NEW i \in DOMAIN f, f[i] + 1 =< cap
        PROVE  g[i] = f[i] + 1
    <3>1. g[i] = Least(f[i] + 1, cap) /\ f[i] + 1 \in Int /\ cap \in Int
      BY <1>1, <2>4, <2>6
    <3> QED BY <2>7, <3>1 DEF Least
  <2>8. WindowKnown(c)'
    <3>1. ASSUME failures'[c].age < OldAge, NEW i \in DOMAIN g, i > Len(g) - failures'[c].failures
          PROVE  failures'[c].age - g[i] < LoginWindow /\ g[i] - failures'[c].age =< MaxStage
      <4>1. failures'[c].age = failures[c].age + 1 /\ failures[c].age < OldAge
        BY <1>1, <2>2, <2>3, <3>1 DEF Least
      <4>2. failures[c].age - f[i] < LoginWindow /\ f[i] - failures[c].age =< MaxStage
        BY <2>1, <2>3, <2>6, <3>1, <4>1 DEF WindowKnown, f
      <4>3. g[i] = f[i] + 1 /\ f[i] \in Nat
        BY <1>1, <2>2, <2>4, <2>6, <2>7, <3>1, <4>1, <4>2
      <4> QED BY <1>1, <2>2, <4>1, <4>2, <4>3
    <3> QED BY <2>1, <2>3, <2>6, <3>1 DEF WindowKnown, f, g
  <2>9. BlockKnown(c)'
    <3> SUFFICES ASSUME failures'[c].left > LongOver
                 PROVE  /\ failures'[c].failures >= LoginMaxFailures
                        /\ g[Len(g)] = LoginBlock - failures'[c].left
                        /\ \A i, j \in DOMAIN g : g[i] - g[j] < LoginWindow + MaxStage
      BY DEF BlockKnown, g
    <3>1. failures'[c].left = failures[c].left - 1 /\ failures[c].left > LongOver
          /\ failures[c].left >= -MaxStage + 1
      BY <1>1, <2>2, <2>3 DEF Most
    <3>2. /\ failures[c].failures >= LoginMaxFailures
          /\ f[Len(f)] = LoginBlock - failures[c].left
          /\ \A i, j \in DOMAIN f : f[i] - f[j] < LoginWindow + MaxStage
      BY <2>1, <3>1 DEF BlockKnown, f
    <3>3. Len(f) \in DOMAIN f
      BY <2>4
    <3>4. \A i \in DOMAIN f : g[i] = f[i] + 1 /\ f[i] \in Nat
      <4> SUFFICES ASSUME NEW i \in DOMAIN f
                   PROVE  g[i] = f[i] + 1 /\ f[i] \in Nat
        OBVIOUS
      <4>1. f[i] - f[Len(f)] < LoginWindow + MaxStage /\ f[i] \in Nat
        BY <2>4, <3>2, <3>3
      <4>2. f[i] + 1 =< cap
        BY <1>1, <2>2, <3>1, <3>2, <4>1
      <4> QED BY <2>7, <4>1, <4>2
    <3>5. g[Len(g)] = LoginBlock - failures'[c].left
      <4>1. Len(g) = Len(f) /\ g[Len(f)] = f[Len(f)] + 1
        BY <2>6, <3>3, <3>4
      <4>2. failures[c].left \in Int /\ LoginBlock \in Int
        BY <1>1, <2>2
      <4> QED BY <3>1, <3>2, <4>1, <4>2
    <3>6. ASSUME NEW i \in DOMAIN g, NEW j \in DOMAIN g
          PROVE  g[i] - g[j] < LoginWindow + MaxStage
      <4>1. f[i] - f[j] < LoginWindow + MaxStage
        BY <2>6, <3>2
      <4> QED BY <1>1, <2>6, <3>4, <4>1
    <3> QED BY <2>3, <3>2, <3>5, <3>6
  <2> QED BY <2>8, <2>9
<1> QED BY <1>2, <1>3 DEF CauseInv

(* A step that forgets clients, or none, keeps what is known of the others. *)
LEMMA CauseShrink ==
    ASSUME LoginInv, CauseInv, NEW D \in SUBSET DOMAIN failures,
           failures' = [c \in D |-> failures[c]], failed' = [c \in D |-> failed[c]]
    PROVE  CauseInv'
<1>1. ASSUME NEW c \in D
      PROVE  WindowKnown(c)' /\ BlockKnown(c)'
  <2>1. c \in DOMAIN failures /\ failures'[c] = failures[c] /\ failed'[c] = failed[c]
    OBVIOUS
  <2> QED BY <2>1 DEF CauseInv, WindowKnown, BlockKnown
<1> QED BY <1>1 DEF CauseInv

(* Nobody is refused without cause: behind each block that a handler may still
   find lie as many failures of its client as the limit, less than a window and
   a step apart, the last of them less than a block and a step old. *)
THEOREM BlocksHaveACause == LoginSpec => []BlockedForCause
<1>1. LoginInit => CauseInv
  BY DEF LoginInit, NoFailures, CauseInv
<1>2. ASSUME LoginInv, CauseInv, [LoginNext]_loginVars
      PROVE  CauseInv'
  <2>1. /\ failures = [c \in DOMAIN failures |-> failures[c]]
        /\ failed = [c \in DOMAIN failures |-> failed[c]]
    BY <1>2 DEF LoginInv, LoginTypeOK
  <2>2. CASE UNCHANGED <<failures, failed>>
    BY <1>2, <2>1, <2>2, CauseShrink
  <2>3. ASSUME NEW c, Forget(c)
        PROVE  CauseInv'
    BY <1>2, <2>1, <2>3, CauseShrink DEF Forget, Restrict
  <2>4. ASSUME NEW h \in Handlers, RecordFailure(h)
        PROVE  CauseInv'
    BY <1>2, <2>4, CauseFailure
  <2>5. CASE LimiterRestart
    BY <2>5 DEF LimiterRestart, NoFailures, CauseInv
  <2>6. CASE Tick
    BY <1>2, <2>6, CauseTick
  <2>7. ASSUME NEW h \in Handlers, (\E c \in Clients : Arrive(h, c)) \/ HandleLogin(h)
        PROVE  CauseInv'
    BY <2>2, <2>3, <2>4, <2>7 DEF Arrive, HandleLogin, Denied, Admitted, BadRequest, Verify, Reset
  <2>8. CASE UNCHANGED loginVars
    BY <2>2, <2>8 DEF loginVars
  <2> QED BY <1>2, <2>5, <2>6, <2>7, <2>8 DEF LoginNext
<1>3. LoginInv /\ CauseInv => BlockedForCause
  <2> SUFFICES ASSUME LoginInv, CauseInv, NEW c \in DOMAIN failures, failures[c].left > -MaxStage
               PROVE  /\ Len(failed[c]) = LoginMaxFailures
                      /\ \A i, j \in DOMAIN failed[c] :
                           failed[c][i] - failed[c][j] < LoginWindow + MaxStage
                      /\ \E i \in DOMAIN failed[c] : failed[c][i] < LoginBlock + MaxStage
    BY DEF BlockedForCause
  <2>1. /\ failed[c] \in Seq(Nat) /\ failures[c] \in FailureStates
        /\ WindowKnown(c) /\ BlockKnown(c)
    BY DEF LoginInv, LoginTypeOK, CauseInv
  <2>2. /\ failures[c].failures \in Nat /\ failures[c].left \in Int
        /\ LoginBlock \in Nat /\ MaxStage \in Nat /\ LoginMaxFailures \in Nat
        /\ LoginMaxFailures > 0 /\ LongOver = -MaxStage - 1
    BY <2>1, LimiterAssumption DEF FailureStates, LongOver
  <2>3. /\ failures[c].failures >= LoginMaxFailures
        /\ failed[c][Len(failed[c])] = LoginBlock - failures[c].left
        /\ \A i, j \in DOMAIN failed[c] : failed[c][i] - failed[c][j] < LoginWindow + MaxStage
    BY <2>1, <2>2 DEF BlockKnown
  <2>4. Len(failed[c]) = LoginMaxFailures /\ Len(failed[c]) \in DOMAIN failed[c]
    BY <2>1, <2>2, <2>3 DEF WindowKnown
  <2>5. failed[c][Len(failed[c])] < LoginBlock + MaxStage
    BY <2>2, <2>3
  <2> QED BY <2>3, <2>4, <2>5
<1>4. LoginSpec => []LoginInv
  BY LoginInvariant
<1> QED BY <1>1, <1>2, <1>3, <1>4, PTL DEF LoginSpec

-----------------------------------------------------------------------------
(* The map of the sessions. *)

(* The map agrees with what was promised at the login: the time left and the
   age of a token make up the lifetime, and what is no longer in the map was
   given up or is as good as over. *)
LifeOf(t) ==
    /\ t \in DOMAIN sessions =>
         /\ t \in DOMAIN granted /\ ~granted[t].ended
         /\ sessions[t] >= 0 =>
              /\ sessions[t] + granted[t].age =< SessionTTL
              /\ sessions[t] + granted[t].age >= SessionTTL - MaxLag
         /\ sessions[t] < 0 => granted[t].age > SessionTTL - MaxLag
    /\ t \in DOMAIN granted \ DOMAIN sessions =>
         granted[t].ended \/ granted[t].age > SessionTTL - MaxLag

LifeInv == \A t \in Tokens : LifeOf(t)

SessionInv == SessionTypeOK /\ LifeInv

(* Every operation of the session map keeps the types and the agreement. *)
THEOREM SessionInvariant == SessionSpec => []SessionInv
<1>1. SessionInit => SessionInv
  BY SessionAssumption DEF SessionInit, SessionInv, SessionTypeOK, LifeInv, LifeOf, NoSessions
<1>2. SessionInv /\ [SessionNext]_sessionVars => SessionInv'
  <2> SUFFICES ASSUME SessionInv, [SessionNext]_sessionVars
               PROVE  SessionInv'
    OBVIOUS
  <2> USE SessionAssumption DEF SessionInv, SessionTypeOK, LifeInv, LifeOf
  <2>0. /\ \A x \in DOMAIN granted : granted[x].age \in 0 .. Over /\ granted[x].ended \in BOOLEAN
        /\ \A x \in DOMAIN sessions : sessions[x] \in -1 .. SessionTTL
        /\ Over = SessionTTL + 1
    BY DEF Over
  <2>1. ASSUME NEW h \in Creators, BeginCreate(h)
        PROVE  SessionInv'
    BY <2>1 DEF BeginCreate, Put
  <2>2. ASSUME NEW h \in Creators, Create(h)
        PROVE  SessionInv'
    <3>1. PICK t \in Tokens \ DOMAIN granted :
            /\ sessions' = Put(sessions, t, SessionTTL - creating[h])
            /\ granted' = Put(granted, t, [age |-> 0, ended |-> FALSE])
      BY <2>2 DEF Create
    <3>2. creating' \in [DOMAIN creating' -> 0 .. MaxLag] /\ DOMAIN creating' \subseteq Creators
      BY <2>2 DEF Create, Dropped, Restrict
    <3>3. t \notin DOMAIN sessions
      OBVIOUS
    <3>4. SessionTTL - creating[h] \in 0 .. SessionTTL /\ creating[h] =< MaxLag
      BY <2>2 DEF Create
    <3>5. /\ DOMAIN sessions' = DOMAIN sessions \cup {t} /\ DOMAIN granted' = DOMAIN granted \cup {t}
          /\ sessions'[t] = SessionTTL - creating[h]
          /\ granted'[t] = [age |-> 0, ended |-> FALSE]
          /\ \A x \in DOMAIN sessions \ {t} : sessions'[x] = sessions[x]
          /\ \A x \in DOMAIN granted \ {t} : granted'[x] = granted[x]
      BY <3>1 DEF Put
    <3>6. /\ sessions' \in [DOMAIN sessions' -> -1 .. SessionTTL]
          /\ granted' \in [DOMAIN granted' -> [age : 0 .. Over, ended : BOOLEAN]]
      BY <3>1, <3>4 DEF Put, Over
    <3>7. ASSUME NEW x \in Tokens \ {t}
          PROVE  /\ x \in DOMAIN sessions' <=> x \in DOMAIN sessions
                 /\ x \in DOMAIN granted' <=> x \in DOMAIN granted
                 /\ x \in DOMAIN sessions => sessions'[x] = sessions[x]
                 /\ x \in DOMAIN granted => granted'[x] = granted[x]
      BY <3>5
    <3>8. /\ granted'[t].age = 0 /\ ~granted'[t].ended
          /\ t \in DOMAIN sessions' /\ t \in DOMAIN granted'
          /\ sessions'[t] \in 0 .. SessionTTL /\ sessions'[t] >= SessionTTL - MaxLag
      BY <3>4, <3>5, <2>2 DEF Create
    <3>9. ASSUME NEW x \in Tokens
          PROVE  LifeOf(x)'
      <4>1. CASE x = t
        BY <3>8, <4>1
      <4>2. CASE x # t
        BY <3>7, <4>2
      <4> QED
        BY <4>1, <4>2
    <3> QED
      BY <3>1, <3>2, <3>5, <3>6, <3>9
  <2>3. ASSUME NEW t \in Tokens, RequireSession(t)
        PROVE  SessionInv'
    BY <2>3 DEF RequireSession, Valid, Dropped, Restrict
  <2>4. ASSUME NEW t \in Tokens, HandleLogout(t)
        PROVE  SessionInv'
    BY <2>4 DEF HandleLogout, Dropped, Restrict
  <2>5. CASE SessionRestart
    BY <2>5 DEF SessionRestart, NoSessions
  <2>6. CASE SessionTick
    <3>1. /\ DOMAIN sessions' = DOMAIN sessions /\ DOMAIN granted' = DOMAIN granted
          /\ \A t \in DOMAIN sessions :
               sessions'[t] = IF sessions[t] < 0 THEN -1 ELSE sessions[t] - 1
          /\ \A t \in DOMAIN granted :
               /\ granted'[t].ended = granted[t].ended
               /\ granted'[t].age = IF granted[t].age = Over THEN Over ELSE granted[t].age + 1
      BY <2>6 DEF SessionTick
    <3>2. ASSUME NEW t \in DOMAIN granted
          PROVE  granted'[t] \in [age : 0 .. Over, ended : BOOLEAN]
      <4> DEFINE older == IF granted[t].age = Over THEN Over ELSE granted[t].age + 1
      <4>1. granted'[t] = [granted[t] EXCEPT !.age = older]
        BY <2>6 DEF SessionTick
      <4>2. older \in 0 .. Over
        BY <2>0
      <4>3. granted[t] \in [age : 0 .. Over, ended : BOOLEAN]
        OBVIOUS
      <4> HIDE DEF older
      <4> QED
        BY <4>1, <4>2, <4>3
    <3>3. SessionTypeOK'
      BY <2>0, <2>6, <3>1, <3>2 DEF SessionTick
    <3>4. ASSUME NEW t \in Tokens
          PROVE  LifeOf(t)'
      BY <2>0, <3>1
    <3> QED
      BY <3>3, <3>4
  <2>7. CASE UNCHANGED sessionVars
    BY <2>7 DEF sessionVars
  <2> QED
    BY <2>1, <2>2, <2>3, <2>4, <2>5, <2>6, <2>7 DEF SessionNext
<1> QED
  BY <1>1, <1>2, PTL DEF SessionSpec

(* A token is valid from its login for its lifetime, less what the login waited
   for the lock, and never after a logout with it or a restart. *)
THEOREM SessionsLastTheirLife == SessionSpec => []SessionLifetime
<1>1. SessionInv => SessionLifetime
  BY SessionAssumption DEF SessionInv, SessionTypeOK, LifeInv, LifeOf, SessionLifetime, Valid, Over
<1> QED
  BY <1>1, SessionInvariant, PTL

-----------------------------------------------------------------------------
(* The name cache of the proxy guard. *)

(* What an entry has left and the age of its answer make up a lifetime at most,
   until the entry is so old that nobody finds it valid. *)
EntryOf(x) ==
    /\ dnsCache[x] \in Entries
    /\ dnsCache[x].left = Gone \/ dnsCache[x].left + dnsCache[x].age =< DnsCacheTTL

(* A request that files an answer got it after it read the clock; one that dials
   has an answer that was valid at that reading. *)
RequestOf(g) ==
    /\ request[g] \in Serving
    /\ request[g].pc = "store" => request[g].age =< request[g].stamp
    /\ request[g].pc = "dial" => request[g].age < DnsCacheTTL + request[g].stamp

CacheInv ==
    /\ IsFiniteSet(DOMAIN dnsCache) /\ Cardinality(DOMAIN dnsCache) =< DnsCacheMax
    /\ DOMAIN dnsCache \subseteq Hosts /\ dnsCache = [x \in DOMAIN dnsCache |-> dnsCache[x]]
    /\ \A x \in DOMAIN dnsCache : EntryOf(x)

RequestInv ==
    /\ DOMAIN request \subseteq Requests /\ request = [g \in DOMAIN request |-> request[g]]
    /\ \A g \in DOMAIN request : RequestOf(g)

DnsInv == CacheInv /\ RequestInv

(* The sweep takes nothing that is valid, and leaves nothing else in a cache that
   stays full. *)
LEMMA SweptLaw ==
    ASSUME CacheInv, NEW s \in 0 .. MaxLookup
    PROVE  /\ DOMAIN Swept(s) \subseteq DOMAIN dnsCache
           /\ Swept(s) = [x \in DOMAIN Swept(s) |-> dnsCache[x]]
           /\ IsFiniteSet(DOMAIN Swept(s)) /\ Cardinality(DOMAIN Swept(s)) \in Nat
           /\ Cardinality(DOMAIN Swept(s)) =< DnsCacheMax
           /\ \A x \in DOMAIN dnsCache \ DOMAIN Swept(s) : ~ValidAt(dnsCache[x], s)
           /\ Cardinality(DOMAIN Swept(s)) >= DnsCacheMax =>
                \A x \in DOMAIN Swept(s) : ValidAt(dnsCache[x], s)
<1> DEFINE valid == {x \in DOMAIN dnsCache : ValidAt(dnsCache[x], s)}
<1>1. /\ Cardinality(DOMAIN dnsCache) \in Nat
      /\ IsFiniteSet(valid) /\ Cardinality(valid) =< Cardinality(DOMAIN dnsCache)
      /\ Cardinality(valid) \in Nat
  BY FS_Subset, FS_CardinalityType DEF CacheInv
<1>2. CASE Cardinality(DOMAIN dnsCache) >= DnsCacheMax
  <2>1. Swept(s) = [x \in valid |-> dnsCache[x]]
    BY <1>2 DEF Swept, Restrict
  <2> QED
    BY <1>1, <2>1, DnsAssumption DEF CacheInv
<1>3. CASE ~(Cardinality(DOMAIN dnsCache) >= DnsCacheMax)
  <2>1. Swept(s) = dnsCache
    BY <1>3 DEF Swept
  <2> QED
    BY <1>1, <1>3, <2>1, DnsAssumption DEF CacheInv
<1> QED
  BY <1>2, <1>3

(* What Store makes of the cache. *)
LEMMA StoreLaw ==
    ASSUME DnsInv, NEW g \in Requests, Store(g)
    PROVE  /\ CacheInv'
           /\ request[g].stamp \in 0 .. MaxLookup
           /\ \A x \in DOMAIN dnsCache \ DOMAIN dnsCache' : dnsCache[x].left =< 0
           /\ \/ request[g].host \in DOMAIN dnsCache'
              \/ \A x \in DOMAIN dnsCache' : ValidAt(dnsCache[x], request[g].stamp)
<1> DEFINE s == request[g].stamp
           host == request[g].host
           entry == [left |-> DnsCacheTTL - s, age |-> request[g].age]
<1>1. /\ g \in DOMAIN request /\ request[g].pc = "store"
      /\ s \in 0 .. MaxLookup /\ host \in Hosts
      /\ request[g].age \in 0 .. OldAnswer /\ request[g].age =< s
  BY DEF Store, Serves, DnsInv, RequestInv, RequestOf, Serving
<1>2. entry \in Entries /\ entry.left + entry.age =< DnsCacheTTL
  <2>1. DnsCacheTTL - s \in Gone .. DnsCacheTTL
    BY <1>1, DnsAssumption DEF Gone
  <2>2. DnsCacheTTL - s + request[g].age =< DnsCacheTTL
    BY <1>1, DnsAssumption DEF OldAnswer
  <2> QED
    BY <1>1, <2>1, <2>2 DEF Entries
<1>3. \A x \in DOMAIN dnsCache : ~ValidAt(dnsCache[x], s) => dnsCache[x].left =< 0
  BY <1>1, DnsAssumption DEF DnsInv, CacheInv, EntryOf, Entries, ValidAt, Gone
<1>4. /\ DOMAIN Swept(s) \subseteq DOMAIN dnsCache
      /\ Swept(s) = [x \in DOMAIN Swept(s) |-> dnsCache[x]]
      /\ IsFiniteSet(DOMAIN Swept(s)) /\ Cardinality(DOMAIN Swept(s)) \in Nat
      /\ Cardinality(DOMAIN Swept(s)) =< DnsCacheMax
      /\ \A x \in DOMAIN dnsCache \ DOMAIN Swept(s) : ~ValidAt(dnsCache[x], s)
      /\ Cardinality(DOMAIN Swept(s)) >= DnsCacheMax =>
           \A x \in DOMAIN Swept(s) : ValidAt(dnsCache[x], s)
  BY <1>1, SweptLaw DEF DnsInv
<1> HIDE DEF entry
<1>5. dnsCache' = IF Cardinality(DOMAIN Swept(s)) < DnsCacheMax
                  THEN Set(Swept(s), host, entry) ELSE Swept(s)
  BY DEF Store, entry
<1>6. CASE Cardinality(DOMAIN Swept(s)) < DnsCacheMax
  <2>1. /\ DOMAIN dnsCache' = DOMAIN Swept(s) \cup {host}
        /\ dnsCache' = [x \in DOMAIN Swept(s) \cup {host} |->
                          IF x = host THEN entry ELSE dnsCache[x]]
    BY <1>4, <1>5, <1>6 DEF Set
  <2>2. /\ IsFiniteSet(DOMAIN Swept(s) \cup {host})
        /\ Cardinality(DOMAIN Swept(s) \cup {host}) =< Cardinality(DOMAIN Swept(s)) + 1
    <3> DEFINE D == DOMAIN Swept(s)
    <3>1. IsFiniteSet(D) /\ Cardinality(D) \in Nat
      BY <1>4
    <3> HIDE DEF D
    <3>2. ASSUME NEW x
          PROVE  IsFiniteSet(D \cup {x}) /\ Cardinality(D \cup {x}) =< Cardinality(D) + 1
      <4>1. IsFiniteSet(D \cup {x})
        BY <3>1, FS_AddElement, Zenon
      <4>2. Cardinality(D \cup {x}) = IF x \in D THEN Cardinality(D) ELSE Cardinality(D) + 1
        BY <3>1, FS_AddElement, Zenon
      <4> QED
        BY <3>1, <4>1, <4>2
    <3> QED
      BY <3>2 DEF D
  <2>3. Cardinality(DOMAIN dnsCache') =< DnsCacheMax /\ IsFiniteSet(DOMAIN dnsCache')
    <3>1. Cardinality(DOMAIN Swept(s) \cup {host}) \in Nat
      BY <2>2, FS_CardinalityType
    <3> QED
      BY <1>4, <1>6, <2>1, <2>2, <3>1, DnsAssumption
  <2>4. \A x \in DOMAIN dnsCache' : EntryOf(x)'
    <3>1. \A x \in DOMAIN dnsCache' :
             dnsCache'[x] = entry \/ (x \in DOMAIN dnsCache /\ dnsCache'[x] = dnsCache[x])
      BY <1>4, <2>1
    <3> QED
      BY <1>2, <3>1 DEF EntryOf, DnsInv, CacheInv
  <2>5. CacheInv'
    BY <1>1, <1>4, <2>1, <2>3, <2>4 DEF CacheInv, DnsInv
  <2> QED
    BY <1>1, <1>3, <1>4, <2>1, <2>5
<1>7. CASE ~(Cardinality(DOMAIN Swept(s)) < DnsCacheMax)
  <2>1. dnsCache' = Swept(s)
    BY <1>5, <1>7
  <2>2. \A x \in DOMAIN dnsCache' : dnsCache'[x] = dnsCache[x]
    BY <1>4, <2>1
  <2>3. CacheInv'
    BY <1>4, <2>1, <2>2 DEF CacheInv, EntryOf, DnsInv
  <2> QED
    BY <1>1, <1>3, <1>4, <1>7, <2>1, <2>3, DnsAssumption
<1> QED
  BY <1>6, <1>7

(* A request that goes on to another step, with the answer it had or another. *)
LEMMA MoveLaw ==
    ASSUME RequestInv, NEW g \in DOMAIN request,
           NEW step \in {"check", "lookup", "store", "dial"}, NEW age \in 0 .. OldAnswer,
           \/ request' = [request EXCEPT ![g].pc = step, ![g].age = age]
           \/ request' = [request EXCEPT ![g].pc = step] /\ age = request[g].age,
           step = "store" => age =< request[g].stamp,
           step = "dial" => age < DnsCacheTTL + request[g].stamp
    PROVE  RequestInv'
<1>1. request[g] \in Serving /\ request = [h \in DOMAIN request |-> request[h]]
  BY DEF RequestInv, RequestOf
<1>2. /\ DOMAIN request' = DOMAIN request
      /\ request' = [h \in DOMAIN request |-> request'[h]]
      /\ \A h \in DOMAIN request \ {g} : request'[h] = request[h]
  <2>1. CASE request' = [request EXCEPT ![g].pc = step, ![g].age = age]
    BY <1>1, <2>1
  <2>2. CASE request' = [request EXCEPT ![g].pc = step]
    BY <1>1, <2>2
  <2> QED
    BY <2>1, <2>2
<1>3. /\ request'[g] \in Serving /\ request'[g].pc = step
      /\ request'[g].stamp = request[g].stamp /\ request'[g].age = age
  <2>1. CASE request' = [request EXCEPT ![g].pc = step, ![g].age = age]
    <3>1. request'[g] = [[request[g] EXCEPT !.pc = step] EXCEPT !.age = age]
      BY <1>1, <2>1
    <3> QED
      BY <1>1, <3>1 DEF Serving
  <2>2. CASE request' = [request EXCEPT ![g].pc = step] /\ age = request[g].age
    <3>1. request'[g] = [request[g] EXCEPT !.pc = step]
      BY <1>1, <2>2
    <3> QED
      BY <1>1, <2>2, <3>1 DEF Serving
  <2> QED
    BY <2>1, <2>2
<1>4. \A h \in DOMAIN request' : RequestOf(h)'
  <2>1. RequestOf(g)'
    BY <1>3 DEF RequestOf
  <2>2. \A h \in DOMAIN request \ {g} : RequestOf(h)'
    BY <1>2 DEF RequestOf, RequestInv
  <2> QED
    BY <1>2, <2>1, <2>2
<1> QED
  BY <1>2, <1>4 DEF RequestInv

-----------------------------------------------------------------------------
(* Every step keeps both halves of the invariant. *)
THEOREM DnsInvariant == DnsSpec => []DnsInv
<1>1. DnsInit => DnsInv
  <2> SUFFICES ASSUME DnsInit PROVE DnsInv
    OBVIOUS
  <2>1. DOMAIN dnsCache = {} /\ DOMAIN request = {}
    BY DEF DnsInit, NoEntries
  <2>2. IsFiniteSet(DOMAIN dnsCache) /\ Cardinality(DOMAIN dnsCache) = 0
    BY <2>1, FS_EmptySet
  <2> QED
    BY <2>1, <2>2, DnsAssumption DEF DnsInit, NoEntries, DnsInv, CacheInv, RequestInv
<1>2. DnsInv /\ [DnsNext]_dnsVars => DnsInv'
  <2> SUFFICES ASSUME DnsInv, [DnsNext]_dnsVars
               PROVE  DnsInv'
    OBVIOUS
  <2>0. \A g \in DOMAIN request :
          /\ request[g] \in Serving /\ RequestOf(g)
          /\ request[g].stamp \in 0 .. MaxLookup /\ request[g].age \in 0 .. OldAnswer
    BY DEF DnsInv, RequestInv, RequestOf, Serving
  <2>1. ASSUME NEW g \in Requests, NEW host \in Hosts, Accept(g, host)
        PROVE  DnsInv'
    <3>1. CacheInv'
      BY <2>1 DEF Accept, DnsInv, CacheInv, EntryOf
    <3>2. [pc |-> "check", host |-> host, stamp |-> 0, age |-> 0] \in Serving
      BY DnsAssumption DEF Serving, OldAnswer
    <3>3. RequestInv'
      BY <2>1, <3>2 DEF Accept, Set, DnsInv, RequestInv, RequestOf
    <3> QED
      BY <3>1, <3>3 DEF DnsInv
  <2>2. ASSUME NEW g \in Requests, Hit(g)
        PROVE  DnsInv'
    <3> DEFINE entry == dnsCache[request[g].host]
    <3>1. CacheInv'
      BY <2>2 DEF Hit, DnsInv, CacheInv, EntryOf
    <3>2. g \in DOMAIN request /\ EntryOf(request[g].host) /\ entry.left > -request[g].stamp
      BY <2>2 DEF Hit, Serves, ValidAt, DnsInv, CacheInv
    <3>3. entry.age \in 0 .. OldAnswer /\ entry.age < DnsCacheTTL + request[g].stamp
      BY <2>0, <3>2, DnsAssumption DEF EntryOf, Entries, Gone, OldAnswer
    <3>4. RequestInv'
      BY <2>2, <3>2, <3>3, MoveLaw DEF Hit, DnsInv
    <3> QED
      BY <3>1, <3>4 DEF DnsInv
  <2>3. ASSUME NEW g \in Requests, Miss(g)
        PROVE  DnsInv'
    <3>1. CacheInv'
      BY <2>3 DEF Miss, DnsInv, CacheInv, EntryOf
    <3>2. g \in DOMAIN request
      BY <2>3 DEF Miss, Serves
    <3>3. RequestInv'
      BY <2>0, <2>3, <3>2, MoveLaw DEF Miss, DnsInv
    <3> QED
      BY <3>1, <3>3 DEF DnsInv
  <2>4. ASSUME NEW g \in Requests, Resolved(g)
        PROVE  DnsInv'
    <3>1. CacheInv'
      BY <2>4 DEF Resolved, DnsInv, CacheInv, EntryOf
    <3>2. g \in DOMAIN request /\ 0 \in 0 .. OldAnswer /\ 0 =< request[g].stamp
      BY <2>0, <2>4, DnsAssumption DEF Resolved, Serves, OldAnswer
    <3>3. RequestInv'
      BY <2>4, <3>2, MoveLaw DEF Resolved, DnsInv
    <3> QED
      BY <3>1, <3>3 DEF DnsInv
  <2>5. ASSUME NEW g \in Requests, Refused(g) \/ Dial(g)
        PROVE  DnsInv'
    <3>1. CacheInv'
      BY <2>5 DEF Refused, Dial, DnsInv, CacheInv, EntryOf
    <3>2. RequestInv'
      BY <2>5 DEF Refused, Dial, Leave, Restrict, DnsInv, RequestInv, RequestOf
    <3> QED
      BY <3>1, <3>2 DEF DnsInv
  <2>6. ASSUME NEW g \in Requests, Store(g)
        PROVE  DnsInv'
    <3>1. CacheInv'
      BY <2>6, StoreLaw
    <3>2. g \in DOMAIN request /\ request[g].age =< request[g].stamp
      BY <2>0, <2>6 DEF Store, Serves, RequestOf
    <3>3. request[g].age < DnsCacheTTL + request[g].stamp
      BY <2>0, <3>2, DnsAssumption DEF OldAnswer
    <3>4. RequestInv'
      BY <2>0, <2>6, <3>2, <3>3, MoveLaw DEF Store, DnsInv
    <3> QED
      BY <3>1, <3>4 DEF DnsInv
  <2>7. CASE DnsRestart
    <3>1. DOMAIN dnsCache' = {} /\ DOMAIN request' = {}
      BY <2>7 DEF DnsRestart, NoEntries
    <3>2. IsFiniteSet(DOMAIN dnsCache') /\ Cardinality(DOMAIN dnsCache') = 0
      BY <3>1, FS_EmptySet
    <3> QED
      BY <2>7, <3>1, <3>2, DnsAssumption DEF DnsRestart, NoEntries, DnsInv, CacheInv, RequestInv
  <2>8. CASE DnsTick
    <3>1. ASSUME NEW x \in DOMAIN dnsCache
          PROVE  EntryOf(x)'
      <4>1. dnsCache[x].left \in Gone .. DnsCacheTTL /\ dnsCache[x].age \in 0 .. OldAnswer
            /\ (dnsCache[x].left = Gone \/ dnsCache[x].left + dnsCache[x].age =< DnsCacheTTL)
        BY DEF DnsInv, CacheInv, EntryOf, Entries
      <4>2. dnsCache'[x] =
              [left |-> IF dnsCache[x].left = Gone THEN Gone ELSE dnsCache[x].left - 1,
               age |-> IF dnsCache[x].age = OldAnswer THEN OldAnswer ELSE dnsCache[x].age + 1]
        BY <2>8 DEF DnsTick
      <4> QED
        BY <4>1, <4>2, DnsAssumption DEF EntryOf, Entries, Gone, OldAnswer
    <3>2. CacheInv'
      BY <2>8, <3>1 DEF DnsTick, DnsInv, CacheInv
    <3>3. ASSUME NEW g \in DOMAIN request
          PROVE  RequestOf(g)'
      <4> DEFINE older == IF request[g].age = OldAnswer THEN OldAnswer ELSE request[g].age + 1
      <4>1. request'[g] = [[request[g] EXCEPT !.stamp = @ + 1] EXCEPT !.age = older]
        BY <2>8 DEF DnsTick
      <4>2. /\ request[g].stamp + 1 \in 0 .. MaxLookup
            /\ older \in 0 .. OldAnswer /\ older =< request[g].age + 1
        <5>1. request[g].stamp \in 0 .. MaxLookup /\ request[g].stamp < MaxLookup
          BY <2>0, <2>8 DEF DnsTick
        <5>2. request[g].age \in 0 .. OldAnswer /\ OldAnswer \in Nat
          BY <2>0, DnsAssumption DEF OldAnswer
        <5> QED
          BY <5>1, <5>2, DnsAssumption
      <4> HIDE DEF older
      <4>3. /\ request'[g] \in Serving /\ request'[g].pc = request[g].pc
            /\ request'[g].stamp = request[g].stamp + 1 /\ request'[g].age = older
        BY <2>0, <4>1, <4>2 DEF Serving
      <4> QED
        BY <2>0, <4>2, <4>3, DnsAssumption DEF RequestOf, OldAnswer
    <3>4. RequestInv'
      BY <2>8, <3>3 DEF DnsTick, DnsInv, RequestInv
    <3> QED
      BY <3>2, <3>4 DEF DnsInv
  <2>9. CASE UNCHANGED dnsVars
    BY <2>9 DEF dnsVars, DnsInv, CacheInv, RequestInv, EntryOf, RequestOf
  <2> QED
    BY <2>1, <2>2, <2>3, <2>4, <2>5, <2>6, <2>7, <2>8, <2>9 DEF DnsNext, Resolve
<1> QED
  BY <1>1, <1>2, PTL DEF DnsSpec

(* Every variable keeps its type, and the cache never exceeds its limit. *)
THEOREM DnsTypes == DnsSpec => []DnsTypeOK
<1>1. DnsInv => DnsTypeOK
  BY DEF DnsInv, CacheInv, RequestInv, EntryOf, RequestOf, DnsTypeOK
<1> QED
  BY <1>1, DnsInvariant, PTL

(* No address is dialled when its answer is older than a lifetime of the cache
   and the time of one request. *)
THEOREM NothingOldIsDialled == DnsSpec => []DialsFreshAnswer
<1>1. DnsInv => DialsFreshAnswer
  <2> SUFFICES ASSUME DnsInv, NEW g \in DOMAIN request, Serves(g, "dial")
               PROVE  request[g].age < DnsCacheTTL + MaxLookup
    BY DEF DialsFreshAnswer
  <2> QED
    BY DnsAssumption DEF DnsInv, RequestInv, RequestOf, Serving, Serves, OldAnswer
<1> QED
  BY <1>1, DnsInvariant, PTL

(* What is valid is never pushed out, and a request that resolved its name is
   turned away only by entries that were valid when it came. *)
THEOREM LimitIsNoDeadEnd == DnsSpec => CacheAtLimit
<1> DEFINE Law ==
      /\ \A x \in DOMAIN dnsCache \ DOMAIN dnsCache' : dnsCache[x].left > 0 => DnsRestart
      /\ \A g \in DOMAIN request \cap DOMAIN request' :
           request[g].pc = "store" /\ request'[g].pc = "dial" =>
             \/ request[g].host \in DOMAIN dnsCache'
             \/ \A x \in DOMAIN dnsCache' : ValidAt(dnsCache[x], request[g].stamp)
<1>1. DnsInv /\ [DnsNext]_dnsVars => [Law]_dnsVars
  <2> SUFFICES ASSUME DnsInv, DnsNext
               PROVE  Law
    OBVIOUS
  <2>1. ASSUME NEW g \in Requests, Store(g)
        PROVE  Law
    <3>1. /\ \A x \in DOMAIN dnsCache \ DOMAIN dnsCache' : dnsCache[x].left \in Int /\ dnsCache[x].left =< 0
          /\ \/ request[g].host \in DOMAIN dnsCache'
             \/ \A x \in DOMAIN dnsCache' : ValidAt(dnsCache[x], request[g].stamp)
      <4>1. \A x \in DOMAIN dnsCache : dnsCache[x].left \in Int
        BY DnsAssumption DEF DnsInv, CacheInv, EntryOf, Entries, Gone
      <4> QED
        BY <2>1, <4>1, StoreLaw
    <3>2. \A h \in DOMAIN request \ {g} : request'[h] = request[h]
      BY <2>1 DEF Store, DnsInv, RequestInv
    <3> QED
      BY <3>1, <3>2
  <2>2. ASSUME NEW g \in Requests, NEW host \in Hosts, Accept(g, host)
        PROVE  Law
    BY <2>2 DEF Accept, Set
  <2>3. ASSUME NEW g \in Requests, Hit(g) \/ Miss(g) \/ Resolved(g)
        PROVE  Law
    <3>1. g \in DOMAIN request /\ request[g].pc # "store" /\ dnsCache' = dnsCache
      BY <2>3 DEF Hit, Miss, Resolved, Serves
    <3>2. \A h \in DOMAIN request \ {g} : request'[h] = request[h]
      BY <2>3 DEF Hit, Miss, Resolved, DnsInv, RequestInv
    <3> QED
      BY <3>1, <3>2
  <2>4. ASSUME NEW g \in Requests, Refused(g) \/ Dial(g)
        PROVE  Law
    BY <2>4 DEF Refused, Dial, Leave, Restrict
  <2>5. CASE DnsRestart
    BY <2>5 DEF DnsRestart, NoEntries
  <2>6. CASE DnsTick
    <3>1. DOMAIN dnsCache' = DOMAIN dnsCache /\ DOMAIN request' = DOMAIN request
      BY <2>6 DEF DnsTick
    <3>2. \A g \in DOMAIN request : request'[g].pc = request[g].pc
      BY <2>6 DEF DnsTick, DnsInv, RequestInv, RequestOf, Serving
    <3> QED
      BY <3>1, <3>2
  <2> QED
    BY <2>1, <2>2, <2>3, <2>4, <2>5, <2>6 DEF DnsNext, Resolve
<1> QED
  BY <1>1, DnsInvariant, PTL DEF DnsSpec, CacheAtLimit

-----------------------------------------------------------------------------
(* The trend of the API server. *)

Calling == trend \in Calls

(* The map while no midnight has passed: the days counted back from today's. *)
MapInv ==
    Calling /\ ~trend.midnight =>
        /\ trend.pc = "fill" =>
             trend.i < trend.days /\ trend.byDate = day - (trend.i - 1) .. day
        /\ trend.pc \in {"query", "answer"} => trend.byDate = day - (trend.days - 1) .. day
        /\ trend.pc \in {"fill", "query", "answer"} => trend.start =< day - (trend.days - 1)

(* What was found, and the points of the answer so far. *)
AnswerInv ==
    Calling =>
        /\ trend.pc = "answer" => trend.i < trend.days
        /\ trend.pc \in {"answer", "done"} /\ ~trend.midnight =>
             \A d \in trend.rows \cap trend.byDate : d =< trend.today => d \in trend.found
        /\ trend.pc = "answer" /\ ~trend.midnight =>
             /\ Len(trend.out) = trend.days - 1 - trend.i
             /\ \A j \in 1 .. Len(trend.out) : trend.out[j] = day - trend.days + j
        /\ trend.pc = "done" =>
             /\ ~trend.midnight
             /\ Len(trend.out) = trend.days
             /\ \A j \in 1 .. Len(trend.out) :
                  trend.out[j] \in trend.byDate /\ trend.out[j] = trend.out[1] + j - 1
        /\ trend.pc = "panic" => trend.midnight

(* After midnight the map ends a day before the clock. *)
MidnightInv ==
    Calling =>
        /\ day \in {trend.today, trend.today + 1}
        /\ trend.pc = "start" => trend.i = 0 /\ trend.byDate = {} /\ ~trend.midnight
        /\ trend.pc \in {"start", "fill"} => trend.out = <<>>
        /\ trend.pc = "fill" => trend.i < trend.days /\ (trend.i = 0 => trend.byDate = {})
        /\ trend.pc = "query" => trend.out = <<>>
        /\ trend.midnight =>
             /\ day = trend.today + 1
             /\ \A d \in trend.byDate : d < day
             /\ trend.pc = "fill" => trend.i > 0

TrendInv == TrendTypeOK /\ MapInv /\ AnswerInv /\ MidnightInv

(* The types of the numbers of a call. *)
LEMMA CallLaw ==
    ASSUME TrendTypeOK, Calling
    PROVE  /\ MaxDays \in Nat /\ LastDay \in Nat /\ day \in 1 .. LastDay
           /\ trend.days \in 1 .. MaxDays /\ trend.i \in 0 .. MaxDays
           /\ trend.today \in 1 - MaxDays .. LastDay /\ trend.start \in 1 - MaxDays .. LastDay
           /\ trend.byDate \subseteq TrendDays /\ trend.found \subseteq TrendDays
           /\ trend.rows \subseteq TrendDays
           /\ trend.out \in Seq(TrendDays) /\ trend.midnight \in BOOLEAN
BY TrendAssumption DEF Calling, Calls, TrendTypeOK, TrendDays

(* The first steps: the clock is read for today, for the first day, and for each
   day of the map. *)
LEMMA FillLaw ==
    ASSUME TrendInv, FillMap
    PROVE  TrendInv'
<1>0. Calling /\ trend.pc = "fill"
  BY DEF FillMap, DoesNow, TrendInv, TrendTypeOK, NoTrend, Calling
<1> DEFINE step == IF trend.i + 1 = trend.days THEN "query" ELSE "fill"
           map == trend.byDate \cup {day - trend.i}
<1>1. trend' = [[[trend EXCEPT !.byDate = map] EXCEPT !.i = @ + 1] EXCEPT !.pc = step]
  BY DEF FillMap
<1>2. map \in SUBSET TrendDays /\ trend.i + 1 \in 0 .. MaxDays
      /\ step \in {"start", "fill", "query", "answer", "done", "panic"}
  BY <1>0, CallLaw DEF TrendInv, MidnightInv, TrendDays
<1> HIDE DEF step, map
<1>3. /\ trend' \in Calls
      /\ trend'.byDate = map /\ trend'.i = trend.i + 1 /\ trend'.pc = step
      /\ trend'.days = trend.days /\ trend'.today = trend.today /\ trend'.start = trend.start
      /\ trend'.out = trend.out /\ trend'.midnight = trend.midnight
  BY <1>0, <1>1, <1>2 DEF Calling, Calls
<1>4. day' = day /\ stored' = stored
  BY DEF FillMap
<1>5. TrendTypeOK'
  BY <1>3, <1>4 DEF TrendInv, TrendTypeOK
<1>6. MapInv'
  <2> SUFFICES ASSUME ~trend.midnight
               PROVE  MapInv'
    BY <1>3 DEF MapInv
  <2>1. map = day - trend.i .. day
    <3>1. /\ trend.i \in Nat /\ day \in Int
          /\ trend.byDate = day - (trend.i - 1) .. day
      BY <1>0, CallLaw DEF TrendInv, MapInv
    <3> QED
      BY <3>1 DEF map
  <2>2. /\ trend.i \in Nat /\ trend.days \in Nat /\ day \in Int
        /\ trend.i < trend.days /\ trend.start =< day - (trend.days - 1)
    BY <1>0, CallLaw DEF TrendInv, MapInv
  <2>3. trend.i = (trend.i + 1) - 1
    BY <2>2
  <2>4. CASE trend.i + 1 = trend.days
    <3>1. step = "query" /\ trend.i = trend.days - 1
      BY <2>2, <2>4 DEF step
    <3> QED
      BY <1>3, <1>4, <2>1, <2>2, <3>1 DEF MapInv
  <2>5. CASE trend.i + 1 # trend.days
    <3>1. step = "fill" /\ trend.i + 1 < trend.days
      BY <2>2, <2>5 DEF step
    <3> QED
      BY <1>3, <1>4, <2>1, <2>2, <2>3, <3>1 DEF MapInv
  <2> QED
    BY <2>4, <2>5
<1>7. AnswerInv'
  BY <1>3 DEF AnswerInv, step
<1>8. MidnightInv'
  BY <1>0, <1>3, <1>4, CallLaw DEF TrendInv, MidnightInv, step, map
<1> QED
  BY <1>5, <1>6, <1>7, <1>8 DEF TrendInv

(* The query finds all rows of the map up to today, and the loop starts at the
   first day. *)
LEMMA QueryLaw ==
    ASSUME TrendInv, QueryTrend
    PROVE  TrendInv'
<1>0. Calling /\ trend.pc = "query"
  BY DEF QueryTrend, DoesNow, TrendInv, TrendTypeOK, NoTrend, Calling
<1>1. trend' = [[[[trend EXCEPT !.found = Found] EXCEPT !.rows = stored]
                 EXCEPT !.i = LastIndex] EXCEPT !.pc = "answer"]
  BY DEF QueryTrend
<1>2. /\ Found \in SUBSET TrendDays /\ stored \in SUBSET TrendDays
      /\ LastIndex \in 0 .. MaxDays /\ LastIndex = trend.days - 1
  BY <1>0, CallLaw DEF TrendInv, TrendTypeOK, Found, LastIndex
<1>3. /\ trend' \in Calls
      /\ trend'.byDate = trend.byDate /\ trend'.i = trend.days - 1 /\ trend'.pc = "answer"
      /\ trend'.found = Found /\ trend'.rows = stored
      /\ trend'.days = trend.days /\ trend'.today = trend.today /\ trend'.start = trend.start
      /\ trend'.out = trend.out /\ trend'.midnight = trend.midnight
  BY <1>0, <1>1, <1>2 DEF Calling, Calls
<1>4. day' = day /\ stored' = stored
  BY DEF QueryTrend
<1>5. TrendTypeOK'
  BY <1>3, <1>4 DEF TrendInv, TrendTypeOK
<1>6. MapInv'
  BY <1>0, <1>3, <1>4 DEF TrendInv, MapInv
<1>7. AnswerInv'
  <2>1. trend.out = <<>> /\ trend.days \in Nat
    BY <1>0, CallLaw DEF TrendInv, MidnightInv
  <2>2. ASSUME ~trend.midnight, NEW d \in stored \cap trend.byDate, d =< trend.today
        PROVE  d \in Found
    <3>1. /\ trend.byDate = day - (trend.days - 1) .. day
          /\ trend.start =< day - (trend.days - 1)
      BY <1>0, <2>2 DEF TrendInv, MapInv
    <3>2. day \in Int /\ trend.days \in Int /\ trend.start \in Int
      BY <1>0, CallLaw DEF TrendInv
    <3>3. trend.start =< d
      BY <3>1, <3>2
    <3> QED
      BY <2>2, <3>3 DEF Found
  <2>3. Len(trend.out) = 0
    BY <2>1
  <2> QED
    BY <1>3, <1>4, <2>1, <2>2, <2>3 DEF AnswerInv
<1>8. MidnightInv'
  BY <1>0, <1>3, <1>4 DEF TrendInv, MidnightInv
<1> QED
  BY <1>5, <1>6, <1>7, <1>8 DEF TrendInv

(* A point of the answer: its day is in the map unless midnight has passed, and
   then the last of them is not. *)
LEMMA AnswerLaw ==
    ASSUME TrendInv, AnswerPoint
    PROVE  TrendInv'
<1>0. Calling /\ trend.pc = "answer" /\ day' = day /\ stored' = stored
  BY DEF AnswerPoint, DoesNow, TrendInv, TrendTypeOK, NoTrend, Calling
<1> DEFINE date == day - trend.i
           step == IF trend.i = 0 THEN "done" ELSE "answer"
           index == IF trend.i = 0 THEN 0 ELSE trend.i - 1
<1>1. CASE date \notin trend.byDate
  <2>1. trend' = [trend EXCEPT !.pc = "panic"]
    BY <1>1 DEF AnswerPoint
  <2>2. /\ trend' \in Calls
        /\ trend'.byDate = trend.byDate /\ trend'.i = trend.i /\ trend'.pc = "panic"
        /\ trend'.days = trend.days /\ trend'.today = trend.today
        /\ trend'.midnight = trend.midnight
    BY <1>0, <2>1 DEF Calling, Calls
  <2>3. trend.midnight
    <3> SUFFICES ASSUME ~trend.midnight
                 PROVE  date \in trend.byDate
      BY <1>1
    <3>1. /\ day \in Int /\ trend.i \in Nat /\ trend.days \in Nat /\ trend.i < trend.days
          /\ trend.byDate = day - (trend.days - 1) .. day
      BY <1>0, CallLaw DEF TrendInv, MapInv, AnswerInv
    <3> QED
      BY <3>1
  <2> QED
    BY <1>0, <2>2, <2>3 DEF TrendInv, TrendTypeOK, MapInv, AnswerInv, MidnightInv
<1>2. CASE date \in trend.byDate
  <2>1. trend' = [[[trend EXCEPT !.out = Append(@, date)] EXCEPT !.i = index] EXCEPT !.pc = step]
    BY <1>2 DEF AnswerPoint
  <2>2. /\ Append(trend.out, date) \in Seq(TrendDays)
        /\ index \in 0 .. MaxDays
        /\ step \in {"start", "fill", "query", "answer", "done", "panic"}
    <3>1. trend.out \in Seq(TrendDays) /\ date \in TrendDays /\ trend.i \in 0 .. MaxDays
      BY <1>0, <1>2, CallLaw DEF TrendInv
    <3> HIDE DEF date
    <3> QED
      BY <3>1, TrendAssumption
  <2> HIDE DEF step, index
  <2>3. /\ trend' \in Calls
        /\ trend'.byDate = trend.byDate /\ trend'.i = index /\ trend'.pc = step
        /\ trend'.found = trend.found /\ trend'.rows = trend.rows
        /\ trend'.days = trend.days /\ trend'.today = trend.today /\ trend'.start = trend.start
        /\ trend'.out = Append(trend.out, date) /\ trend'.midnight = trend.midnight
    BY <1>0, <2>1, <2>2 DEF Calling, Calls
  <2>4. TrendTypeOK'
    BY <1>0, <2>3 DEF TrendInv, TrendTypeOK
  <2>5. MapInv'
    BY <1>0, <2>3 DEF TrendInv, MapInv, step
  <2>6. MidnightInv'
    BY <1>0, <2>3 DEF TrendInv, MidnightInv, step
  <2>7. trend.i = 0 => ~trend.midnight
    BY <1>0, <1>2, CallLaw DEF TrendInv, MidnightInv
  <2>8. ASSUME ~trend.midnight
        PROVE  /\ Len(trend'.out) = trend.days - trend.i
               /\ \A j \in 1 .. Len(trend'.out) : trend'.out[j] = day - trend.days + j
    <3>1. /\ Len(trend.out) = trend.days - 1 - trend.i
          /\ \A j \in 1 .. Len(trend.out) : trend.out[j] = day - trend.days + j
          /\ trend.out \in Seq(TrendDays)
          /\ trend.days \in Int /\ trend.i \in Int /\ day \in Int
      BY <1>0, <2>8, CallLaw DEF TrendInv, AnswerInv
    <3>2. PICK n \in Nat : n = Len(trend.out)
      BY <3>1
    <3>3. /\ Len(trend'.out) = n + 1
          /\ trend'.out[n + 1] = day - trend.i
          /\ \A j \in 1 .. n : trend'.out[j] = trend.out[j]
      <4> HIDE DEF date
      <4>1. Append(trend.out, date) = [j \in 1 .. n + 1 |-> IF j = n + 1 THEN date ELSE trend.out[j]]
        BY <3>1, <3>2
      <4>2. Len(Append(trend.out, date)) = n + 1
        BY <3>1, <3>2
      <4> QED
        BY <2>3, <3>2, <4>1, <4>2 DEF date
    <3>4. n = trend.days - 1 - trend.i
      BY <3>1, <3>2
    <3>5. ASSUME NEW j \in 1 .. n + 1
          PROVE  trend'.out[j] = day - trend.days + j
      <4>1. CASE j = n + 1
        BY <3>1, <3>3, <3>4, <4>1
      <4>2. CASE j # n + 1
        <5>1. j \in 1 .. n
          BY <3>2, <4>2
        <5> QED
          BY <3>1, <3>2, <3>3, <5>1
      <4> QED
        BY <4>1, <4>2
    <3>6. n + 1 = trend.days - trend.i
      BY <3>1, <3>4
    <3> QED
      BY <3>3, <3>5, <3>6
  <2>9. CASE trend.i = 0
    <3>1. step = "done" /\ ~trend.midnight /\ trend.days \in Nat \ {0} /\ day \in Int
      BY <1>0, <2>7, <2>9, CallLaw DEF step, TrendInv
    <3>2. Len(trend'.out) = trend.days
      BY <2>8, <2>9, <3>1
    <3>3. ASSUME NEW j \in 1 .. trend.days
          PROVE  trend'.out[j] = day - trend.days + j
      BY <2>8, <3>1, <3>2
    <3>4. trend'.out[1] = day - trend.days + 1
      BY <3>1, <3>3
    <3>5. ASSUME NEW j \in 1 .. Len(trend'.out)
          PROVE  trend'.out[j] \in trend.byDate /\ trend'.out[j] = trend'.out[1] + j - 1
      <4>1. trend'.out[j] = day - trend.days + j /\ j \in 1 .. trend.days
        BY <3>2, <3>3
      <4>2. trend.byDate = day - (trend.days - 1) .. day
        BY <1>0, <3>1 DEF TrendInv, MapInv
      <4> QED
        BY <3>1, <3>4, <4>1, <4>2
    <3>6. AnswerInv'
      BY <1>0, <2>3, <3>1, <3>2, <3>5 DEF TrendInv, AnswerInv
    <3> QED
      BY <2>4, <2>5, <2>6, <3>6 DEF TrendInv
  <2>10. CASE trend.i # 0
    <3>1. /\ step = "answer" /\ index = trend.i - 1 /\ trend.i \in Nat /\ trend.days \in Nat
          /\ trend.i < trend.days
      BY <1>0, <2>10, CallLaw DEF step, index, TrendInv, AnswerInv
    <3>2. AnswerInv'
      BY <1>0, <2>3, <2>8, <3>1 DEF TrendInv, AnswerInv
    <3> QED
      BY <2>4, <2>5, <2>6, <3>2 DEF TrendInv
  <2> QED
    BY <2>9, <2>10
<1> QED
  BY <1>1, <1>2

(* The map, the answer and the midnight invariant are kept by every step. *)
THEOREM TrendInvariant == TrendSpec => []TrendInv
<1>1. TrendInit => TrendInv
  <2> SUFFICES ASSUME TrendInit PROVE TrendInv
    OBVIOUS
  <2>1. trend.pc = "idle" /\ trend = NoTrend
    BY DEF TrendInit, NoTrend
  <2>2. ~Calling
    BY <2>1 DEF Calling, Calls
  <2>3. TrendTypeOK
    <3>1. stored \subseteq 1 - MaxDays .. 1 /\ LastDay >= 1 /\ LastDay \in Nat /\ MaxDays \in Nat
      BY TrendAssumption DEF TrendInit
    <3>2. stored \subseteq TrendDays
      BY <3>1 DEF TrendDays
    <3>3. day \in 1 .. LastDay
      BY <3>1 DEF TrendInit
    <3> QED
      BY <2>1, <3>2, <3>3 DEF TrendTypeOK
  <2> QED
    BY <2>2, <2>3 DEF TrendInv, MapInv, AnswerInv, MidnightInv
<1>2. TrendInv /\ [TrendNext]_trendVars => TrendInv'
  <2> SUFFICES ASSUME TrendInv, [TrendNext]_trendVars
               PROVE  TrendInv'
    OBVIOUS
  <2>1. ASSUME NEW days \in 0 .. MaxAsked, AskTrend(days)
        PROVE  TrendInv'
    <3>1. MaxDays \in Nat \ {0} /\ days \in Nat /\ day \in 1 .. LastDay /\ LastDay \in Nat
      BY TrendAssumption DEF TrendInv, TrendTypeOK
    <3>2. CutTo(days) \in 1 .. MaxDays /\ day \in TrendDays /\ 0 \in 0 .. MaxDays
      BY <3>1 DEF CutTo, TrendDays
    <3>3. /\ trend' \in Calls
          /\ trend'.pc = "start" /\ trend'.today = day /\ trend'.i = 0 /\ trend'.byDate = {}
          /\ trend'.out = <<>> /\ trend'.midnight = FALSE
      <4>1. trend' = [pc |-> "start", days |-> CutTo(days), today |-> day, start |-> day, i |-> 0,
                      byDate |-> {}, found |-> {}, out |-> <<>>, rows |-> {}, midnight |-> FALSE]
        BY <2>1 DEF AskTrend
      <4> QED
        BY <3>2, <4>1 DEF Calls
    <3>4. day' = day /\ stored' = stored
      BY <2>1 DEF AskTrend
    <3> QED
      BY <3>3, <3>4 DEF TrendInv, TrendTypeOK, MapInv, AnswerInv, MidnightInv
  <2>2. CASE ReadStart
    <3>1. Calling /\ trend.pc = "start" /\ day' = day /\ stored' = stored
      BY <2>2 DEF ReadStart, DoesNow, TrendInv, TrendTypeOK, NoTrend, Calling
    <3> DEFINE first == day - (trend.days - 1)
    <3>2. trend' = [[trend EXCEPT !.pc = "fill"] EXCEPT !.start = first]
      BY <2>2 DEF ReadStart
    <3>3. /\ MaxDays \in Nat /\ LastDay \in Nat /\ day \in 1 .. LastDay /\ trend.days \in 1 .. MaxDays
          /\ first \in TrendDays
      <4>1. /\ MaxDays \in Nat /\ LastDay \in Nat /\ day \in 1 .. LastDay /\ trend.days \in 1 .. MaxDays
        BY <3>1, CallLaw DEF TrendInv
      <4> QED
        BY <4>1 DEF TrendDays
    <3> HIDE DEF first
    <3>4. /\ trend' \in Calls
          /\ trend'.byDate = trend.byDate /\ trend'.i = trend.i /\ trend'.pc = "fill"
          /\ trend'.days = trend.days /\ trend'.today = trend.today /\ trend'.start = first
          /\ trend'.out = trend.out /\ trend'.midnight = trend.midnight
      BY <3>1, <3>2, <3>3 DEF Calling, Calls
    <3>5. TrendTypeOK' /\ AnswerInv'
      BY <3>1, <3>4 DEF TrendInv, TrendTypeOK, AnswerInv
    <3>6. trend.i = 0 /\ trend.byDate = {} /\ trend.out = <<>>
      BY <3>1 DEF TrendInv, MidnightInv
    <3>7. ~trend.midnight
      BY <3>1 DEF TrendInv, MidnightInv
    <3>8. day - (0 - 1) .. day = {} /\ 0 < trend.days /\ first =< day - (trend.days - 1)
      BY <3>3 DEF first
    <3>9. MapInv'
      BY <3>1, <3>4, <3>6, <3>8 DEF MapInv
    <3>10. MidnightInv'
      BY <3>1, <3>4, <3>6, <3>7, <3>8 DEF TrendInv, MidnightInv
    <3> QED
      BY <3>5, <3>9, <3>10 DEF TrendInv
  <2>3. CASE FillMap
    BY <2>3, FillLaw
  <2>4. CASE QueryTrend
    BY <2>4, QueryLaw
  <2>5. CASE AnswerPoint
    BY <2>5, AnswerLaw
  <2>6. CASE TrendReturns
    <3>1. trend' = NoTrend /\ day' = day /\ stored' = stored /\ NoTrend.pc = "idle"
      BY <2>6 DEF TrendReturns, NoTrend
    <3>2. ~Calling'
      BY <3>1 DEF Calling, Calls
    <3> QED
      BY <3>1, <3>2 DEF TrendInv, TrendTypeOK, MapInv, AnswerInv, MidnightInv
  <2>7. CASE StoreRows
    <3>1. trend' = trend /\ day' = day /\ stored' = stored \cup {day}
      BY <2>7 DEF StoreRows
    <3>2. day \in TrendDays
      BY TrendAssumption DEF TrendInv, TrendTypeOK, TrendDays
    <3> QED
      BY <3>1, <3>2 DEF TrendInv, TrendTypeOK, MapInv, AnswerInv, MidnightInv, Calling
  <2>8. CASE TrendMidnight
    <3>1. day' = day + 1 /\ stored' = stored /\ day \in 1 .. LastDay /\ day < LastDay
      BY <2>8 DEF TrendMidnight, TrendInv, TrendTypeOK
    <3>2. day' \in 1 .. LastDay
      BY <3>1, TrendAssumption
    <3>3. CASE ~Calling
      <4>1. trend = NoTrend /\ NoTrend.pc = "idle"
        BY <3>3 DEF TrendInv, TrendTypeOK, Calling, NoTrend
      <4>2. trend' = NoTrend
        BY <2>8, <4>1 DEF TrendMidnight
      <4>3. ~Calling'
        BY <4>1, <4>2 DEF Calling, Calls
      <4> QED
        BY <3>1, <3>2, <4>2, <4>3 DEF TrendInv, TrendTypeOK, MapInv, AnswerInv, MidnightInv
    <3>4. CASE Calling
      <4>1. trend.pc # "idle" /\ trend.today = day
        <5>1. trend.pc # "idle"
          BY <3>4 DEF Calling, Calls
        <5> QED
          BY <2>8, <5>1 DEF TrendMidnight, DoesNow
      <4>2. ~trend.midnight
        BY <3>1, <3>4, <4>1 DEF TrendInv, MidnightInv
      <4>3. CASE trend.pc \in {"fill", "query", "answer"} /\ trend.byDate # {}
        <5>1. trend' = [trend EXCEPT !.midnight = TRUE]
          BY <2>8, <4>3 DEF TrendMidnight
        <5>2. /\ trend' \in Calls
              /\ trend'.byDate = trend.byDate /\ trend'.i = trend.i /\ trend'.pc = trend.pc
              /\ trend'.days = trend.days /\ trend'.today = trend.today
              /\ trend'.out = trend.out /\ trend'.midnight = TRUE
          BY <3>4, <5>1 DEF Calling, Calls
        <5>3. TrendTypeOK' /\ MapInv'
          BY <3>1, <3>2, <5>2 DEF TrendInv, TrendTypeOK, MapInv
        <5>4. AnswerInv'
          BY <3>4, <4>3, <5>2 DEF TrendInv, AnswerInv
        <5>5. ASSUME NEW d \in trend.byDate
              PROVE  d < day + 1
          <6>1. /\ day \in Int /\ trend.days \in Int /\ trend.i \in Int
                /\ \E a \in Int : trend.byDate = a .. day
            <7>1. day \in Int /\ trend.days \in Int /\ trend.i \in Int
              BY <3>4, CallLaw DEF TrendInv
            <7>2. day - (trend.i - 1) \in Int /\ day - (trend.days - 1) \in Int
              BY <7>1
            <7> QED
              BY <3>4, <4>3, <4>2, <7>1, <7>2 DEF TrendInv, MapInv
          <6> QED
            BY <6>1
        <5>6. trend.pc = "fill" => trend.i > 0
          BY <3>4, <4>3, CallLaw DEF TrendInv, MidnightInv
        <5>7. MidnightInv'
          BY <3>1, <3>4, <4>1, <4>3, <5>2, <5>5, <5>6 DEF TrendInv, MidnightInv
        <5> QED
          BY <5>3, <5>4, <5>7 DEF TrendInv
      <4>4. CASE ~(trend.pc \in {"fill", "query", "answer"} /\ trend.byDate # {})
        <5>1. trend' = trend
          BY <2>8, <4>4 DEF TrendMidnight
        <5>2. /\ day \in Int /\ trend.days \in Int /\ trend.i \in Int /\ trend.start \in Int
              /\ trend.days >= 1 /\ trend.i >= 0
          BY <3>4, CallLaw DEF TrendInv
        <5>3. trend.pc \notin {"query", "answer"}
          <6> SUFFICES ASSUME trend.pc \in {"query", "answer"}
                       PROVE  FALSE
            OBVIOUS
          <6>1. trend.byDate = day - (trend.days - 1) .. day
            BY <3>4, <4>2 DEF TrendInv, MapInv
          <6>2. day \in trend.byDate
            BY <5>2, <6>1
          <6> QED
            BY <4>4, <6>2
        <5>4. trend.pc = "fill" =>
                /\ trend.i = 0 /\ trend.byDate = {}
                /\ trend.i < trend.days /\ trend.start =< day - (trend.days - 1)
          <6> SUFFICES ASSUME trend.pc = "fill"
                       PROVE  /\ trend.i = 0 /\ trend.byDate = {}
                              /\ trend.i < trend.days /\ trend.start =< day - (trend.days - 1)
            OBVIOUS
          <6>1. /\ trend.byDate = day - (trend.i - 1) .. day /\ trend.byDate = {}
                /\ trend.i < trend.days /\ trend.start =< day - (trend.days - 1)
            BY <3>4, <4>4, <4>2 DEF TrendInv, MapInv
          <6>2. day \notin day - (trend.i - 1) .. day
            BY <6>1
          <6> QED
            BY <5>2, <6>1, <6>2
        <5>5. TrendTypeOK'
          BY <3>1, <3>2, <5>1 DEF TrendInv, TrendTypeOK
        <5>6. MapInv'
          <6>1. (day + 1) - (0 - 1) .. day + 1 = {}
            BY <5>2
          <6>2. trend.start =< day - (trend.days - 1) => trend.start =< (day + 1) - (trend.days - 1)
            BY <5>2
          <6> QED
            BY <3>1, <5>1, <5>3, <5>4, <6>1, <6>2 DEF MapInv
        <5>7. AnswerInv' /\ MidnightInv'
          BY <3>1, <3>4, <4>1, <4>2, <5>1, <5>3 DEF TrendInv, AnswerInv, MidnightInv, Calling
        <5> QED
          BY <5>5, <5>6, <5>7 DEF TrendInv
      <4> QED
        BY <4>3, <4>4
    <3> QED
      BY <3>3, <3>4
  <2>9. CASE UNCHANGED trendVars
    BY <2>9 DEF trendVars, TrendInv, TrendTypeOK, MapInv, AnswerInv, MidnightInv, Calling
  <2> QED
    BY <2>1, <2>2, <2>3, <2>4, <2>5, <2>6, <2>7, <2>8, <2>9 DEF TrendNext
<1> QED
  BY <1>1, <1>2, PTL DEF TrendSpec

(* Every variable keeps its type. *)
THEOREM TrendTypes == TrendSpec => []TrendTypeOK
BY TrendInvariant, PTL DEF TrendInv

(* A call is lost only if midnight passes between the first day it puts into the
   map and the last it takes out, and then it is never answered. *)
THEOREM LostOnlyAtMidnight == TrendSpec => []TrendLostOnlyAtMidnight
<1>1. TrendInv => TrendLostOnlyAtMidnight
  BY DEF TrendInv, TrendTypeOK, NoTrend, Calling, AnswerInv, TrendLostOnlyAtMidnight, DoesNow
<1> QED
  BY <1>1, TrendInvariant, PTL

(* An answer has every day asked for, in order, each with the rows there were. *)
THEOREM AnswersInFull == TrendSpec => []TrendInFull
<1>1. TrendInv => TrendInFull
  <2> SUFFICES ASSUME TrendInv, DoesNow("done")
               PROVE  /\ Len(trend.out) = trend.days
                      /\ \A j \in DOMAIN trend.out :
                           /\ trend.out[j] = trend.out[1] + j - 1
                           /\ trend.out[j] \in trend.rows \ trend.found => trend.out[j] > trend.today
    BY DEF TrendInFull
  <2>1. Calling /\ trend.pc = "done"
    BY DEF DoesNow, TrendInv, TrendTypeOK, NoTrend, Calling
  <2>2. /\ ~trend.midnight /\ Len(trend.out) = trend.days
        /\ \A j \in 1 .. Len(trend.out) :
             trend.out[j] \in trend.byDate /\ trend.out[j] = trend.out[1] + j - 1
        /\ \A d \in trend.rows \cap trend.byDate : d =< trend.today => d \in trend.found
    BY <2>1 DEF TrendInv, AnswerInv
  <2>3. /\ DOMAIN trend.out = 1 .. Len(trend.out)
        /\ trend.today \in Int /\ \A d \in trend.byDate : d \in Int
    BY <2>1, CallLaw DEF TrendInv, TrendDays
  <2>4. ASSUME NEW j \in 1 .. Len(trend.out), trend.out[j] \in trend.rows \ trend.found
        PROVE  trend.out[j] > trend.today
    <3>1. PICK d \in trend.byDate : d = trend.out[j]
      BY <2>2
    <3>2. d \in Int /\ d \in trend.rows /\ d \notin trend.found
      BY <2>3, <2>4, <3>1
    <3>3. ~(d =< trend.today)
      BY <2>2, <3>2
    <3> QED
      BY <2>3, <3>1, <3>2, <3>3
  <2> QED
    BY <2>2, <2>3, <2>4
<1> QED
  BY <1>1, TrendInvariant, PTL

-----------------------------------------------------------------------------
(* The servers together. *)

(* The four share nothing: a behaviour of the servers is one of each of them. *)
LEMMA ServersAreFour ==
    ServersSpec => /\ LoginInit /\ [][LoginNext]_loginVars
                   /\ SessionSpec /\ DnsSpec /\ TrendSpec
<1>1. ServersInit => LoginInit /\ SessionInit /\ DnsInit /\ TrendInit
  BY DEF ServersInit
<1>2. [ServersNext]_serversVars =>
        /\ [LoginNext]_loginVars /\ [SessionNext]_sessionVars
        /\ [DnsNext]_dnsVars /\ [TrendNext]_trendVars
  BY DEF ServersNext, serversVars, Quiet
<1> QED
  BY <1>1, <1>2, PTL DEF ServersSpec, SessionSpec, DnsSpec, TrendSpec

(* No operation of the limiter, the session map, the name cache or the trend
   leaves the types of its state. *)
THEOREM ServersTypes == ServersSpec => []ServersTypeOK
<1>1. LoginInv => LoginTypeOK
  BY DEF LoginInv
<1>2. SessionInv => SessionTypeOK
  BY DEF SessionInv
<1> QED
  BY <1>1, <1>2, ServersAreFour, LoginSafety, SessionInvariant, DnsTypes, TrendTypes, PTL
     DEF ServersTypeOK

====
