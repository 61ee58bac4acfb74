------------------------- MODULE McpToolGateProofs -------------------------
(***************************************************************************)
(* The theorems about McpToolGate, for any finite set of runs and any sets  *)
(* of schemas, conversations, confirmations and concurrent requests.        *)
(*                                                                         *)
(* PolicyInv is about the policy row, RunInv about what a run's copy of the *)
(* catalog and the confirmation it holds rest on, and ConfInv counts: a     *)
(* consumed confirmation has exactly one call, made or about to be made.    *)
(* Every step keeps the identity of the confirmations that exist (Keeps),   *)
(* and every step but Consume and Spend leaves the count alone (Steady).    *)
(***************************************************************************)
EXTENDS McpToolGate, FiniteSetTheorems, TLAPS

ReviewsHaveSnapshots ==
    \A v \in Reviews : review[v].pc # "idle" => review[v].hash \in Schemas

PolicyInv == EnabledIsReviewed /\ ReviewsHaveSnapshots

\* What holds of one run, given the confirmations.
RunOK(rec, cf) ==
    /\ rec.pc \notin {"new", "list"} => rec.hash \in Schemas
    /\ rec.pc = "consume" => rec.using # None
    /\ rec.pc \notin {"consume", "call"} => rec.using = None
    /\ rec.pc = "call" /\ rec.using = None => rec.hash \notin Destructive
    /\ rec.using # None =>
          /\ cf[rec.using].thread = rec.thread
          /\ cf[rec.using].args = rec.args
          /\ cf[rec.using].hash = rec.hash
          /\ cf[rec.using].status # "absent"

RunInv == \A r \in Runs : RunOK(run[r], conf)

InCall(rec, c) == rec.pc = "call" /\ rec.using = c

ConfInv ==
    \A c \in Confirmations :
        /\ conf[c].status \in {"approved", "consumed"} => c \in granted
        /\ used[c] \in {0, 1}
        /\ used[c] = 1 => conf[c].status = "consumed"
        /\ used[c] = 1 => \A r \in Runs : ~InCall(run[r], c)
        /\ \A r \in Runs : InCall(run[r], c) => conf[c].status = "consumed"
        /\ \A r, q \in Runs : InCall(run[r], c) /\ InCall(run[q], c) => r = q
        /\ conf[c].status = "consumed" =>
              used[c] = 1 \/ \E r \in Runs : InCall(run[r], c)

DecidersHaveRows ==
    \A d \in Deciders : decider[d].pc # "idle" => decider[d].conf \in Confirmations

IInv == TypeOK /\ PolicyInv /\ RunInv /\ ConfInv /\ DecidersHaveRows

\* A confirmation that exists keeps its identity.
Keeps(cf, cf2) ==
    \A c \in Confirmations : cf[c].status # "absent" =>
        /\ cf2[c].status # "absent"
        /\ cf2[c].thread = cf[c].thread
        /\ cf2[c].args = cf[c].args
        /\ cf2[c].hash = cf[c].hash

\* Nothing is consumed, spent or approved without the user.
Steady ==
    /\ used' = used
    /\ granted \subseteq granted'
    /\ \A c \in Confirmations :
          /\ conf'[c].status = "consumed" <=> conf[c].status = "consumed"
          /\ conf'[c].status = "approved" =>
                conf[c].status = "approved" \/ c \in granted'
    /\ \A r \in Runs, c \in Confirmations :
          InCall(run'[r], c) <=> InCall(run[r], c)

\* The moves of DecisionIsFinal.
Final ==
    \A c \in Confirmations :
        conf'[c].status # conf[c].status =>
            <<conf[c].status, conf'[c].status>> \in
               {<<"absent", "pending">>, <<"pending", "approved">>,
                <<"pending", "denied">>, <<"pending", "expired">>,
                <<"approved", "consumed">>, <<"approved", "expired">>}

\* Only run r changes.
OnlyRun(r) ==
    /\ run' \in [Runs -> Run]
    /\ \A q \in Runs \ {r} : run'[q] = run[q]

(***************************************************************************)
(* What the pieces keep.                                                   *)
(***************************************************************************)

LEMMA RunKept ==
  ASSUME NEW x \in Run, NEW cf, NEW cf2,
         RunOK(x, cf), Keeps(cf, cf2)
  PROVE  RunOK(x, cf2)
  <1>1. x.using # None => x.using \in Confirmations
    BY DEF Run
  <1> QED BY <1>1 DEF RunOK, Keeps

LEMMA RunsKept ==
  ASSUME TypeOK, RunInv, Keeps(conf, conf'),
         NEW r \in Runs, OnlyRun(r), RunOK(run'[r], conf')
  PROVE  RunInv'
  <1>1. ASSUME NEW q \in Runs PROVE RunOK(run'[q], conf')
    <2>1. CASE q = r
      BY <2>1
    <2>2. CASE q # r
      <3>1. run'[q] = run[q] /\ run[q] \in Run
        BY <2>2 DEF OnlyRun, TypeOK
      <3>2. RunOK(run[q], conf)
        BY DEF RunInv
      <3>3. RunOK(run[q], conf')
        BY <3>1, <3>2, RunKept
      <3> QED BY <3>1, <3>3
    <2> QED BY <2>1, <2>2
  <1> QED BY <1>1 DEF RunInv

LEMMA AllRunsKept ==
  ASSUME TypeOK, RunInv, Keeps(conf, conf'), run' = run
  PROVE  RunInv'
  <1>1. ASSUME NEW q \in Runs PROVE RunOK(run[q], conf')
    <2>1. run[q] \in Run /\ RunOK(run[q], conf)
      BY DEF TypeOK, RunInv
    <2> QED BY <2>1, RunKept
  <1> QED BY <1>1 DEF RunInv

LEMMA SteadyKeepsConfInv ==
  ASSUME ConfInv, Steady
  PROVE  ConfInv'
  BY DEF ConfInv, Steady

LEMMA SameConf ==
  ASSUME conf' = conf
  PROVE  Keeps(conf, conf') /\ Final
  BY DEF Keeps, Final

LEMMA PolicyKept ==
  ASSUME PolicyInv, UNCHANGED <<policy, choice, review>>
  PROVE  PolicyInv'
  BY DEF PolicyInv, EnabledIsReviewed, ReviewsHaveSnapshots

(***************************************************************************)
(* The server, the connection, and the exposure policy.                    *)
(***************************************************************************)

\* The steps that touch neither runs nor confirmations.
PolicySteps ==
    ChangeTool \/ SwitchServer \/ DeleteServer \/ PolicyNext

\* What these steps leave alone.
Aside == UNCHANGED <<conf, lapsed, decider, run, granted, used>>

LEMMA NoPolicyType == NoPolicy \in Policy
  BY DEF NoPolicy, Policy, Mode

LEMMA UnreviewedType ==
  ASSUME NEW s \in Schemas
  PROVE  Unreviewed(s) \in Policy /\ ~Unreviewed(s).enabled
  BY DEF Unreviewed, Policy, Mode

LEMMA IdleTypes ==
  IdleListing \in Listing /\ IdleReview \in Review /\ IdleDecider \in Decider
  BY DEF IdleListing, IdleReview, IdleDecider, Listing, Review, Decider, Mode

LEMMA AsideKeepsTypes ==
  ASSUME TypeOK, Aside
  PROVE  /\ conf' \in [Confirmations -> Conf] /\ lapsed' \subseteq Confirmations
         /\ decider' \in [Deciders -> Decider] /\ run' \in [Runs -> Run]
         /\ granted' \subseteq Confirmations /\ used' \in [Confirmations -> Nat]
  BY DEF TypeOK, Aside

LEMMA MoveType ==
  ASSUME TypeOK, Move
  PROVE  moves' \in 0..MaxMoves
  BY MovesAssumption DEF TypeOK, Move

\* A row that moves to a new snapshot, or is staged, is disabled.
LEMMA DisabledOrSame ==
  ASSUME IInv, policy' = policy \/ ~policy'.enabled, UNCHANGED choice,
         ReviewsHaveSnapshots'
  PROVE  PolicyInv'
  BY DEF IInv, PolicyInv, EnabledIsReviewed

LEMMA ConnectionStep ==
  ASSUME IInv, ChangeTool \/ SwitchServer \/ DeleteServer
  PROVE  TypeOK' /\ PolicyInv' /\ Aside
  <1>1. Aside /\ UNCHANGED <<choice, listing, review>>
    BY DEF ChangeTool, SwitchServer, DeleteServer, Aside, requests, history
  <1>2. moves' \in 0..MaxMoves
    BY MoveType DEF IInv, ChangeTool, SwitchServer, DeleteServer
  <1>3. /\ live' \in Schemas \cup {None}
        /\ server' \in {"enabled", "disabled", "deleted"}
    BY DEF IInv, TypeOK, ChangeTool, SwitchServer, DeleteServer
  <1>4. policy' = policy \/ policy' = NoPolicy
    BY DEF ChangeTool, SwitchServer, DeleteServer
  <1>5. policy' \in Policy
    BY <1>4, NoPolicyType DEF IInv, TypeOK
  <1>6. TypeOK'
    BY <1>1, <1>2, <1>3, <1>5, AsideKeepsTypes DEF IInv, TypeOK
  <1>7. ReviewsHaveSnapshots'
    BY <1>1 DEF IInv, PolicyInv, ReviewsHaveSnapshots
  <1>8. policy' = policy \/ ~policy'.enabled
    BY <1>4 DEF NoPolicy
  <1> QED BY <1>1, <1>6, <1>7, <1>8, DisabledOrSame

LEMMA ListingStep ==
  ASSUME IInv, NEW l \in Listings,
         ListTools(l) \/ ReadPolicies(l) \/ Reconcile(l)
  PROVE  TypeOK' /\ PolicyInv' /\ Aside
  <1>1. /\ Aside
        /\ UNCHANGED <<choice, review, live, server>>
    BY DEF ListTools, ReadPolicies, Reconcile, ListingFrame, Aside, history
  <1>2. moves' \in 0..MaxMoves
    BY MoveType DEF IInv, TypeOK, ListTools, ReadPolicies, Reconcile
  <1>3. ReviewsHaveSnapshots'
    BY <1>1 DEF IInv, PolicyInv, ReviewsHaveSnapshots
  <1>4. listing[l] \in Listing
    BY DEF IInv, TypeOK
  <1>5. /\ listing' \in [Listings -> Listing]
        /\ policy' \in Policy
        /\ policy' = policy \/ ~policy'.enabled
    <2>1. CASE ListTools(l)
      <3>1. [listing[l] EXCEPT !.pc = "read", !.seen = live] \in Listing
        BY <1>4 DEF IInv, TypeOK, Listing
      <3> QED BY <2>1, <3>1 DEF ListTools, IInv, TypeOK
    <2>2. CASE ReadPolicies(l)
      <3>1. [listing[l] EXCEPT !.pc = "write", !.had = policy.hash] \in Listing
        BY <1>4 DEF IInv, TypeOK, Listing, Policy
      <3> QED BY <2>2, <3>1, IdleTypes DEF ReadPolicies, IInv, TypeOK
    <2>3. CASE Reconcile(l)
      <3>1. listing' \in [Listings -> Listing]
        BY <2>3, IdleTypes DEF Reconcile, IInv, TypeOK
      <3>2. policy' = policy \/ policy' = Unreviewed(listing[l].seen)
        BY <2>3 DEF Reconcile, Reconciled
      <3>3. policy' \in Policy /\ (policy' = policy \/ ~policy'.enabled)
        <4>1. listing[l].seen \in Schemas \cup {None}
          BY <1>4 DEF Listing
        <4>2. /\ Unreviewed(listing[l].seen) \in Policy
              /\ ~Unreviewed(listing[l].seen).enabled
          BY <4>1 DEF Unreviewed, Policy, Mode
        <4> QED BY <3>2, <4>2 DEF IInv, TypeOK
      <3> QED BY <3>1, <3>3
    <2> QED BY <2>1, <2>2, <2>3
  <1>6. TypeOK'
    BY <1>1, <1>2, <1>5, AsideKeepsTypes DEF IInv, TypeOK
  <1> QED BY <1>1, <1>3, <1>5, <1>6, DisabledOrSame

LEMMA ImportStep ==
  ASSUME IInv, NEW s \in Schemas, NEW mode \in Mode, ImportPolicy(s, mode)
  PROVE  TypeOK' /\ PolicyInv' /\ Aside
  <1>1. /\ Aside
        /\ UNCHANGED <<choice, listing, review, live, server>>
    BY DEF ImportPolicy, Aside, requests, history
  <1>2. moves' \in 0..MaxMoves
    BY MoveType DEF IInv, ImportPolicy
  <1>3. policy' \in Policy /\ ~policy'.enabled
    BY DEF ImportPolicy, Policy
  <1>4. TypeOK'
    BY <1>1, <1>2, <1>3, AsideKeepsTypes DEF IInv, TypeOK
  <1>5. ReviewsHaveSnapshots'
    BY <1>1 DEF IInv, PolicyInv, ReviewsHaveSnapshots
  <1> QED BY <1>1, <1>3, <1>4, <1>5, DisabledOrSame

LEMMA ReviewStep ==
  ASSUME IInv, NEW v \in Reviews,
         \/ \E s \in Schemas, enabled \in BOOLEAN, mode \in Mode :
               StartReview(v, s, enabled, mode)
         \/ SelectSnapshot(v)
  PROVE  TypeOK' /\ PolicyInv' /\ Aside
  <1>1. /\ Aside
        /\ UNCHANGED <<choice, listing, live, server, policy>>
    BY DEF StartReview, SelectSnapshot, ReviewFrame, Aside
  <1>2. moves' \in 0..MaxMoves
    BY MoveType DEF IInv, TypeOK, StartReview, SelectSnapshot
  <1>3. review[v] \in Review
    BY DEF IInv, TypeOK
  <1>4. review' \in [Reviews -> Review] /\ ReviewsHaveSnapshots'
    <2>1. ASSUME NEW s \in Schemas, NEW enabled \in BOOLEAN, NEW mode \in Mode,
                 StartReview(v, s, enabled, mode)
          PROVE  review' \in [Reviews -> Review] /\ ReviewsHaveSnapshots'
      <3>1. [pc |-> "select", hash |-> s, enabled |-> enabled, mode |-> mode]
              \in Review
        BY DEF Review
      <3> QED BY <2>1, <3>1 DEF StartReview, IInv, TypeOK, PolicyInv,
                               ReviewsHaveSnapshots
    <2>2. CASE SelectSnapshot(v)
      <3>1. /\ [review[v] EXCEPT !.pc = "update"] \in Review
            /\ [review[v] EXCEPT !.pc = "update"].hash = review[v].hash
        BY <1>3 DEF Review
      <3>2. review[v].hash \in Schemas
        BY <2>2 DEF SelectSnapshot, IInv, PolicyInv, ReviewsHaveSnapshots
      <3> QED BY <2>2, <3>1, <3>2, IdleTypes
              DEF SelectSnapshot, IInv, TypeOK, PolicyInv, IdleReview,
                  ReviewsHaveSnapshots
    <2> QED BY <2>1, <2>2
  <1>5. TypeOK'
    BY <1>1, <1>2, <1>4, AsideKeepsTypes DEF IInv, TypeOK
  <1> QED BY <1>1, <1>4, <1>5, DisabledOrSame

LEMMA UpdateStep ==
  ASSUME IInv, NEW v \in Reviews, UpdatePolicy(v)
  PROVE  TypeOK' /\ PolicyInv' /\ Aside
  <1>1. Aside /\ UNCHANGED <<moves, listing, live, server>>
    BY DEF UpdatePolicy, ReviewFrame, Aside
  <1>2. review[v] \in Review /\ review[v].hash \in Schemas /\ policy \in Policy
    BY DEF IInv, TypeOK, PolicyInv, ReviewsHaveSnapshots, UpdatePolicy
  <1>3. review' \in [Reviews -> Review] /\ ReviewsHaveSnapshots'
    BY IdleTypes DEF UpdatePolicy, IInv, TypeOK, PolicyInv, IdleReview,
                     ReviewsHaveSnapshots
  <1>4. CASE ~ReviewApplies(v)
    <2>1. UNCHANGED <<policy, choice>>
      BY <1>4 DEF UpdatePolicy
    <2>2. TypeOK'
      BY <1>1, <1>3, <2>1, AsideKeepsTypes DEF IInv, TypeOK
    <2> QED BY <1>1, <1>3, <2>1, <2>2, DisabledOrSame
  <1>5. CASE ReviewApplies(v)
    <2> DEFINE new == [enabled |-> review[v].enabled, mode |-> review[v].mode]
    <2>1. /\ policy' = [policy EXCEPT !.enabled = review[v].enabled,
                                      !.mode = review[v].mode]
          /\ choice' = [choice EXCEPT ![review[v].hash] = new]
      BY <1>5 DEF UpdatePolicy
    <2>2. /\ policy' \in Policy /\ policy'.hash = review[v].hash
          /\ policy'.enabled = review[v].enabled
          /\ policy'.mode = review[v].mode
      BY <1>2, <1>5, <2>1 DEF Policy, Review, ReviewApplies
    <2>3. new \in Choice
      BY <1>2 DEF Choice, Review
    <2>4. choice' \in [Schemas -> Choice] /\ choice'[review[v].hash] = new
      BY <1>2, <2>1, <2>3 DEF IInv, TypeOK
    <2>5. TypeOK'
      BY <1>1, <1>3, <2>2, <2>4, AsideKeepsTypes DEF IInv, TypeOK
    <2>6. EnabledIsReviewed'
      BY <1>2, <2>2, <2>4, NoneAssumption DEF EnabledIsReviewed
    <2> QED BY <1>1, <1>3, <2>5, <2>6 DEF PolicyInv
  <1> QED BY <1>4, <1>5

LEMMA PolicyStep ==
  ASSUME IInv, PolicySteps
  PROVE  IInv' /\ Final
  <1>1. TypeOK' /\ PolicyInv' /\ Aside
    BY ConnectionStep, ListingStep, ImportStep, ReviewStep, UpdateStep
       DEF PolicySteps, PolicyNext
  <1>2. Keeps(conf, conf') /\ Final
    BY <1>1, SameConf DEF Aside
  <1>3. RunInv'
    BY <1>1, <1>2, AllRunsKept DEF IInv, Aside
  <1>4. ConfInv'
    BY <1>1, SteadyKeepsConfInv DEF IInv, Aside, Steady
  <1>5. DecidersHaveRows'
    BY <1>1 DEF IInv, Aside, DecidersHaveRows
  <1> QED BY <1>1, <1>2, <1>3, <1>4, <1>5 DEF IInv

(***************************************************************************)
(* The clock and the user.                                                 *)
(***************************************************************************)

LEMMA ExpiredKeeps ==
  ASSUME TypeOK, NEW now, conf' = Expired(now)
  PROVE  /\ conf' \in [Confirmations -> Conf]
         /\ Keeps(conf, conf') /\ Final
         /\ \A c \in Confirmations :
              /\ conf'[c].status = "consumed" <=> conf[c].status = "consumed"
              /\ conf'[c].status = "approved" => conf[c].status = "approved"
  <1>1. ASSUME NEW c \in Confirmations
        PROVE  /\ conf'[c] \in Conf
               /\ conf'[c].thread = conf[c].thread /\ conf'[c].args = conf[c].args
               /\ conf'[c].hash = conf[c].hash
               /\ \/ conf'[c].status = conf[c].status
                  \/ /\ conf[c].status \in {"pending", "approved"}
                     /\ conf'[c].status = "expired"
    <2>1. conf[c] \in Conf
      BY DEF TypeOK
    <2>2. conf'[c] = IF c \in now /\ conf[c].status \in {"pending", "approved"}
                     THEN [conf[c] EXCEPT !.status = "expired"] ELSE conf[c]
      BY DEF Expired
    <2> QED BY <2>1, <2>2 DEF Conf, Status
  <1>2. conf' \in [Confirmations -> Conf]
    BY <1>1 DEF Expired
  <1> QED BY <1>1, <1>2 DEF Keeps, Final

\* What the steps of the user and the clock leave alone.
LEMMA UserFrame ==
  ASSUME IInv, UNCHANGED <<store, listing, review, run, choice, used>>,
         conf' \in [Confirmations -> Conf], lapsed' \subseteq Confirmations,
         decider' \in [Deciders -> Decider], granted' \subseteq Confirmations,
         Keeps(conf, conf'), Steady, DecidersHaveRows'
  PROVE  IInv'
  <1>1. TypeOK'
    BY DEF IInv, TypeOK, store
  <1>2. PolicyInv'
    BY PolicyKept DEF IInv, store
  <1>3. RunInv'
    BY AllRunsKept DEF IInv
  <1>4. ConfInv'
    BY SteadyKeepsConfInv DEF IInv
  <1> QED BY <1>1, <1>2, <1>3, <1>4 DEF IInv

LEMMA WriteStep ==
  ASSUME IInv, NEW d \in Deciders, WriteDecision(d)
  PROVE  IInv' /\ Final
  <1>1. decider[d] \in Decider
    BY DEF IInv, TypeOK
  <1>2. decider' \in [Deciders -> Decider] /\ DecidersHaveRows'
    BY IdleTypes DEF IInv, TypeOK, WriteDecision, IdleDecider, DecidersHaveRows
  <1>3. UNCHANGED <<store, lapsed, listing, review, run, choice, used>>
    BY DEF WriteDecision
  <1>4. CASE ~StillPending(d)
    <2>1. conf' = conf /\ granted' = granted
      BY <1>4 DEF WriteDecision
    <2>2. Steady
      BY <1>3, <2>1 DEF Steady
    <2>3. Keeps(conf, conf') /\ Final
      BY <2>1, SameConf
    <2> QED BY <1>2, <1>3, <2>1, <2>2, <2>3, UserFrame DEF IInv, TypeOK
  <1>5. CASE StillPending(d)
    <2> DEFINE k == decider[d].conf
    <2>1. /\ conf' = [conf EXCEPT ![k].status = decider[d].status]
          /\ granted' = IF decider[d].status = "approved"
                        THEN granted \cup {k} ELSE granted
          /\ conf[k].status = "pending"
      BY <1>5 DEF WriteDecision, StillPending
    <2>2. k \in Confirmations
      BY DEF IInv, DecidersHaveRows, WriteDecision
    <2>3. conf[k] \in Conf /\ decider[d].status \in {"approved", "denied"}
      BY <1>1, <2>2 DEF IInv, TypeOK, Decider
    <2>4. /\ [conf[k] EXCEPT !.status = decider[d].status] \in Conf
          /\ conf' = [conf EXCEPT ![k] =
                        [conf[k] EXCEPT !.status = decider[d].status]]
      BY <2>1, <2>3 DEF Conf, Status
    <2>5. /\ conf' \in [Confirmations -> Conf]
          /\ conf'[k] = [conf[k] EXCEPT !.status = decider[d].status]
          /\ \A c \in Confirmations \ {k} : conf'[c] = conf[c]
      BY <2>2, <2>4 DEF IInv, TypeOK
    <2>6. /\ conf'[k].status = decider[d].status
          /\ conf'[k].thread = conf[k].thread /\ conf'[k].args = conf[k].args
          /\ conf'[k].hash = conf[k].hash
      BY <2>3, <2>5 DEF Conf
    <2>7. Keeps(conf, conf') /\ Final
      BY <2>1, <2>3, <2>5, <2>6 DEF Keeps, Final
    <2>8. granted \subseteq granted' /\ granted' \subseteq Confirmations
      BY <2>1, <2>2 DEF IInv, TypeOK
    <2>9. Steady
      BY <1>3, <2>1, <2>3, <2>5, <2>6, <2>8 DEF Steady
    <2> QED BY <1>2, <1>3, <2>5, <2>7, <2>8, <2>9, UserFrame DEF IInv, TypeOK
  <1> QED BY <1>4, <1>5

LEMMA UserStep ==
  ASSUME IInv, UserNext \/ \E c \in Confirmations : Lapse(c)
  PROVE  IInv' /\ Final
  <1>1. ASSUME NEW c \in Confirmations, Lapse(c) PROVE IInv' /\ Final
    <2>1. /\ UNCHANGED <<store, conf, listing, review, decider, run, choice,
                         granted, used>>
          /\ lapsed' = lapsed \cup {c}
      BY <1>1 DEF Lapse, requests, history
    <2>2. Keeps(conf, conf') /\ Final /\ Steady
      BY <2>1, SameConf DEF Steady
    <2>3. DecidersHaveRows'
      BY <2>1 DEF IInv, DecidersHaveRows
    <2> QED BY <2>1, <2>2, <2>3, UserFrame DEF IInv, TypeOK
  <1>2. CASE ListPending
    <2>1. /\ UNCHANGED <<store, lapsed, listing, review, decider, run, choice,
                         granted, used>>
          /\ conf' = Expired(lapsed)
      BY <1>2 DEF ListPending, requests, history
    <2>2. /\ conf' \in [Confirmations -> Conf]
          /\ Keeps(conf, conf') /\ Final /\ Steady
      BY <2>1, ExpiredKeeps DEF Steady, IInv
    <2>3. DecidersHaveRows'
      BY <2>1 DEF IInv, DecidersHaveRows
    <2> QED BY <2>1, <2>2, <2>3, UserFrame DEF IInv, TypeOK
  <1>3. ASSUME NEW d \in Deciders, NEW c \in Confirmations,
               NEW s \in {"approved", "denied"}, ReadDecision(d, c, s)
        PROVE  IInv' /\ Final
    <2>1. UNCHANGED <<store, conf, lapsed, listing, review, run, choice,
                      granted, used>>
      BY <1>3 DEF ReadDecision, history
    <2>2. decider' \in [Deciders -> Decider] /\ DecidersHaveRows'
      <3>1. [pc |-> "write", conf |-> c, status |-> s] \in Decider
        BY DEF Decider
      <3> QED BY <1>3, <3>1 DEF ReadDecision, IInv, TypeOK, DecidersHaveRows
    <2>3. Keeps(conf, conf') /\ Final /\ Steady
      BY <2>1, SameConf DEF Steady
    <2> QED BY <2>1, <2>2, <2>3, UserFrame DEF IInv, TypeOK
  <1> QED BY <1>1, <1>2, <1>3, WriteStep DEF UserNext

(***************************************************************************)
(* The runs.                                                               *)
(***************************************************************************)

LEMMA SetRun ==
  ASSUME TypeOK, NEW r \in Runs, NEW x \in Run, run' = [run EXCEPT ![r] = x]
  PROVE  OnlyRun(r) /\ run'[r] = x
  BY DEF TypeOK, OnlyRun

LEMMA NewRunOK ==
  NewRun \in Run /\ NewRun.pc = "new" /\ RunOK(NewRun, conf')
  BY DEF NewRun, Run, RunOK, Mode

LEMMA RefusedType ==
  ASSUME NEW x \in Run
  PROVE  /\ Refused(x) \in Run /\ Refused(x).pc = "ready"
         /\ Refused(x).using = None
         /\ Refused(x).hash = x.hash /\ Refused(x).mode = x.mode
  BY DEF Refused, Run

\* A handler that throws or returns leaves a run that may call again.
LEMMA RefusedOK ==
  ASSUME NEW x \in Run, NEW cf, NEW cf2, RunOK(x, cf),
         x.pc \notin {"new", "list", "policies"}
  PROVE  RunOK(Refused(x), cf2)
  BY RefusedType DEF RunOK

LEMMA RunFrameStep ==
  ASSUME IInv, NEW r \in Runs, RunFrame, OnlyRun(r),
         RunOK(run'[r], conf'), conf' \in [Confirmations -> Conf],
         used' \in [Confirmations -> Nat], Keeps(conf, conf'), ConfInv'
  PROVE  IInv'
  <1>1. UNCHANGED <<moves, live, server, policy, lapsed, listing, review,
                    decider, choice, granted>>
    BY DEF RunFrame, store, requests
  <1>2. TypeOK'
    BY <1>1 DEF IInv, TypeOK, OnlyRun
  <1>3. PolicyInv'
    BY <1>1, PolicyKept DEF IInv
  <1>4. RunInv'
    BY <1>1, RunsKept DEF IInv
  <1>5. DecidersHaveRows'
    BY <1>1 DEF IInv, DecidersHaveRows
  <1> QED BY <1>2, <1>3, <1>4, <1>5 DEF IInv

\* A step of run r that neither begins nor ends a confirmed call.
LEMMA SteadyRunStep ==
  ASSUME IInv, NEW r \in Runs, RunFrame, used' = used, OnlyRun(r),
         RunOK(run'[r], conf'), conf' \in [Confirmations -> Conf],
         Keeps(conf, conf'),
         \A c \in Confirmations :
            /\ conf'[c].status = "consumed" <=> conf[c].status = "consumed"
            /\ conf'[c].status = "approved" => conf[c].status = "approved"
            /\ ~InCall(run[r], c) /\ ~InCall(run'[r], c)
  PROVE  IInv'
  <1>1. granted' = granted
    BY DEF RunFrame
  <1>2. ASSUME NEW q \in Runs, NEW c \in Confirmations
        PROVE  InCall(run'[q], c) <=> InCall(run[q], c)
    BY DEF OnlyRun
  <1>3. Steady
    BY <1>1, <1>2 DEF Steady
  <1>4. ConfInv'
    BY <1>3, SteadyKeepsConfInv DEF IInv
  <1>5. used' \in [Confirmations -> Nat]
    BY DEF IInv, TypeOK
  <1> QED BY <1>4, <1>5, RunFrameStep

LEMMA QuietStep ==
  ASSUME IInv, NEW r \in Runs, Quiet, NEW x \in Run,
         run' = [run EXCEPT ![r] = x], RunOK(x, conf),
         run[r].pc # "call", x.pc = "call" => x.using = None
  PROVE  IInv' /\ Final
  <1>1. RunFrame /\ UNCHANGED <<conf, used>>
    BY DEF Quiet, RunFrame
  <1>2. OnlyRun(r) /\ run'[r] = x
    BY SetRun DEF IInv
  <1>3. Keeps(conf, conf') /\ Final
    BY <1>1, SameConf
  <1>4. RunOK(run'[r], conf')
    BY <1>1, <1>2
  <1>5. \A c \in Confirmations : ~InCall(run[r], c) /\ ~InCall(run'[r], c)
    BY <1>2, NoneAssumption DEF InCall
  <1>6. conf' \in [Confirmations -> Conf]
    BY <1>1 DEF IInv, TypeOK
  <1> QED BY <1>1, <1>2, <1>3, <1>4, <1>5, <1>6, SteadyRunStep

LEMMA LoadStep ==
  ASSUME IInv, NEW r \in Runs,
         \/ \E t \in Threads : LoadServer(r, t)
         \/ LoadCatalog(r) \/ LoadPolicies(r)
  PROVE  IInv' /\ Final
  <1>1. run[r] \in Run /\ RunOK(run[r], conf)
    BY DEF IInv, TypeOK, RunInv
  <1>2. RunOK(NewRun, conf) /\ NewRun \in Run /\ NewRun.pc = "new"
    BY DEF NewRun, Run, RunOK, Mode
  <1>3. ASSUME NEW t \in Threads, LoadServer(r, t) PROVE IInv' /\ Final
    <2> DEFINE x == [run[r] EXCEPT !.pc = "list", !.thread = t]
    <2>1. /\ Quiet /\ run[r].pc = "new"
          /\ run' = [run EXCEPT ![r].pc = "list", ![r].thread = t]
      BY <1>3 DEF LoadServer
    <2>2. run' = [run EXCEPT ![r] = x]
      BY <2>1
    <2>3. x \in Run /\ x.pc = "list" /\ RunOK(x, conf)
      BY <1>1, <2>1 DEF Run, RunOK
    <2> QED BY <2>1, <2>2, <2>3, QuietStep
  <1>4. CASE LoadCatalog(r)
    <2> DEFINE x == [run[r] EXCEPT !.pc = "policies", !.hash = live]
    <2>1. Quiet /\ run[r].pc = "list"
      BY <1>4 DEF LoadCatalog
    <2>2. CASE live = None
      <3>1. run' = [run EXCEPT ![r] = NewRun]
        BY <1>4, <2>2 DEF LoadCatalog
      <3> QED BY <1>2, <2>1, <3>1, QuietStep
    <2>3. CASE live # None
      <3>1. run' = [run EXCEPT ![r] = x]
        BY <1>4, <2>3 DEF LoadCatalog
      <3>2. x \in Run /\ x.pc = "policies" /\ RunOK(x, conf)
        BY <1>1, <2>1, <2>3 DEF Run, RunOK, IInv, TypeOK
      <3> QED BY <2>1, <3>1, <3>2, QuietStep
    <2> QED BY <2>2, <2>3
  <1>5. CASE LoadPolicies(r)
    <2> DEFINE x == [run[r] EXCEPT !.pc = "ready", !.mode = policy.mode]
    <2>1. Quiet /\ run[r].pc = "policies"
      BY <1>5 DEF LoadPolicies
    <2>2. CASE ~SnapshotEnabled(run[r].hash)
      <3>1. run' = [run EXCEPT ![r] = NewRun]
        BY <1>5, <2>2 DEF LoadPolicies
      <3> QED BY <1>2, <2>1, <3>1, QuietStep
    <2>3. CASE SnapshotEnabled(run[r].hash)
      <3>1. run' = [run EXCEPT ![r] = x]
        BY <1>5, <2>3 DEF LoadPolicies
      <3>2. x \in Run /\ x.pc = "ready"
        BY <1>1 DEF Run, IInv, TypeOK, Policy
      <3>3. RunOK(x, conf)
        BY <1>1, <2>1 DEF Run, RunOK
      <3> QED BY <2>1, <3>1, <3>2, <3>3, QuietStep
    <2> QED BY <2>2, <2>3
  <1> QED BY <1>3, <1>4, <1>5

LEMMA CheckStep ==
  ASSUME IInv, NEW r \in Runs,
         \/ \E a \in Args : StartCall(r, a)
         \/ CheckSchema(r) \/ CheckPolicy(r) \/ Match(r)
  PROVE  IInv' /\ Final
  <1>1. run[r] \in Run /\ RunOK(run[r], conf)
    BY DEF IInv, TypeOK, RunInv
  <1>2. ASSUME run[r].pc \in {"schema", "policy", "match"}
        PROVE  /\ Refused(run[r]) \in Run /\ Refused(run[r]).pc = "ready"
               /\ RunOK(Refused(run[r]), conf)
    BY <1>1, <1>2, RefusedType, RefusedOK
  <1>3. ASSUME NEW a \in Args, StartCall(r, a) PROVE IInv' /\ Final
    <2> DEFINE x == [run[r] EXCEPT !.pc = "schema", !.args = a]
    <2>1. Quiet /\ run[r].pc = "ready" /\ run' = [run EXCEPT ![r] = x]
      BY <1>3 DEF StartCall
    <2>2. x \in Run /\ x.pc = "schema" /\ RunOK(x, conf)
      BY <1>1, <2>1 DEF Run, RunOK
    <2> QED BY <2>1, <2>2, QuietStep
  <1>4. CASE CheckSchema(r)
    <2> DEFINE x == [run[r] EXCEPT !.pc = "policy"]
    <2>1. /\ Quiet /\ run[r].pc = "schema"
          /\ run' = [run EXCEPT ![r] = IF live = run[r].hash
                                       THEN x ELSE Refused(run[r])]
      BY <1>4 DEF CheckSchema
    <2>2. x \in Run /\ x.pc = "policy" /\ RunOK(x, conf)
      BY <1>1, <2>1 DEF Run, RunOK
    <2>3. CASE live = run[r].hash
      BY <2>1, <2>2, <2>3, QuietStep
    <2>4. CASE live # run[r].hash
      BY <1>2, <2>1, <2>4, QuietStep
    <2> QED BY <2>3, <2>4
  <1>5. CASE CheckPolicy(r)
    <2> DEFINE x == [run[r] EXCEPT !.pc = IF NeedsConfirmation(r)
                                          THEN "expire" ELSE "call"]
    <2>1. /\ Quiet /\ run[r].pc = "policy"
          /\ run' = [run EXCEPT ![r] =
                       IF server = "enabled" /\ SnapshotEnabled(run[r].hash)
                       THEN x ELSE Refused(run[r])]
      BY <1>5 DEF CheckPolicy
    <2>2. x \in Run /\ x.using = run[r].using /\ run[r].using = None
      BY <1>1, <2>1 DEF Run, RunOK
    <2>3. RunOK(x, conf)
      BY <1>1, <2>1, <2>2 DEF Run, RunOK, NeedsConfirmation, Mode
    <2>4. CASE server = "enabled" /\ SnapshotEnabled(run[r].hash)
      BY <2>1, <2>2, <2>3, <2>4, QuietStep
    <2>5. CASE ~(server = "enabled" /\ SnapshotEnabled(run[r].hash))
      BY <1>2, <2>1, <2>5, QuietStep
    <2> QED BY <2>4, <2>5
  <1>6. CASE Match(r)
    <2>1. Quiet /\ run[r].pc = "match"
      BY <1>6 DEF Match
    <2>2. \/ \E c \in Matches(r), e \in {"stop", "insert"} :
                /\ conf[c].status = "approved"
                /\ run' = [run EXCEPT ![r] =
                     [run[r] EXCEPT !.pc = "consume", !.using = c, !.else = e]]
          \/ run' = [run EXCEPT ![r] = [run[r] EXCEPT !.pc = "insert"]]
          \/ run' = [run EXCEPT ![r] = Refused(run[r])]
      BY <1>6 DEF Match, WithStatus
    <2>3. ASSUME NEW c \in Matches(r), NEW e \in {"stop", "insert"},
                 conf[c].status = "approved",
                 run' = [run EXCEPT ![r] =
                     [run[r] EXCEPT !.pc = "consume", !.using = c, !.else = e]]
          PROVE  IInv' /\ Final
      <3> DEFINE x == [run[r] EXCEPT !.pc = "consume", !.using = c, !.else = e]
      <3>1. /\ c \in Confirmations /\ conf[c].thread = run[r].thread
            /\ conf[c].args = run[r].args /\ conf[c].hash = run[r].hash
        BY DEF Matches
      <3>2. x \in Run /\ x.pc = "consume"
        BY <1>1, <3>1 DEF Run
      <3>3. RunOK(x, conf)
        BY <1>1, <2>1, <2>3, <3>1, NoneAssumption DEF Run, RunOK
      <3> QED BY <2>1, <2>3, <3>2, <3>3, QuietStep
    <2>4. CASE run' = [run EXCEPT ![r] = [run[r] EXCEPT !.pc = "insert"]]
      <3> DEFINE x == [run[r] EXCEPT !.pc = "insert"]
      <3>1. x \in Run /\ x.pc = "insert" /\ RunOK(x, conf)
        BY <1>1, <2>1 DEF Run, RunOK
      <3> QED BY <2>1, <2>4, <3>1, QuietStep
    <2>5. CASE run' = [run EXCEPT ![r] = Refused(run[r])]
      BY <1>2, <2>1, <2>5, QuietStep
    <2> QED BY <2>2, <2>3, <2>4, <2>5
  <1> QED BY <1>3, <1>4, <1>5, <1>6

LEMMA ExpireStep ==
  ASSUME IInv, NEW r \in Runs, ExpireOld(r)
  PROVE  IInv' /\ Final
  <1> DEFINE x == [run[r] EXCEPT !.pc = "match", !.now = lapsed]
  <1>1. /\ run[r].pc = "expire" /\ conf' = Expired(lapsed)
        /\ run' = [run EXCEPT ![r] = x] /\ RunFrame /\ used' = used
    BY DEF ExpireOld
  <1>2. run[r] \in Run /\ RunOK(run[r], conf) /\ lapsed \subseteq Confirmations
    BY DEF IInv, TypeOK, RunInv
  <1>3. x \in Run /\ x.pc = "match" /\ RunOK(x, conf')
    BY <1>1, <1>2 DEF Run, RunOK
  <1>4. OnlyRun(r) /\ run'[r] = x
    BY <1>1, <1>3, SetRun DEF IInv, RunFrame
  <1>5. \A c \in Confirmations : ~InCall(run[r], c) /\ ~InCall(run'[r], c)
    BY <1>1, <1>3, <1>4 DEF InCall
  <1>6. TypeOK
    BY DEF IInv
  <1> HIDE DEF x
  <1>7. /\ conf' \in [Confirmations -> Conf]
        /\ Keeps(conf, conf') /\ Final
        /\ \A c \in Confirmations :
              /\ conf'[c].status = "consumed" <=> conf[c].status = "consumed"
              /\ conf'[c].status = "approved" => conf[c].status = "approved"
    BY <1>1, <1>6, ExpiredKeeps
  <1> QED BY <1>1, <1>3, <1>4, <1>5, <1>7, SteadyRunStep

LEMMA InsertStep ==
  ASSUME IInv, NEW r \in Runs, NEW c \in Confirmations, InsertPending(r, c)
  PROVE  IInv' /\ Final
  <1> DEFINE y == [status |-> "pending", thread |-> run[r].thread,
                   args |-> run[r].args, hash |-> run[r].hash]
  <1>1. /\ run[r].pc = "insert" /\ conf[c].status = "absent"
        /\ conf' = [conf EXCEPT ![c] = y]
        /\ run' = [run EXCEPT ![r] = Refused(run[r])] /\ RunFrame /\ used' = used
    BY DEF InsertPending
  <1>2. run[r] \in Run /\ RunOK(run[r], conf)
    BY DEF IInv, TypeOK, RunInv
  <1>3. y \in Conf /\ y.status = "pending"
    BY <1>2 DEF Conf, Status, Run
  <1>4. /\ conf' \in [Confirmations -> Conf] /\ conf'[c].status = "pending"
        /\ \A d \in Confirmations \ {c} : conf'[d] = conf[d]
    BY <1>1, <1>3 DEF IInv, TypeOK
  <1>5. Keeps(conf, conf') /\ Final
    BY <1>1, <1>4 DEF Keeps, Final
  <1>6. /\ Refused(run[r]) \in Run /\ Refused(run[r]).pc = "ready"
        /\ RunOK(Refused(run[r]), conf')
    BY <1>1, <1>2, RefusedType, RefusedOK
  <1>7. OnlyRun(r) /\ run'[r] = Refused(run[r])
    BY <1>1, <1>6, SetRun DEF IInv, RunFrame
  <1>8. \A d \in Confirmations : ~InCall(run[r], d) /\ ~InCall(run'[r], d)
    BY <1>1, <1>6, <1>7 DEF InCall
  <1>9. \A d \in Confirmations :
           /\ conf'[d].status = "consumed" <=> conf[d].status = "consumed"
           /\ conf'[d].status = "approved" => conf[d].status = "approved"
    BY <1>1, <1>4
  <1>10. RunOK(run'[r], conf')
    BY <1>6, <1>7
  <1> HIDE DEF y
  <1> QED BY <1>1, <1>4, <1>5, <1>7, <1>8, <1>9, <1>10, SteadyRunStep

\* The compare-and-set moves an approval from "nobody calls" to "r calls".
LEMMA ConsumeStep ==
  ASSUME IInv, NEW r \in Runs, Consume(r)
  PROVE  IInv' /\ Final
  <1> DEFINE k == run[r].using
  <1>1. run[r] \in Run /\ RunOK(run[r], conf) /\ run[r].pc = "consume"
    BY DEF IInv, TypeOK, RunInv, Consume
  <1>2. k \in Confirmations /\ k # None
    BY <1>1 DEF RunOK, Run
  <1>3. CASE ~StillApproved(r)
    <2> DEFINE x == [run[r] EXCEPT !.pc = "insert", !.using = None]
    <2>1. /\ run' = [run EXCEPT ![r] = IF run[r].else = "insert"
                                       THEN x ELSE Refused(run[r])]
          /\ Quiet
      BY <1>3 DEF Consume, Quiet
    <2>2. x \in Run /\ x.pc = "insert" /\ RunOK(x, conf)
      BY <1>1 DEF Run, RunOK
    <2>3. /\ Refused(run[r]) \in Run /\ Refused(run[r]).pc = "ready"
          /\ RunOK(Refused(run[r]), conf)
      BY <1>1, RefusedType, RefusedOK
    <2>4. CASE run[r].else = "insert"
      BY <1>1, <2>1, <2>2, <2>4, QuietStep
    <2>5. CASE run[r].else # "insert"
      BY <1>1, <2>1, <2>3, <2>5, QuietStep
    <2> QED BY <2>4, <2>5
  <1>4. CASE StillApproved(r)
    <2> DEFINE x == [run[r] EXCEPT !.pc = "call"]
               y == [conf[k] EXCEPT !.status = "consumed"]
    <2>1. /\ conf[k].status = "approved"
          /\ conf' = [conf EXCEPT ![k] = y] /\ run' = [run EXCEPT ![r] = x]
          /\ RunFrame /\ used' = used /\ granted' = granted
      BY <1>4 DEF Consume, StillApproved, RunFrame
    <2>2. conf[k] \in Conf
      BY <1>2 DEF IInv, TypeOK
    <2>3. /\ y \in Conf /\ y.status = "consumed" /\ y.thread = conf[k].thread
          /\ y.args = conf[k].args /\ y.hash = conf[k].hash
      BY <2>2 DEF Conf, Status
    <2>4. /\ conf' \in [Confirmations -> Conf] /\ conf'[k] = y
          /\ \A c \in Confirmations \ {k} : conf'[c] = conf[c]
      BY <1>2, <2>1, <2>3 DEF IInv, TypeOK
    <2>5. /\ x \in Run /\ x.pc = "call" /\ x.using = k
          /\ RunOK(x, conf)
      BY <1>1, <1>2 DEF Run, RunOK
    <2> HIDE DEF y
    <2>6. Keeps(conf, conf') /\ Final
      BY <2>1, <2>3, <2>4 DEF Keeps, Final
    <2>7. RunOK(x, conf')
      <3> HIDE DEF x
      <3> QED BY <2>1, <2>5, <2>6, RunKept
    <2> HIDE DEF x
    <2>8. OnlyRun(r) /\ run'[r] = x
      BY <2>1, <2>5, SetRun DEF IInv
    <2>9. ConfInv'
      <3>1. \A q \in Runs : ~InCall(run[q], k)
        BY <1>2, <2>1 DEF IInv, ConfInv
      <3>2. used[k] = 0 /\ k \in granted
        BY <1>2, <2>1 DEF IInv, ConfInv
      <3>3. InCall(run'[r], k) /\ \A c \in Confirmations \ {k} :
               ~InCall(run'[r], c) /\ ~InCall(run[r], c)
        BY <1>1, <2>5, <2>8 DEF InCall
      <3>4. \A q \in Runs \ {r} : run'[q] = run[q]
        BY <2>8 DEF OnlyRun
      <3>5. ASSUME NEW c \in Confirmations, c # k
            PROVE  \A q \in Runs : InCall(run'[q], c) <=> InCall(run[q], c)
        BY <3>3, <3>4, <3>5
      <3>6. \A q \in Runs : InCall(run'[q], k) <=> q = r
        BY <3>1, <3>3, <3>4
      <3> QED BY <1>2, <2>1, <2>3, <2>4, <3>2, <3>5, <3>6 DEF IInv, ConfInv
    <2>10. used' \in [Confirmations -> Nat] /\ RunOK(run'[r], conf')
      BY <2>1, <2>7, <2>8 DEF IInv, TypeOK
    <2> QED BY <2>1, <2>4, <2>6, <2>8, <2>9, <2>10, RunFrameStep
  <1> QED BY <1>3, <1>4

\* The call is over: the confirmation r held is spent.
LEMMA SpendStep ==
  ASSUME IInv, NEW r \in Runs, CallTool(r) \/ EndOfRun(r)
  PROVE  IInv' /\ Final
  <1>1. run[r] \in Run /\ RunOK(run[r], conf)
    BY DEF IInv, TypeOK, RunInv
  <1>2. RunFrame /\ conf' = conf /\ granted' = granted /\ Spend(r)
    BY DEF CallTool, EndOfRun, RunFrame
  <1>3. PICK x \in Run : /\ run' = [run EXCEPT ![r] = x]
                         /\ x.pc # "call" /\ RunOK(x, conf')
    <2>1. CASE CallTool(r)
      <3>1. /\ Refused(run[r]) \in Run /\ Refused(run[r]).pc = "ready"
            /\ RunOK(Refused(run[r]), conf')
        BY <1>1, <2>1, RefusedType, RefusedOK DEF CallTool
      <3> QED BY <1>2, <2>1, <3>1 DEF CallTool
    <2>2. CASE EndOfRun(r)
      BY <2>2, NewRunOK DEF EndOfRun
    <2> QED BY <2>1, <2>2
  <1>4. OnlyRun(r) /\ run'[r] = x
    BY <1>3, SetRun DEF IInv
  <1>5. Keeps(conf, conf') /\ Final
    BY <1>2, SameConf
  <1>6. \A c \in Confirmations : ~InCall(run'[r], c)
    BY <1>3, <1>4 DEF InCall
  <1>7. \A q \in Runs \ {r} : run'[q] = run[q]
    BY <1>4 DEF OnlyRun
  <1>8. ConfInv' /\ used' \in [Confirmations -> Nat]
    <2>1. CASE run[r].pc = "call" /\ run[r].using # None
      <3> DEFINE k == run[r].using
      <3>1. k \in Confirmations /\ InCall(run[r], k)
        BY <1>1, <2>1 DEF Run, InCall
      <3>2. used' = [used EXCEPT ![k] = used[k] + 1]
        BY <1>2, <2>1 DEF Spend
      <3>3. /\ used[k] = 0 /\ conf[k].status = "consumed"
            /\ \A q \in Runs : InCall(run[q], k) => q = r
        BY <3>1 DEF IInv, ConfInv
      <3>4. /\ used'[k] = 1 /\ used' \in [Confirmations -> Nat]
            /\ \A c \in Confirmations \ {k} : used'[c] = used[c]
        BY <3>1, <3>2, <3>3 DEF IInv, TypeOK
      <3>5. \A q \in Runs : ~InCall(run'[q], k)
        BY <1>6, <1>7, <3>1, <3>3
      <3>6. ASSUME NEW c \in Confirmations, c # k
            PROVE  \A q \in Runs : InCall(run'[q], c) <=> InCall(run[q], c)
        <4>1. ~InCall(run[r], c)
          BY <3>6 DEF InCall
        <4> QED BY <1>6, <1>7, <4>1
      <3> HIDE DEF k
      <3>7. ConfInv'
        BY <1>2, <3>1, <3>3, <3>4, <3>5, <3>6 DEF IInv, ConfInv
      <3> QED BY <3>4, <3>7
    <2>2. CASE ~(run[r].pc = "call" /\ run[r].using # None)
      <3>1. used' = used
        BY <1>2, <2>2 DEF Spend
      <3>2. \A c \in Confirmations : ~InCall(run[r], c)
        BY <2>2, NoneAssumption DEF InCall
      <3>3. \A q \in Runs, c \in Confirmations :
               InCall(run'[q], c) <=> InCall(run[q], c)
        BY <1>6, <1>7, <3>2
      <3>4. Steady
        BY <1>2, <3>1, <3>3 DEF Steady
      <3> QED BY <3>1, <3>4, SteadyKeepsConfInv DEF IInv, TypeOK
    <2> QED BY <2>1, <2>2
  <1>9. RunOK(run'[r], conf') /\ conf' \in [Confirmations -> Conf]
    BY <1>2, <1>3, <1>4 DEF IInv, TypeOK
  <1> QED BY <1>2, <1>4, <1>5, <1>8, <1>9, RunFrameStep

(***************************************************************************)
(* The inductive invariant and the theorems.                               *)
(***************************************************************************)

LEMMA InitIInv ==
  ASSUME Init
  PROVE  IInv
  <1>1. NoPolicy \in Policy /\ NoConf \in Conf /\ NewRun \in Run
    BY NoPolicyType, NewRunOK DEF NoConf, Conf, Status
  <1>2. [enabled |-> FALSE, mode |-> "confirm_each_time"] \in Choice
    BY DEF Choice, Mode
  <1>3. TypeOK
    BY <1>1, <1>2, IdleTypes, MovesAssumption DEF Init, TypeOK
  <1>4. PolicyInv
    BY DEF Init, PolicyInv, EnabledIsReviewed,
           ReviewsHaveSnapshots, NoPolicy, IdleReview
  <1>5. RunInv
    BY DEF Init, RunInv, RunOK, NewRun
  <1>6. ConfInv
    BY DEF Init, ConfInv, NoConf, NewRun, InCall
  <1>7. DecidersHaveRows
    BY DEF Init, DecidersHaveRows, IdleDecider
  <1> QED BY <1>3, <1>4, <1>5, <1>6, <1>7 DEF IInv

LEMMA NextIInv ==
  ASSUME IInv, [Next]_vars
  PROVE  IInv' /\ Final
  <1>1. CASE UNCHANGED vars
    <2>1. UNCHANGED <<moves, live, server, policy, conf, lapsed, listing, review,
                      decider, run, choice, granted, used>>
      BY <1>1 DEF vars, store, requests, history
    <2>2. Final
      BY <2>1, SameConf
    <2>3. Aside
      BY <2>1 DEF Aside
    <2>4. TypeOK'
      BY <2>1 DEF IInv, TypeOK
    <2>5. PolicyInv'
      BY <2>1, PolicyKept DEF IInv
    <2>6. RunInv' /\ DecidersHaveRows'
      BY <2>1 DEF IInv, RunInv, DecidersHaveRows
    <2>7. ConfInv'
      BY <2>1 DEF IInv, ConfInv
    <2> QED BY <2>2, <2>4, <2>5, <2>6, <2>7 DEF IInv
  <1>2. CASE PolicySteps
    BY <1>2, PolicyStep
  <1>3. CASE UserNext \/ \E c \in Confirmations : Lapse(c)
    BY <1>3, UserStep
  <1>4. ASSUME NEW r \in Runs, RunNext(r) PROVE IInv' /\ Final
    BY <1>4, LoadStep, CheckStep, ExpireStep, ConsumeStep, InsertStep, SpendStep
       DEF RunNext
  <1> QED BY <1>1, <1>2, <1>3, <1>4 DEF Next, PolicySteps

LEMMA Inductive == Spec => []IInv
  <1>1. Init => IInv
    BY InitIInv
  <1>2. IInv /\ [Next]_vars => IInv'
    BY NextIInv
  <1> QED BY <1>1, <1>2, PTL DEF Spec

\* At most one run is about to call under one confirmation, so the cardinality
\* is what ConfInv says it is.
LEMMA CountIsRight ==
  ASSUME IInv
  PROVE  OneCallPerApproval
  <1>0. \A r \in Calling(None) : run[r].hash \notin Destructive
    BY DEF Calling, IInv, RunInv, RunOK
  <1> SUFFICES ASSUME NEW c \in Confirmations
               PROVE  /\ used[c] + Cardinality(Calling(c))
                           <= (IF c \in granted THEN 1 ELSE 0)
                      /\ \A r \in Calling(c) :
                            /\ conf[c].thread = run[r].thread
                            /\ conf[c].args = run[r].args
                            /\ conf[c].hash = run[r].hash
    BY <1>0 DEF OneCallPerApproval
  <1>1. \A r \in Calling(c) : /\ conf[c].thread = run[r].thread
                              /\ conf[c].args = run[r].args
                              /\ conf[c].hash = run[r].hash
    BY NoneAssumption DEF Calling, IInv, RunInv, RunOK
  <1>2. \A r \in Runs : r \in Calling(c) <=> InCall(run[r], c)
    BY DEF Calling, InCall
  <1>3. Calling(c) \subseteq Runs
    BY DEF Calling
  <1>4. CASE Calling(c) = {}
    <2>1. Cardinality(Calling(c)) = 0
      BY <1>4, FS_EmptySet
    <2>2. used[c] \in {0, 1} /\ (used[c] = 1 => c \in granted)
      BY DEF IInv, ConfInv
    <2> QED BY <1>1, <2>1, <2>2
  <1>5. CASE Calling(c) # {}
    <2>1. PICK r \in Calling(c) : TRUE
      BY <1>5
    <2>2. Calling(c) = {r}
      BY <1>2, <1>3, <2>1 DEF IInv, ConfInv
    <2>3. Cardinality(Calling(c)) = 1
      BY <2>2, FS_Singleton
    <2>4. used[c] = 0 /\ c \in granted
      BY <1>2, <1>3, <2>1 DEF IInv, ConfInv
    <2> QED BY <1>1, <2>3, <2>4
  <1> QED BY <1>4, <1>5

\* Every variable keeps its type, for any sets and any bound.
THEOREM GateTypeCorrect == Spec => []TypeOK
  <1>1. IInv => TypeOK
    BY DEF IInv
  <1> QED BY <1>1, Inductive, PTL

\* A confirmation authorises one call of exactly what the user approved, and
\* a destructive tool is not called without one
\* (requireMcpToolInvocationConfirmation, decideMcpToolConfirmation,
\* requiresMcpToolInvocationConfirmation).
THEOREM ApprovalsCountOnce == Spec => []OneCallPerApproval
  <1>1. IInv => OneCallPerApproval
    BY CountIsRight
  <1> QED BY <1>1, Inductive, PTL

\* No approval is consumed by a call that a stale catalog stops afterwards
\* (the order of checks in the handler of mcp-tools.ts).
THEOREM ApprovalsAreNotWasted == Spec => []ApprovalIsSpentOnACall
  <1>1. IInv => ApprovalIsSpentOnACall
    BY DEF IInv, ConfInv, InCall, Calling, ApprovalIsSpentOnACall
  <1> QED BY <1>1, Inductive, PTL

\* An enabled policy row is the last review of the very snapshot it names
\* (reconcileExternalMcpToolPolicies against updateExternalMcpToolPolicy).
THEOREM ExposureIsReviewed == Spec => []EnabledIsReviewed
  <1>1. IInv => EnabledIsReviewed
    BY DEF IInv, PolicyInv
  <1> QED BY <1>1, Inductive, PTL

\* A decided confirmation keeps its decision (the compare-and-sets of
\* decideMcpToolConfirmation, the consumer and expireOldConfirmations).
THEOREM DecisionsAreFinal == Spec => DecisionIsFinal
  <1>1. IInv /\ [Next]_vars => [Final]_vars
    BY NextIInv
  <1>2. [Final]_vars <=>
          [\A c \in Confirmations :
             conf'[c].status # conf[c].status =>
               <<conf[c].status, conf'[c].status>> \in
                  {<<"absent", "pending">>, <<"pending", "approved">>,
                   <<"pending", "denied">>, <<"pending", "expired">>,
                   <<"approved", "consumed">>, <<"approved", "expired">>}]_vars
    BY DEF Final
  <1> QED BY <1>1, <1>2, Inductive, PTL DEF Spec, DecisionIsFinal

=============================================================================
