---------------------------- MODULE PlanService ----------------------------
(***************************************************************************)
(* What plan caching promises: an uncached planner.  A client's request is *)
(* answered, in one step, with what planning it afresh yields.             *)
(***************************************************************************)
EXTENDS Planning

CONSTANTS
    Threads,
    NoRequest, NoPlan

VARIABLES
    asked,      \* [Threads -> Requests \cup {NoRequest}]
    answer      \* [Threads -> plans \cup {NoPlan}]

serviceVars == <<asked, answer>>

ServiceInit ==
    /\ asked = [t \in Threads |-> NoRequest]
    /\ answer = [t \in Threads |-> NoPlan]

Ask(t) ==
    /\ asked[t] = NoRequest
    /\ \E r \in Requests : asked' = [asked EXCEPT ![t] = r]
    /\ UNCHANGED answer

Answer(t) ==
    /\ asked[t] # NoRequest
    /\ answer[t] = NoPlan
    /\ answer' = [answer EXCEPT ![t] = FreshPlan(asked[t])]
    /\ UNCHANGED asked

Leave(t) ==
    /\ answer[t] # NoPlan
    /\ asked' = [asked EXCEPT ![t] = NoRequest]
    /\ answer' = [answer EXCEPT ![t] = NoPlan]

ServiceNext == \E t \in Threads : Ask(t) \/ Answer(t) \/ Leave(t)

ServiceSpec ==
    /\ ServiceInit
    /\ [][ServiceNext]_serviceVars
    /\ \A t \in Threads : WF_serviceVars(Answer(t))
=============================================================================
