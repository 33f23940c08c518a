----------------------------- MODULE PagedFetch -----------------------------
(***************************************************************************)
(* What FetchAllEvents promises each caller about a paginated timeline:    *)
(* the pages are delivered in order, each of them whole and once; success  *)
(* means that the last page was reached, and a failure returns nothing.    *)
(* Details, subscriptions and connections are not visible here.            *)
(***************************************************************************)
EXTENDS Naturals, Sequences

CONSTANTS Callers, Pages

VARIABLES
    taken,      \* pages reported to progressFn
    delivered,  \* the timeline events gathered or returned
    status

vars == <<taken, delivered, status>>

Init ==
    /\ taken = [c \in Callers |-> 0]
    /\ delivered = [c \in Callers |-> <<>>]
    /\ status = [c \in Callers |-> "idle"]

Begin(c) ==
    /\ status[c] = "idle"
    /\ status' = [status EXCEPT ![c] = "running"]
    /\ UNCHANGED <<taken, delivered>>

\* Deliver the next page; with the last one the fetch succeeds.
TakePage(c) ==
    /\ status[c] = "running" /\ taken[c] < Len(Pages)
    /\ taken' = [taken EXCEPT ![c] = @ + 1]
    /\ delivered' = [delivered EXCEPT ![c] = @ \o Pages[taken[c] + 1]]
    /\ status' = IF taken[c] + 1 = Len(Pages)
                 THEN [status EXCEPT ![c] = "ok"] ELSE status

GiveUp(c) ==
    /\ status[c] = "running"
    /\ status' = [status EXCEPT ![c] = "error"]
    /\ delivered' = [delivered EXCEPT ![c] = <<>>]
    /\ UNCHANGED taken

Next == \E c \in Callers : Begin(c) \/ TakePage(c) \/ GiveUp(c)

Spec == Init /\ [][Next]_vars

=============================================================================
