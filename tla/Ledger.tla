------------------------------- MODULE Ledger -------------------------------
(***************************************************************************)
(* The reservation ledger of kb_workflows/agents/resource_budgets: what a  *)
(* controlled action may cost at most is reserved before it starts, and    *)
(* settled for what it was seen to cost.  A ledger is a record; the sums   *)
(* the class recomputes over its lists are its fields held and spent, and  *)
(* of the entries only their number and whether all stayed within their    *)
(* reservation are kept.                                                   *)
(***************************************************************************)
EXTENDS Integers

(* amount() rejects a missing observation as it rejects a negative one.    *)
Unknown == -1
Known(observed) == observed >= 0

(* A pending reservation; its nonce is fresh (uuid4).                      *)
Tickets == [nonce : Nat, maximum : Nat]

Ledgers == [limit : Nat, issued : Nat, pending : SUBSET Tickets,
            held : Int, spent : Nat, entries : Nat, clean : BOOLEAN]

NewLedger(limit) ==
  [limit |-> limit, issued |-> 0, pending |-> {},
   held |-> 0, spent |-> 0, entries |-> 0, clean |-> TRUE]

(* A limit of zero turns the ledger off.                                   *)
On(l) == l.limit > 0

Remaining(l) == IF l.limit > l.spent + l.held THEN l.limit - l.spent - l.held ELSE 0

Ticket(l, x) == [nonce |-> l.issued + 1, maximum |-> x]

Admissible(l, x) == x > 0 /\ x <= Remaining(l)

Reserve(l, x) ==
  [l EXCEPT !.issued = @ + 1, !.pending = @ \cup {Ticket(l, x)}, !.held = @ + x]

(* Variant: any usage that is known counts as within.                      *)
WithinKnown(t, observed) == Known(observed)

Within(t, observed) == Known(observed) /\ observed <= t.maximum

(* Unknown usage burns the whole reservation; an overrun stays visible.    *)
Charged(t, observed) == IF Known(observed) THEN observed ELSE t.maximum

Settle(l, t, observed) ==
  [l EXCEPT !.pending = @ \ {t}, !.held = @ - t.maximum,
            !.spent = @ + Charged(t, observed), !.entries = @ + 1,
            !.clean = @ /\ Within(t, observed)]

(* snapshot()["compliant"], which is what validate_snapshot() recomputes.  *)
Compliant(l) == l.pending = {} /\ l.clean /\ l.spent <= l.limit

-----------------------------------------------------------------------------
(* As long as every settled action stayed within its reservation, what is  *)
(* spent and what is reserved fit the limit together.                      *)
Fits(l) == l.clean => l.spent + l.held <= l.limit
=============================================================================
