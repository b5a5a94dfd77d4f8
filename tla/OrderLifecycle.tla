--------------------------- MODULE OrderLifecycle ---------------------------
(***************************************************************************)
(* What every broker of pyalgotrade promises about its orders: the state   *)
(* chart of broker/__init__.py (the comment above class Order, the table   *)
(* Order.VALID_TRANSITIONS and Order.addExecutionInfo), with no word about *)
(* bars, cash or the exchange that fill them.  The backtesting broker is   *)
(* shown to implement this module.                                         *)
(***************************************************************************)
EXTENDS Integers

CONSTANTS
  Orders,      (* the order objects                                        *)
  Quantities   (* the quantities an order may ask for, positive integers   *)

VARIABLES
  state,       (* Order.__state of each order                              *)
  quantity,    (* Order.__quantity, 0 until the order is submitted         *)
  filled       (* Order.__filled, the shares executed so far               *)

vars == <<state, quantity, filled>>

States ==
  {"INITIAL", "SUBMITTED", "ACCEPTED", "CANCELED", "PARTIALLY_FILLED", "FILLED"}

(* The keys missing from the code's table are the terminal states.         *)
ValidTransitions ==
  [s \in States |->
     CASE s = "INITIAL"          -> {"SUBMITTED", "CANCELED"}
       [] s = "SUBMITTED"        -> {"ACCEPTED", "CANCELED"}
       [] s = "ACCEPTED"         -> {"PARTIALLY_FILLED", "FILLED", "CANCELED"}
       [] s = "PARTIALLY_FILLED" -> {"PARTIALLY_FILLED", "FILLED", "CANCELED"}
       [] OTHER                  -> {}]

(* Order.switchState: anything outside the table raises.                   *)
SwitchState(o, new) ==
  /\ new \in ValidTransitions[state[o]]
  /\ state' = [state EXCEPT ![o] = new]

Remaining(o) == quantity[o] - filled[o]

-----------------------------------------------------------------------------

Init ==
  /\ state    = [o \in Orders |-> "INITIAL"]
  /\ quantity = [o \in Orders |-> 0]
  /\ filled   = [o \in Orders |-> 0]

Submit(o) ==
  /\ SwitchState(o, "SUBMITTED")
  /\ \E q \in Quantities : quantity' = [quantity EXCEPT ![o] = q]
  /\ UNCHANGED filled

Accept(o) ==
  /\ SwitchState(o, "ACCEPTED")
  /\ UNCHANGED <<quantity, filled>>

(* Order.addExecutionInfo: a fill never exceeds what remains, and the last *)
(* one is what makes the order FILLED.                                     *)
Execute(o) ==
  \E n \in 1 .. Remaining(o) :
    /\ SwitchState(o, IF n = Remaining(o) THEN "FILLED" ELSE "PARTIALLY_FILLED")
    /\ filled' = [filled EXCEPT ![o] = @ + n]
    /\ UNCHANGED quantity

Cancel(o) ==
  /\ SwitchState(o, "CANCELED")
  /\ UNCHANGED <<quantity, filled>>

Next == \E o \in Orders : Submit(o) \/ Accept(o) \/ Execute(o) \/ Cancel(o)

Spec == Init /\ [][Next]_vars

=============================================================================
