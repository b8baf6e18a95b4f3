------------------------------- MODULE MCFirm -------------------------------
(***************************************************************************)
(* The firm for TLC: its book with the prices derived from it (MCFirmBook) *)
(* and the life of its orders (FirmOrders), which takes any prices.        *)
(***************************************************************************)
EXTENDS MCFirmBook, FirmOrders

VARIABLE half   \* which of the two is explored

\* The half that is not explored stays in one initial state.
FirmInit ==
    /\ half \in {"book", "orders"} /\ InitFirm /\ OrdersInit
    /\ half = "book" => strategy = "maker" /\ tcp_mode = 2

book_vars == <<vars, firmVars>>

FirmNext ==
    \/ half = "book" /\ BoundedNext /\ UNCHANGED <<half, orders_vars>>
    \/ half = "orders" /\ OrdersNext /\ UNCHANGED <<half, book_vars>>

FirmSpec == FirmInit /\ [][FirmNext]_<<half, book_vars, orders_vars>>
=============================================================================
