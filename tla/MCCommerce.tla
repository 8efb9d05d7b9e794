------------------------------- MODULE MCCommerce -------------------------------
(***************************************************************************)
(* Small instances of the quote, of the invoices and payments of its sale,  *)
(* and of the mail client.  They share no row (a sale is made with its      *)
(* quote and invoiced afterwards), so every area is explored by itself,     *)
(* with the others standing still.                                          *)
(***************************************************************************)
EXTENDS QuoteSigning, TLC

CONSTANTS
    Amount, MaxInvoice, MaxPaid, MaxEdited,  \* Sales
    MaxMessages, MaxMail, MaxFailure         \* MailSync

\* Invoices and payments have amounts above zero.
AmountAssumption == Amount \subseteq Nat \ {0}

ASSUME AmountAssumption

CountsAssumption ==
    /\ MaxInvoice \in Nat /\ MaxPaid \in Nat /\ MaxEdited \in Nat
    /\ MaxMessages \in Nat /\ MaxMail \in Nat /\ MaxFailure \in Nat

ASSUME CountsAssumption

\* No area tells one request from the other.
Symmetry == Permutations(Request)

VARIABLES
    area,                                                            \* what moves
    sale, invoices, payments, request, edited, mixed,                \* Sales
    arrived, rule, rows, sync, sent, failures, unaddressed, covered, parted, crossed  \* MailSync

settle == <<sale, invoices, payments, request, edited, mixed>>
mail == <<arrived, rule, rows, sync, sent, failures, unaddressed, covered, parted, crossed>>

Sls == INSTANCE Sales WITH User <- Request

Mls == INSTANCE MailSync WITH User <- Request, mixed <- crossed

MCInit == area \in {"quote", "sale", "mail"} /\ Init /\ Sls!Init /\ Mls!Init

MCNext ==
    \/ area = "quote" /\ Next /\ UNCHANGED <<area, settle, mail>>
    \/ area = "sale" /\ Sls!Next /\ UNCHANGED <<area, vars, mail>>
    \/ area = "mail" /\ Mls!Next /\ UNCHANGED <<area, vars, settle>>

MCSpec == MCInit /\ [][MCNext]_<<area, vars, settle, mail>>

\* The properties of the areas, each stated and explained in its module.
InvoicesAreSettled == Sls!TypeOK /\ Sls!InvoicesAreSettled

MailIsKept == Mls!TypeOK /\ Mls!MailIsKept
=============================================================================
