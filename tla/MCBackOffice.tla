------------------------------ MODULE MCBackOffice ------------------------------
(***************************************************************************)
(* Small instances of the back office: contracts, stock, work orders,       *)
(* preventive plans and checklists, of a list read page by page and of the  *)
(* requests of the front ends.  They share no row, so a behaviour of all of *)
(* them is an interleaving of behaviours of each, and a property of one is  *)
(* decided by its own steps: every area is explored by itself, with the     *)
(* others standing still.                                                   *)
(***************************************************************************)
EXTENDS ContractApproval, WebCalls

CONSTANTS
    a1, a2, d1, d2, e1,              \* approvers of the contract, requests to decide, to edit
    Users,                           \* those whose requests may be under way, but for the contract
    Quantity, Opening, MaxMovement,  \* Stock
    Participant, MaxReplace,         \* WorkOrders
    Plan, Recurrence, MaxOrder,      \* PreventivePlans
    Label, ItemLists, Every, Kept,   \* Checklists: Every are the recurrences of the template
    MaxVersion, MaxExecution,
    MaxDay,                          \* both calendars
    PageSize, MaxRow, MaxTime,       \* Paging
    Tab, KindsOf                     \* WebRequests: the kinds of calls of every tab

\* Quantities are positive, plans and templates recur in days, and a list of
\* items is one of labels; there is a first version of it, whatever the bounds.
NumbersAssumption ==
    /\ Quantity \subseteq Nat \ {0} /\ Opening \subseteq Int
    /\ Recurrence \subseteq Nat \ {0} /\ Every \subseteq Nat \ {0}
    /\ ItemLists \subseteq SUBSET Label
    /\ MaxReplace \in Nat /\ MaxDay \in Nat /\ MaxVersion \in Nat \ {0}

ASSUME NumbersAssumption

\* Pages have a size, and time and rows end somewhere.
PagesAssumption == PageSize \in Nat \ {0} /\ MaxRow \in Nat /\ MaxTime \in Nat

ASSUME PagesAssumption

\* The kinds of calls that the front ends make (WebCalls).
Kinds == {"save", "listed", "read", "ignored", "plain", "strict", "guarded", "upload", "open", "public",
          "proxied", "enter", "portalEnter", "act", "look", "quiet", "download", "desk", "deskPage", "deskEnter"}

KindsAssumption == KindsOf \in [Tab -> SUBSET Kinds]

ASSUME KindsAssumption

Approvers == {a1, a2}
Deciders == {d1, d2}
Editors == {e1}

\* No area tells one user from the other, nor one request to decide, one
\* label, participant or plan (in the instance, the same values).
UserSymmetry == Permutations(Users) \cup Permutations(Deciders) \cup Permutations(Label) \cup Permutations(Plan)

\* One approver, or two.
OneOrder == {<<a1>>, <<a1, a2>>}

\* create_item takes a quantity below zero.
Openings == {-1, 2}

\* One tab makes every kind of call, the other those that tell most apart.
TwoTabs == <<Kinds, {"save", "act", "desk"}>>

VARIABLES
    area,                                                        \* what moves
    quantity, itemDeleted, movements, moving, opening, raced,    \* Stock
    order, rows, replaced, request, lastList, concurrent,        \* WorkOrders
    plan, today, orders, loaded, since, restart, callsMet, editMet,         \* PreventivePlans
    template, items, versions, day, executions, work, overlap, setBack,    \* Checklists
    listed, time, lastId, open, walk, atStart, changed,          \* Paging
    app, jar, active, tabs, signedIn, revived                    \* WebRequests

stock == <<quantity, itemDeleted, movements, moving, opening, raced>>
workOrders == <<order, rows, replaced, request, lastList, concurrent>>
plans == <<plan, today, orders, loaded, since, restart, callsMet, editMet>>
checklists == <<template, items, versions, day, executions, work, overlap, setBack>>
pages == <<listed, time, lastId, open, walk, atStart, changed>>
web == <<app, jar, active, tabs, signedIn, revived>>

Stk == INSTANCE Stock WITH User <- Users

Wo == INSTANCE WorkOrders WITH User <- Users

Pp == INSTANCE PreventivePlans WITH User <- Users

Cl == INSTANCE Checklists WITH User <- Users, Recurrence <- Every, restart <- setBack

Pag == INSTANCE Paging WITH User <- Users, Limit <- PageSize, rows <- listed

Web == INSTANCE WebRequests WITH Kinds <- KindsOf

Areas == {"contract", "stock", "workOrder", "plan", "checklist", "pages", "web"}

\* An area that stands still does so in one of its initial states.
MCInit ==
    /\ area \in Areas
    /\ Init /\ (area # "contract" => ~autoRenew /\ steps = {})
    /\ Stk!Init /\ (area # "stock" => opening = CHOOSE q \in Opening : q >= 0)
    /\ Wo!Init /\ (area # "workOrder" => lastList = {})
    /\ Pp!Init /\ (area # "plan" => \A p \in Plan : plan[p].due = 0 /\ plan[p].recurrence = CHOOSE r \in Recurrence : TRUE)
    /\ Cl!Init /\ (area # "checklist" => versions = <<CHOOSE list \in ItemLists : TRUE>>)
    /\ Pag!Init /\ (area # "pages" => walk.list = "page")
    /\ Web!Init /\ (area # "web" => app = "desk")

MCNext ==
    \/ /\ area = "contract" /\ Next
       /\ UNCHANGED <<area, stock, workOrders, plans, checklists, pages, web>>
    \/ /\ area = "stock" /\ Stk!Next
       /\ UNCHANGED <<area, vars, workOrders, plans, checklists, pages, web>>
    \/ /\ area = "workOrder" /\ Wo!Next
       /\ UNCHANGED <<area, vars, stock, plans, checklists, pages, web>>
    \/ /\ area = "plan" /\ Pp!Next
       /\ UNCHANGED <<area, vars, stock, workOrders, checklists, pages, web>>
    \/ /\ area = "checklist" /\ Cl!Next
       /\ UNCHANGED <<area, vars, stock, workOrders, plans, pages, web>>
    \/ /\ area = "pages" /\ Pag!Next
       /\ UNCHANGED <<area, vars, stock, workOrders, plans, checklists, web>>
    \/ /\ area = "web" /\ Web!Next
       /\ UNCHANGED <<area, vars, stock, workOrders, plans, checklists, pages>>

\* What is explored: a behaviour is followed as long as it can break a property.
\* Once requests overlapped, nothing is claimed that a contract's deletion or end
\* bears on, nor of the ticks of a checklist, nor of which templates are in use;
\* once an edit met a call, nothing is of plans.
StillClaimed ==
    /\ overlapped => ~deleted /\ endDate = "far"
    /\ ~editMet
    /\ overlap =>
         /\ \A e \in DOMAIN executions : executions[e].status = "pendente" /\ executions[e].checked \cup executions[e].dated = {}
         /\ \A u \in Users : work[u].op # "toggle" /\ work[u].active = Kept

MCSpec == MCInit /\ [][MCNext]_<<area, vars, stock, workOrders, plans, checklists, pages, web>>

\* Every area keeps its types.
MCTypeOK == TypeOK /\ Stk!TypeOK /\ Wo!TypeOK /\ Pp!TypeOK /\ Cl!TypeOK /\ Pag!TypeOK /\ Web!TypeOK

\* The properties of the areas, stated and explained in their modules.
StockIsAccounted == Stk!StockIsAccounted

\* Work: orders, the plans that make them, checklists.
WorkIsCoherent == Wo!OrderIsCoherent /\ Pp!EveryDateOnce /\ Cl!ExecutionsAreSound

\* What is shown: the pages of a list, and what became of a request.
ShownIsTrue == Pag!PagesAreRight /\ Web!RequestsAreRight

\* The tables do not change; they are looked at where the front ends start.
RoutesAreThere == area = "web" /\ tabs = [t \in Tab |-> Web!Idle] => TablesAgree
=============================================================================
