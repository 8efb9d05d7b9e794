----------------------------- MODULE RecordProofs -----------------------------
(***************************************************************************)
(* Proofs about the records of the administration, as MCTenant composes     *)
(* them: accounts and roles, employees, the exchange with the ERP, the      *)
(* dashboard, handoffs, lists, the registry.  Each of the seven has an      *)
(* inductive invariant, established by its initial states and kept by its   *)
(* actions; while one moves, the others stand still.                        *)
(***************************************************************************)
EXTENDS MCTenant, Counting

LEMMA RequestSet ==
    ASSUME NEW S, NEW s \in [Request -> S], NEW u \in Request, NEW r \in S, NEW t, t = [s EXCEPT ![u] = r]
    PROVE  /\ t \in [Request -> S] /\ t[u] = r
           /\ \A v \in Request : v # u => t[v] = s[v]
    OBVIOUS

NoRecordRequest == [op |-> "none"]

LEMMA NoRecordRequestIs == NoRecordRequest.op = "none"
    BY DEF NoRecordRequest

LEMMA RequestPut ==
    ASSUME NEW s, DOMAIN s = Request, NEW u \in Request, NEW r, NEW t, t = [s EXCEPT ![u] = r]
    PROVE  /\ DOMAIN t = Request /\ t[u] = r
           /\ \A v \in Request : v # u => t[v] = s[v]
    OBVIOUS

LEMMA OneAtMost ==
    ASSUME NEW S, \A x, y \in S : x = y
    PROVE  Cardinality(S) <= 1
<1>1. CASE S = {}
    <2>1. Cardinality(S) = 0
        BY <1>1, FS_EmptySet
    <2> QED
        BY <2>1
<1>2. CASE S # {}
    <2>1. PICK x : S = {x}
        BY <1>2
    <2>2. Cardinality(S) = 1
        BY <2>1, FS_Singleton
    <2> QED
        BY <2>2
<1> QED
    BY <1>1, <1>2

(***************************************************************************)
(* Accounts and roles: the accounts s1, the roles s2, the ids given out s3, *)
(* the requests s4, whether two have overlapped s5.                         *)
(***************************************************************************)
RefersIn(role, roles) == role = 0 \/ \E c \in Acc!Code : roles[c] = role

\* Ids are given out once.
RolesRight(roles, last) ==
    /\ roles \in [Acc!Code -> 0..MaxRole] /\ last \in 0..MaxRole
    /\ \A c \in Acc!Code : roles[c] <= last
    /\ \A c, d \in Acc!Code : roles[c] = roles[d] /\ roles[c] # 0 => c = d

AccountRight(a, roles, last) ==
    /\ a.given <= last
    /\ a.role = a.given \/ (a.role = 0 /\ ~RefersIn(a.given, roles))

EmailsApart(list) == \A i, j \in DOMAIN list : list[i].email = list[j].email => i = j

\* A request, and the accounts there are by now.
AskedOf(q, list) ==
    /\ q.op = "create" => q.email \in Email
    /\ q.op = "update" => q.id \in DOMAIN list /\ q.loaded \in Acc!Account /\ q.new \in Acc!Account /\ ~q.loaded.deleted
    /\ q.op = "arrive" => q.email \in Email /\ q.code \in Acc!Code
    /\ q.op = "promote" => q.id \in DOMAIN list /\ q.code \in Acc!Code
    /\ q.op = "deleteRole" => q.code \in Acc!Code /\ q.role # 0

Asking(u) == s4[u].op # "none"

Held(list) == \A i \in DOMAIN list : ~list[i].deleted => list[i].role = list[i].given

AccountsSerial ==
    ~s5 =>
        /\ Held(s1)
        /\ \A u, v \in Request : Asking(u) /\ Asking(v) => u = v
        /\ \A u \in Request : s4[u].op = "deleteRole" =>
                \A i \in DOMAIN s1 : ~s1[i].deleted => s1[i].role # s4[u].role

AccountsInv ==
    /\ s1 \in Seq(Acc!Account) /\ RolesRight(s2, s3) /\ DOMAIN s4 = Request /\ s5 \in BOOLEAN
    /\ \A i \in DOMAIN s1 : AccountRight(s1[i], s2, s3)
    /\ EmailsApart(s1)
    /\ \A u \in Request : AskedOf(s4[u], s1)
    /\ AccountsSerial

LEMMA RolesNumber == MaxRole \in Nat /\ MaxRole >= 1
    BY CapsAssumption DEF CapsAssumption

LEMMA AccountsInit == Acc!Init => AccountsInv
<1> SUFFICES ASSUME Acc!Init PROVE AccountsInv
    OBVIOUS
<1>1. /\ s1 = <<>> /\ s2 = [c \in Acc!Code |-> IF c = "admin" THEN 1 ELSE 0] /\ s3 = 1
      /\ s4 = [u \in Request |-> NoRecordRequest] /\ s5 = FALSE
    BY DEF Acc!Init, NoRecordRequest
<1>2. \A u \in Request : s4[u] = NoRecordRequest
    BY <1>1
<1>3. s1 \in Seq(Acc!Account) /\ DOMAIN s1 = {}
    BY <1>1
<1>4. RolesRight(s2, s3)
    <2>1. \A c \in Acc!Code : s2[c] = IF c = "admin" THEN 1 ELSE 0
        BY <1>1
    <2>2. s2 \in [Acc!Code -> 0..MaxRole] /\ s3 \in 0..MaxRole
        BY <1>1, RolesNumber
    <2> QED
        BY <1>1, <2>1, <2>2 DEF RolesRight
<1>5. AccountsSerial /\ \A u \in Request : AskedOf(s4[u], s1)
    BY <1>2, <1>3, NoRecordRequestIs DEF AccountsSerial, AskedOf, Asking, Held
<1> QED
    BY <1>1, <1>3, <1>4, <1>5 DEF AccountsInv, EmailsApart

LEMMA AccountsTypes ==
    ASSUME AccountsInv
    PROVE  /\ s1 \in Seq(Acc!Account) /\ Len(s1) \in Nat /\ DOMAIN s1 = 1..Len(s1)
           /\ \A i \in DOMAIN s1 : s1[i] \in Acc!Account
           /\ s2 \in [Acc!Code -> 0..MaxRole] /\ s3 \in 0..MaxRole /\ s3 \in Nat
           /\ \A c \in Acc!Code : s2[c] \in Nat /\ s2[c] <= s3
           /\ DOMAIN s4 = Request /\ s5 \in BOOLEAN
<1>1. s1 \in Seq(Acc!Account) /\ DOMAIN s4 = Request /\ s5 \in BOOLEAN
    BY DEF AccountsInv
<1>2. Len(s1) \in Nat /\ DOMAIN s1 = 1..Len(s1) /\ \A i \in DOMAIN s1 : s1[i] \in Acc!Account
    BY <1>1
<1>3. s2 \in [Acc!Code -> 0..MaxRole] /\ s3 \in 0..MaxRole /\ \A c \in Acc!Code : s2[c] <= s3
    BY DEF AccountsInv, RolesRight
<1>4. s3 \in Nat /\ \A c \in Acc!Code : s2[c] \in Nat
    BY <1>3, RolesNumber
<1> QED
    BY <1>1, <1>2, <1>3, <1>4

LEMMA AccountsBegin ==
    ASSUME AccountsInv, NEW u \in Request, NEW r, r.op # "none", Acc!Begin(u, r), AskedOf(r, s1),
           r.op = "deleteRole" => \A i \in DOMAIN s1 : ~s1[i].deleted => s1[i].role # r.role
    PROVE  AccountsInv'
<1>1. /\ s4' = [s4 EXCEPT ![u] = r] /\ s5' = (s5 \/ \E v \in Request : Asking(v))
      /\ s1' = s1 /\ s2' = s2 /\ s3' = s3
    BY DEF Acc!Begin, Acc!Idle, Asking
<1>2. DOMAIN s4' = Request /\ s4'[u] = r /\ \A v \in Request : v # u => s4'[v] = s4[v]
    BY <1>1, RequestPut, AccountsTypes
<1>3. s5' \in BOOLEAN /\ (~s5' => ~s5 /\ \A v \in Request : ~Asking(v))
    BY <1>1, AccountsTypes
<1>4. \A v \in Request : AskedOf(s4'[v], s1')
    BY <1>1, <1>2 DEF AccountsInv
<1>5. AccountsSerial'
    <2> SUFFICES ASSUME ~s5'
                 PROVE  /\ Held(s1')
                        /\ \A v, w \in Request : Asking(v)' /\ Asking(w)' => v = w
                        /\ \A v \in Request : s4'[v].op = "deleteRole" =>
                                \A i \in DOMAIN s1' : ~s1'[i].deleted => s1'[i].role # s4'[v].role
        BY DEF AccountsSerial
    <2>1. \A v \in Request : s4'[v].op # "none" => v = u
        BY <1>2, <1>3 DEF Asking
    <2> QED
        BY <1>1, <1>2, <1>3, <2>1 DEF AccountsInv, AccountsSerial, Asking
<1> QED
    BY <1>1, <1>2, <1>3, <1>4, <1>5 DEF AccountsInv, EmailsApart

\* What stays right when accounts and roles change.
LEMMA AccountsEnd ==
    ASSUME AccountsInv, NEW u \in Request, Asking(u), s4' = [s4 EXCEPT ![u] = [op |-> "none"]], s5' = s5,
           s1' \in Seq(Acc!Account), DOMAIN s1 \subseteq DOMAIN s1', RolesRight(s2', s3'),
           \A i \in DOMAIN s1' : AccountRight(s1'[i], s2', s3'), EmailsApart(s1'), ~s5 => Held(s1')
    PROVE  AccountsInv'
<1>1. DOMAIN s4' = Request /\ s4'[u] = NoRecordRequest /\ \A v \in Request : v # u => s4'[v] = s4[v]
    BY RequestPut, AccountsTypes DEF NoRecordRequest
<1>2. \A v \in Request : AskedOf(s4'[v], s1')
    <2> SUFFICES ASSUME NEW v \in Request PROVE AskedOf(s4'[v], s1')
        OBVIOUS
    <2>1. CASE v = u
        BY <1>1, <2>1, NoRecordRequestIs DEF AskedOf
    <2>2. CASE v # u
        <3>1. s4'[v] = s4[v] /\ AskedOf(s4[v], s1)
            BY <1>1, <2>2 DEF AccountsInv
        <3> QED
            BY <3>1 DEF AskedOf
    <2> QED
        BY <2>1, <2>2
<1>3. AccountsSerial'
    <2> SUFFICES ASSUME ~s5 PROVE Held(s1') /\ \A v \in Request : s4'[v].op = "none"
        BY DEF AccountsSerial, Asking
    <2> QED
        BY <1>1, NoRecordRequestIs DEF AccountsInv, AccountsSerial, Asking
<1> QED
    BY <1>1, <1>2, <1>3, AccountsTypes DEF AccountsInv

\* A new role has an id of its own; nobody was ever given it.
LEMMA RoleAdded ==
    ASSUME AccountsInv, NEW c \in Acc!Code, s2[c] = 0, s3 < MaxRole, NEW roles, roles = [s2 EXCEPT ![c] = s3 + 1]
    PROVE  /\ RolesRight(roles, s3 + 1) /\ RefersIn(s3 + 1, roles)
           /\ \A i \in DOMAIN s1 : AccountRight(s1[i], roles, s3 + 1)
<1>1. /\ \A d \in Acc!Code : roles[d] = IF d = c THEN s3 + 1 ELSE s2[d]
      /\ roles \in [Acc!Code -> 0..MaxRole] /\ s3 + 1 \in 0..MaxRole
    <2>1. s3 + 1 \in 0..MaxRole
        BY AccountsTypes, RolesNumber
    <2> QED
        BY <2>1, AccountsTypes
<1>2. RolesRight(roles, s3 + 1)
    <2>1. \A d \in Acc!Code : roles[d] <= s3 + 1
        BY <1>1, AccountsTypes
    <2>2. \A d, e \in Acc!Code : roles[d] = roles[e] /\ roles[d] # 0 => d = e
        <3> SUFFICES ASSUME NEW d \in Acc!Code, NEW e \in Acc!Code, roles[d] = roles[e], roles[d] # 0, d # e PROVE FALSE
            OBVIOUS
        <3>1. s2[d] \in Nat /\ s2[e] \in Nat /\ s2[d] <= s3 /\ s2[e] <= s3 /\ s3 \in Nat
            BY AccountsTypes
        <3>2. s2[d] = s2[e] /\ s2[d] # 0 => d = e
            BY DEF AccountsInv, RolesRight
        <3> QED
            BY <1>1, <3>1, <3>2
    <2> QED
        BY <1>1, <2>1, <2>2 DEF RolesRight
<1>3. ASSUME NEW i \in DOMAIN s1 PROVE AccountRight(s1[i], roles, s3 + 1)
    <2>1. AccountRight(s1[i], s2, s3) /\ s1[i].given \in Nat /\ s3 \in Nat
        BY AccountsTypes, RolesNumber DEF AccountsInv, Acc!Account
    <2>2. s1[i].given <= s3
        BY <2>1 DEF AccountRight
    <2>3. RefersIn(s1[i].given, roles) => RefersIn(s1[i].given, s2)
        BY <1>1, <2>1, <2>2 DEF RefersIn
    <2> QED
        BY <2>1, <2>2, <2>3 DEF AccountRight
<1> QED
    BY <1>1, <1>2, <1>3 DEF RefersIn

LEMMA RefersTo ==
    ASSUME NEW role, NEW roles, NEW last, RolesRight(roles, last), RefersIn(role, roles)
    PROVE  role \in 0..MaxRole /\ role \in 0..last
<1>1. \A c \in Acc!Code : roles[c] \in 0..MaxRole /\ roles[c] <= last /\ last \in 0..MaxRole
    BY DEF RolesRight
<1>2. last \in Nat
    BY RolesNumber DEF RolesRight
<1>3. \A c \in Acc!Code : roles[c] \in 0..last
    BY <1>1, <1>2, RolesNumber
<1> QED
    BY <1>1, <1>2, <1>3, RolesNumber DEF RefersIn

\* An account that is added, with a role there is.
LEMMA AccountAdded ==
    ASSUME AccountsInv, NEW e \in Email, NEW role, NEW roles, NEW last, RolesRight(roles, last), RefersIn(role, roles),
           \A i \in DOMAIN s1 : AccountRight(s1[i], roles, last), Acc!Inserted(e, role)
    PROVE  /\ s1' \in Seq(Acc!Account) /\ DOMAIN s1 \subseteq DOMAIN s1' /\ EmailsApart(s1')
           /\ \A i \in DOMAIN s1' : AccountRight(s1'[i], roles, last)
           /\ ~s5 => Held(s1')
<1> DEFINE a == [email |-> e, role |-> role, active |-> TRUE, deleted |-> FALSE, given |-> role]
<1>1. (\A i \in DOMAIN s1 : s1[i].email # e) /\ s1' = Append(s1, a)
    BY DEF Acc!Inserted, Acc!Unused
<1>2. role \in 0..MaxRole /\ role <= last
    <2>1. role \in 0..MaxRole /\ role \in 0..last
        BY RefersTo
    <2> QED
        BY <2>1, RolesNumber
<1>3. a \in Acc!Account /\ a.email = e /\ a.role = role /\ a.given = role
    BY <1>2 DEF Acc!Account
<1> HIDE DEF a
<1>4. /\ s1' \in Seq(Acc!Account) /\ DOMAIN s1 = 1..Len(s1) /\ Len(s1) \in Nat /\ DOMAIN s1' = 1..(Len(s1) + 1)
      /\ \A i \in 1..Len(s1) : s1'[i] = s1[i]
      /\ s1'[Len(s1) + 1] = a
    BY <1>1, <1>3, AppendTo, AccountsTypes
<1>5. \A i \in DOMAIN s1' : (i \in DOMAIN s1 /\ s1'[i] = s1[i]) \/ (i \notin DOMAIN s1 /\ i = Len(s1) + 1 /\ s1'[i] = a)
    BY <1>4
<1>6. DOMAIN s1 \subseteq DOMAIN s1'
    BY <1>4
<1>7. EmailsApart(s1')
    BY <1>1, <1>3, <1>5 DEF AccountsInv, EmailsApart
<1>8. AccountRight(a, roles, last)
    BY <1>2, <1>3 DEF AccountRight
<1>9. \A i \in DOMAIN s1' : AccountRight(s1'[i], roles, last)
    BY <1>5, <1>8
<1>10. ~s5 => Held(s1')
    BY <1>3, <1>5 DEF AccountsInv, AccountsSerial, Held
<1> QED
    BY <1>4, <1>6, <1>7, <1>9, <1>10

\* The role of _ensure_default_sso_role, _ensure_admin_sso_role.
LEMMA EnsuredIs ==
    ASSUME AccountsInv, NEW u \in Request, s4[u].code \in Acc!Code, Acc!Ensured(u)
    PROVE  /\ RolesRight(s2', s3') /\ RefersIn(Acc!EnsuredRole(u), s2')
           /\ \A i \in DOMAIN s1 : AccountRight(s1[i], s2', s3')
<1>1. CASE s4[u].role # 0
    <2>1. Acc!Refers(s4[u].role) /\ s2' = s2 /\ s3' = s3 /\ Acc!EnsuredRole(u) = s4[u].role
        BY <1>1 DEF Acc!Ensured, Acc!EnsuredRole
    <2>2. RefersIn(s4[u].role, s2)
        BY <2>1 DEF Acc!Refers, RefersIn
    <2> QED
        BY <2>1, <2>2 DEF AccountsInv
<1>2. CASE s4[u].role = 0
    <2> DEFINE c == s4[u].code
    <2>1. s2[c] = 0 /\ s3 < MaxRole /\ s3' = s3 + 1 /\ s2' = [s2 EXCEPT ![c] = s3 + 1] /\ Acc!EnsuredRole(u) = s3 + 1
        BY <1>2 DEF Acc!Ensured, Acc!EnsuredRole
    <2> HIDE DEF c
    <2>2. c \in Acc!Code
        BY DEF c
    <2> QED
        BY <2>1, <2>2, RoleAdded
<1> QED
    BY <1>1, <1>2

LEMMA AccountsCreate ==
    ASSUME AccountsInv, NEW u \in Request, Acc!CreateCommit(u) \/ Acc!ArriveCommit(u)
    PROVE  AccountsInv'
<1>1. CASE Acc!CreateCommit(u)
    <2>1. /\ s4[u].op = "create" /\ Acc!Refers(s4[u].role) /\ Acc!Inserted(s4[u].email, s4[u].role)
          /\ s4' = [s4 EXCEPT ![u] = [op |-> "none"]] /\ s2' = s2 /\ s3' = s3 /\ s5' = s5
        BY <1>1 DEF Acc!CreateCommit, Acc!Finish
    <2>2. RefersIn(s4[u].role, s2) /\ s4[u].email \in Email
        BY <2>1 DEF Acc!Refers, RefersIn, AccountsInv, AskedOf
    <2>3. RolesRight(s2, s3) /\ \A i \in DOMAIN s1 : AccountRight(s1[i], s2, s3)
        BY DEF AccountsInv
    <2>4. /\ s1' \in Seq(Acc!Account) /\ DOMAIN s1 \subseteq DOMAIN s1' /\ EmailsApart(s1')
          /\ \A i \in DOMAIN s1' : AccountRight(s1'[i], s2, s3)
          /\ ~s5 => Held(s1')
        BY <2>1, <2>2, <2>3, AccountAdded
    <2> QED
        BY <2>1, <2>3, <2>4, AccountsEnd DEF Asking
<1>2. CASE Acc!ArriveCommit(u)
    <2>1. /\ s4[u].op = "arrive" /\ Acc!Ensured(u) /\ Acc!Inserted(s4[u].email, Acc!EnsuredRole(u))
          /\ s4' = [s4 EXCEPT ![u] = [op |-> "none"]] /\ s5' = s5
        BY <1>2 DEF Acc!ArriveCommit, Acc!Finish
    <2>2. s4[u].code \in Acc!Code /\ s4[u].email \in Email
        BY <2>1 DEF AccountsInv, AskedOf
    <2>3. /\ RolesRight(s2', s3') /\ RefersIn(Acc!EnsuredRole(u), s2')
          /\ \A i \in DOMAIN s1 : AccountRight(s1[i], s2', s3')
        BY <2>1, <2>2, EnsuredIs
    <2>4. /\ s1' \in Seq(Acc!Account) /\ DOMAIN s1 \subseteq DOMAIN s1' /\ EmailsApart(s1')
          /\ \A i \in DOMAIN s1' : AccountRight(s1'[i], s2', s3')
          /\ ~s5 => Held(s1')
        BY <2>1, <2>2, <2>3, AccountAdded
    <2> QED
        BY <2>1, <2>3, <2>4, AccountsEnd DEF Asking
<1> QED
    BY <1>1, <1>2

\* An account that changes, with its e-mail.
LEMMA AccountChanged ==
    ASSUME AccountsInv, NEW k \in DOMAIN s1, NEW a \in Acc!Account, a.email = s1[k].email, s1' = [s1 EXCEPT ![k] = a],
           NEW roles, NEW last, AccountRight(a, roles, last), \A i \in DOMAIN s1 : AccountRight(s1[i], roles, last),
           ~s5 /\ ~a.deleted => a.role = a.given
    PROVE  /\ s1' \in Seq(Acc!Account) /\ DOMAIN s1 \subseteq DOMAIN s1' /\ EmailsApart(s1')
           /\ \A i \in DOMAIN s1' : AccountRight(s1'[i], roles, last)
           /\ ~s5 => Held(s1')
<1>1. /\ s1' \in Seq(Acc!Account) /\ DOMAIN s1' = DOMAIN s1
      /\ \A i \in DOMAIN s1 : s1'[i] = IF i = k THEN a ELSE s1[i]
    BY ExceptSeq, AccountsTypes
<1>2. EmailsApart(s1')
    <2>1. \A i \in DOMAIN s1 : s1'[i].email = s1[i].email
        BY <1>1
    <2> QED
        BY <1>1, <2>1 DEF AccountsInv, EmailsApart
<1>3. ~s5 => Held(s1')
    BY <1>1 DEF AccountsInv, AccountsSerial, Held
<1> QED
    BY <1>1, <1>2, <1>3

LEMMA AccountsUpdate == ASSUME AccountsInv, NEW u \in Request, Acc!UpdateCommit(u) PROVE AccountsInv'
<1> DEFINE k == s4[u].id
           row == s1[k]
           loaded == s4[u].loaded
           new == s4[u].new
           role == IF new.role # loaded.role THEN new.role ELSE row.role
           given == IF new.role # loaded.role THEN new.role ELSE row.given
           active == IF new.active # loaded.active THEN new.active ELSE row.active
           deleted == IF new.deleted # loaded.deleted THEN new.deleted ELSE row.deleted
           e == [row EXCEPT !.role = role]
           f == [e EXCEPT !.given = given]
           g == [f EXCEPT !.active = active]
           a == [g EXCEPT !.deleted = deleted]
<1>1. /\ s4[u].op = "update" /\ (new.role # loaded.role => RefersIn(new.role, s2))
      /\ s1' = [s1 EXCEPT ![k] = Acc!Written(u)]
      /\ s4' = [s4 EXCEPT ![u] = [op |-> "none"]] /\ s2' = s2 /\ s3' = s3 /\ s5' = s5
    BY DEF Acc!UpdateCommit, Acc!Finish, Acc!Refers, RefersIn
<1>2. k \in DOMAIN s1 /\ loaded \in Acc!Account /\ new \in Acc!Account /\ ~loaded.deleted
    BY <1>1 DEF AccountsInv, AskedOf
<1>3. row \in Acc!Account /\ AccountRight(row, s2, s3)
    BY <1>2, AccountsTypes DEF AccountsInv
<1>4. Acc!Written(u) = a
    BY <1>3 DEF Acc!Written, Acc!Account
<1> HIDE DEF k, row, loaded, new
<1>5. /\ role \in 0..MaxRole /\ given \in 0..MaxRole /\ active \in BOOLEAN /\ deleted \in BOOLEAN
      /\ row.deleted => deleted
      /\ (role = row.role /\ given = row.given) \/ (role = given /\ RefersIn(role, s2))
    <2>1. /\ row.role \in 0..MaxRole /\ row.given \in 0..MaxRole /\ new.role \in 0..MaxRole
          /\ row.active \in BOOLEAN /\ new.active \in BOOLEAN /\ row.deleted \in BOOLEAN /\ new.deleted \in BOOLEAN
          /\ loaded.deleted = FALSE
        BY <1>2, <1>3 DEF Acc!Account
    <2>2. role \in 0..MaxRole /\ given \in 0..MaxRole
        BY <2>1
    <2>3. active \in BOOLEAN
        BY <2>1
    <2>4. deleted \in BOOLEAN /\ (row.deleted => deleted)
        BY <2>1
    <2>5. (role = row.role /\ given = row.given) \/ (role = given /\ RefersIn(role, s2))
        BY <1>1
    <2> QED
        BY <2>2, <2>3, <2>4, <2>5
<1> HIDE DEF role, given, active, deleted
<1>6. e \in Acc!Account /\ e.role = role /\ e.email = row.email /\ e.given = row.given
    BY <1>3, <1>5 DEF Acc!Account
<1> HIDE DEF e
<1>7. f \in Acc!Account /\ f.role = role /\ f.email = row.email /\ f.given = given
    BY <1>5, <1>6 DEF Acc!Account
<1> HIDE DEF f
<1>8. g \in Acc!Account /\ g.role = role /\ g.email = row.email /\ g.given = given
    BY <1>5, <1>7 DEF Acc!Account
<1> HIDE DEF g
<1>9. a \in Acc!Account /\ a.role = role /\ a.email = row.email /\ a.given = given /\ a.deleted = deleted
    BY <1>5, <1>8 DEF Acc!Account
<1> HIDE DEF a
<1>10. AccountRight(a, s2, s3)
    <2>1. CASE role = row.role /\ given = row.given
        BY <1>3, <1>9, <2>1 DEF AccountRight
    <2>2. CASE role = given /\ RefersIn(role, s2)
        <3>1. role \in 0..s3
            BY <2>2, RefersTo DEF AccountsInv
        <3> QED
            BY <1>9, <2>2, <3>1, AccountsTypes DEF AccountRight
    <2> QED
        BY <1>5, <2>1, <2>2
<1>11. ~s5 /\ ~a.deleted => a.role = a.given
    <2> SUFFICES ASSUME ~s5, ~deleted PROVE role = given
        BY <1>9
    <2>1. ~row.deleted
        BY <1>5
    <2>2. row.role = row.given
        BY <1>2, <2>1 DEF AccountsInv, AccountsSerial, Held, row
    <2> QED
        BY <1>5, <2>2
<1>12. s1' = [s1 EXCEPT ![k] = a] /\ a.email = s1[k].email
    BY <1>1, <1>4, <1>9 DEF row
<1>13. RolesRight(s2, s3) /\ \A i \in DOMAIN s1 : AccountRight(s1[i], s2, s3)
    BY DEF AccountsInv
<1>14. /\ s1' \in Seq(Acc!Account) /\ DOMAIN s1 \subseteq DOMAIN s1' /\ EmailsApart(s1')
       /\ \A i \in DOMAIN s1' : AccountRight(s1'[i], s2, s3)
       /\ ~s5 => Held(s1')
    BY <1>2, <1>9, <1>10, <1>11, <1>12, <1>13, AccountChanged
<1> QED
    BY <1>1, <1>13, <1>14, AccountsEnd DEF Asking

LEMMA AccountsPromote == ASSUME AccountsInv, NEW u \in Request, Acc!PromoteCommit(u) PROVE AccountsInv'
<1> DEFINE k == s4[u].id
           role == Acc!EnsuredRole(u)
           e == [s1[k] EXCEPT !.role = role]
           a == [e EXCEPT !.given = role]
<1>1. /\ s4[u].op = "promote" /\ Acc!Ensured(u) /\ s1' = [s1 EXCEPT ![k].role = role, ![k].given = role]
      /\ s4' = [s4 EXCEPT ![u] = [op |-> "none"]] /\ s5' = s5
    BY DEF Acc!PromoteCommit, Acc!Finish
<1>2. k \in DOMAIN s1 /\ s4[u].code \in Acc!Code
    BY <1>1 DEF AccountsInv, AskedOf
<1>3. /\ RolesRight(s2', s3') /\ RefersIn(role, s2')
      /\ \A i \in DOMAIN s1 : AccountRight(s1[i], s2', s3')
    BY <1>1, <1>2, EnsuredIs
<1>4. s1' = [s1 EXCEPT ![k] = a]
    <2>1. s1[k] \in Acc!Account /\ s1 \in Seq(Acc!Account)
        BY <1>2, AccountsTypes
    <2> HIDE DEF role, k
    <2> QED
        BY <1>1, <1>2, <2>1 DEF Acc!Account
<1>5. role \in 0..MaxRole /\ role \in 0..s3' /\ s3' \in 0..MaxRole
    BY <1>3, RefersTo DEF RolesRight
<1> HIDE DEF role, k
<1>6. e \in Acc!Account /\ e.role = role /\ e.email = s1[k].email
    BY <1>2, <1>5, AccountsTypes DEF Acc!Account
<1> HIDE DEF e
<1>7. a \in Acc!Account /\ a.role = role /\ a.given = role /\ a.email = s1[k].email
    BY <1>5, <1>6 DEF Acc!Account
<1> HIDE DEF a
<1>8. AccountRight(a, s2', s3')
    BY <1>5, <1>7, RolesNumber DEF AccountRight
<1>9. /\ s1' \in Seq(Acc!Account) /\ DOMAIN s1 \subseteq DOMAIN s1' /\ EmailsApart(s1')
      /\ \A i \in DOMAIN s1' : AccountRight(s1'[i], s2', s3')
      /\ ~s5 => Held(s1')
    BY <1>2, <1>3, <1>4, <1>7, <1>8, AccountChanged
<1> QED
    BY <1>1, <1>3, <1>9, AccountsEnd DEF Asking

LEMMA AccountsCreateRole == ASSUME AccountsInv, NEW u \in Request, Acc!CreateRole(u) PROVE AccountsInv'
<1>1. PICK c \in Acc!Code : s2[c] = 0 /\ s2' = [s2 EXCEPT ![c] = s3 + 1]
    BY DEF Acc!CreateRole
<1>2. s3 < MaxRole /\ s3' = s3 + 1 /\ s1' = s1 /\ s4' = s4 /\ s5' = (s5 \/ \E v \in Request : Asking(v))
    BY DEF Acc!CreateRole, Acc!Idle, Asking
<1>3. RolesRight(s2', s3') /\ \A i \in DOMAIN s1 : AccountRight(s1[i], s2', s3')
    BY <1>1, <1>2, RoleAdded
<1>4. s5' \in BOOLEAN /\ (~s5' => ~s5)
    BY <1>2, AccountsTypes
<1>5. AccountsSerial'
    BY <1>2, <1>4 DEF AccountsInv, AccountsSerial, Asking
<1> QED
    BY <1>2, <1>3, <1>4, <1>5 DEF AccountsInv

LEMMA AccountsDeleteRole == ASSUME AccountsInv, NEW u \in Request, Acc!DeleteRoleCommit(u) PROVE AccountsInv'
<1> DEFINE c == s4[u].code
           d == s4[u].role
<1>1. /\ s4[u].op = "deleteRole" /\ s2[c] = d /\ s2' = [s2 EXCEPT ![c] = 0]
      /\ s1' = [i \in DOMAIN s1 |-> [s1[i] EXCEPT !.role = IF @ = d THEN 0 ELSE @]]
      /\ s4' = [s4 EXCEPT ![u] = [op |-> "none"]] /\ s3' = s3 /\ s5' = s5
    BY DEF Acc!DeleteRoleCommit, Acc!Finish
<1>2. c \in Acc!Code /\ d # 0 /\ (~s5 => \A i \in DOMAIN s1 : ~s1[i].deleted => s1[i].role # d)
    BY <1>1 DEF AccountsInv, AskedOf, AccountsSerial
<1> HIDE DEF c, d
<1>3. \A b \in Acc!Code : s2'[b] = IF b = c THEN 0 ELSE s2[b]
    BY <1>1, AccountsTypes
<1>4. RolesRight(s2', s3')
    <2>0. 0 \in 0..MaxRole
        BY RolesNumber
    <2>1. s2' \in [Acc!Code -> 0..MaxRole]
        BY <1>1, <2>0, AccountsTypes
    <2>2. \A b \in Acc!Code : s2'[b] <= s3
        BY <1>3, AccountsTypes
    <2>3. \A a, b \in Acc!Code : s2'[a] = s2'[b] /\ s2'[a] # 0 => a = b
        BY <1>3 DEF AccountsInv, RolesRight
    <2> QED
        BY <1>1, <2>1, <2>2, <2>3, AccountsTypes DEF RolesRight
<1>5. ~RefersIn(d, s2')
    BY <1>1, <1>2, <1>3 DEF AccountsInv, RolesRight, RefersIn
<1>6. \A x : RefersIn(x, s2') => RefersIn(x, s2)
    BY <1>3 DEF RefersIn
<1>7. ASSUME NEW i \in DOMAIN s1
      PROVE  /\ s1'[i] \in Acc!Account /\ s1'[i].email = s1[i].email /\ s1'[i].given = s1[i].given
             /\ s1'[i].deleted = s1[i].deleted /\ s1'[i].role = IF s1[i].role = d THEN 0 ELSE s1[i].role
    <2>1. s1[i] \in Acc!Account
        BY AccountsTypes
    <2>2. s1'[i] = [s1[i] EXCEPT !.role = IF @ = d THEN 0 ELSE @]
        BY <1>1
    <2>3. (IF s1[i].role = d THEN 0 ELSE s1[i].role) \in 0..MaxRole
        BY <2>1, RolesNumber DEF Acc!Account
    <2> QED
        BY <2>1, <2>2, <2>3 DEF Acc!Account
<1>8. ASSUME NEW i \in DOMAIN s1 PROVE AccountRight(s1'[i], s2', s3')
    <2>1. AccountRight(s1[i], s2, s3)
        BY DEF AccountsInv
    <2>2. CASE s1[i].role = d
        <3>1. s1[i].given = d
            BY <1>2, <2>1, <2>2 DEF AccountRight
        <3> QED
            BY <1>1, <1>5, <1>7, <2>1, <2>2, <3>1 DEF AccountRight
    <2>3. CASE s1[i].role # d
        BY <1>1, <1>6, <1>7, <2>1, <2>3 DEF AccountRight
    <2> QED
        BY <2>2, <2>3
<1>9. s1' \in Seq(Acc!Account) /\ DOMAIN s1' = DOMAIN s1
    <2>1. DOMAIN s1' = DOMAIN s1 /\ s1' = [i \in DOMAIN s1 |-> s1'[i]]
        BY <1>1
    <2>2. s1 \in Seq(Acc!Account)
        BY AccountsTypes
    <2> QED
        BY <1>7, <2>1, <2>2, SameLength
<1>10. EmailsApart(s1') /\ (~s5 => Held(s1'))
    BY <1>2, <1>7, <1>9 DEF AccountsInv, EmailsApart, AccountsSerial, Held
<1> QED
    BY <1>1, <1>4, <1>8, <1>9, <1>10, AccountsEnd DEF Asking

LEMMA AccountsAsk ==
    ASSUME AccountsInv, NEW u \in Request,
           Acc!CreateBegin(u) \/ Acc!UpdateBegin(u) \/ Acc!DeleteBegin(u) \/ Acc!ArriveBegin(u)
             \/ Acc!PromoteBegin(u) \/ Acc!DeleteRoleBegin(u)
    PROVE  AccountsInv'
<1>1. CASE Acc!CreateBegin(u)
    <2>1. PICK e \in Email, c \in Acc!Code : Acc!Begin(u, [op |-> "create", email |-> e, role |-> s2[c]])
        BY <1>1 DEF Acc!CreateBegin
    <2> DEFINE r == [op |-> "create", email |-> e, role |-> s2[c]]
    <2>2. Acc!Begin(u, r) /\ r.op = "create" /\ AskedOf(r, s1)
        BY <2>1 DEF AskedOf
    <2> HIDE DEF r
    <2> QED
        BY <2>2, AccountsBegin
<1>2. CASE Acc!UpdateBegin(u) \/ Acc!DeleteBegin(u)
    <2>1. \E i \in DOMAIN s1 : \E a \in Acc!Account :
            ~s1[i].deleted /\ Acc!Begin(u, [op |-> "update", id |-> i, loaded |-> s1[i], new |-> a])
        <3>1. CASE Acc!UpdateBegin(u)
            <4>1. PICK i \in DOMAIN s1, c \in Acc!Code, active \in BOOLEAN :
                    /\ ~s1[i].deleted
                    /\ Acc!Begin(u, [op |-> "update", id |-> i, loaded |-> s1[i],
                                     new |-> [s1[i] EXCEPT !.role = s2[c], !.active = active]])
                BY <3>1 DEF Acc!UpdateBegin
            <4> DEFINE e == [s1[i] EXCEPT !.role = s2[c]]
                       a == [e EXCEPT !.active = active]
            <4>2. s1[i] \in Acc!Account /\ s2[c] \in 0..MaxRole
                BY AccountsTypes
            <4>3. a = [s1[i] EXCEPT !.role = s2[c], !.active = active]
                BY <4>2 DEF Acc!Account
            <4>4. e \in Acc!Account
                BY <4>2 DEF Acc!Account
            <4> HIDE DEF e
            <4>5. a \in Acc!Account
                BY <4>4 DEF Acc!Account
            <4> HIDE DEF a
            <4> QED
                BY <4>1, <4>3, <4>5
        <3>2. CASE Acc!DeleteBegin(u)
            <4>1. PICK i \in DOMAIN s1 :
                    /\ ~s1[i].deleted
                    /\ Acc!Begin(u, [op |-> "update", id |-> i, loaded |-> s1[i],
                                     new |-> [s1[i] EXCEPT !.deleted = TRUE, !.active = FALSE]])
                BY <3>2 DEF Acc!DeleteBegin
            <4> DEFINE e == [s1[i] EXCEPT !.deleted = TRUE]
                       a == [e EXCEPT !.active = FALSE]
            <4>2. s1[i] \in Acc!Account
                BY AccountsTypes
            <4>3. a = [s1[i] EXCEPT !.deleted = TRUE, !.active = FALSE]
                BY <4>2 DEF Acc!Account
            <4>4. e \in Acc!Account
                BY <4>2 DEF Acc!Account
            <4> HIDE DEF e
            <4>5. a \in Acc!Account
                BY <4>4 DEF Acc!Account
            <4> HIDE DEF a
            <4> QED
                BY <4>1, <4>3, <4>5
        <3> QED
            BY <1>2, <3>1, <3>2
    <2>2. PICK i \in DOMAIN s1, a \in Acc!Account :
            ~s1[i].deleted /\ Acc!Begin(u, [op |-> "update", id |-> i, loaded |-> s1[i], new |-> a])
        BY <2>1
    <2> DEFINE r == [op |-> "update", id |-> i, loaded |-> s1[i], new |-> a]
    <2>3. Acc!Begin(u, r) /\ r.op = "update" /\ AskedOf(r, s1)
        BY <2>2, AccountsTypes DEF AskedOf
    <2> HIDE DEF r
    <2> QED
        BY <2>3, AccountsBegin
<1>3. CASE Acc!ArriveBegin(u)
    <2>1. PICK e \in Email, c \in {"admin", "colaborador"} :
            Acc!Begin(u, [op |-> "arrive", email |-> e, code |-> c, role |-> s2[c]])
        BY <1>3 DEF Acc!ArriveBegin
    <2> DEFINE r == [op |-> "arrive", email |-> e, code |-> c, role |-> s2[c]]
    <2>2. Acc!Begin(u, r) /\ r.op = "arrive" /\ AskedOf(r, s1)
        BY <2>1 DEF AskedOf, Acc!Code
    <2> HIDE DEF r
    <2> QED
        BY <2>2, AccountsBegin
<1>4. CASE Acc!PromoteBegin(u)
    <2>1. PICK i \in DOMAIN s1 : Acc!Begin(u, [op |-> "promote", id |-> i, code |-> "admin", role |-> s2["admin"]])
        BY <1>4 DEF Acc!PromoteBegin
    <2> DEFINE r == [op |-> "promote", id |-> i, code |-> "admin", role |-> s2["admin"]]
    <2>2. Acc!Begin(u, r) /\ r.op = "promote" /\ AskedOf(r, s1)
        BY <2>1 DEF AskedOf, Acc!Code
    <2> HIDE DEF r
    <2> QED
        BY <2>2, AccountsBegin
<1>5. CASE Acc!DeleteRoleBegin(u)
    <2>1. PICK c \in Acc!Code :
            /\ s2[c] # 0 /\ Acc!Holders(s2[c]) = {}
            /\ Acc!Begin(u, [op |-> "deleteRole", code |-> c, role |-> s2[c]])
        BY <1>5 DEF Acc!DeleteRoleBegin
    <2> DEFINE r == [op |-> "deleteRole", code |-> c, role |-> s2[c]]
    <2>2. Acc!Begin(u, r) /\ r.op = "deleteRole" /\ r.role = s2[c] /\ AskedOf(r, s1)
        BY <2>1 DEF AskedOf
    <2>3. \A i \in DOMAIN s1 : ~s1[i].deleted => s1[i].role # s2[c]
        BY <2>1 DEF Acc!Holders
    <2> HIDE DEF r
    <2> QED
        BY <2>2, <2>3, AccountsBegin
<1> QED
    BY <1>1, <1>2, <1>3, <1>4, <1>5

LEMMA AccountsStep == ASSUME AccountsInv, Acc!Next \/ UNCHANGED records PROVE AccountsInv'
<1>1. ASSUME NEW u \in Request, Acc!Abort(u) PROVE AccountsInv'
    <2>1. Asking(u) /\ s4' = [s4 EXCEPT ![u] = [op |-> "none"]] /\ s1' = s1 /\ s2' = s2 /\ s3' = s3 /\ s5' = s5
        BY <1>1 DEF Acc!Abort, Acc!Idle, Acc!Finish, Asking
    <2> QED
        BY <2>1, AccountsEnd DEF AccountsInv, AccountsSerial
<1>2. CASE UNCHANGED records
    BY <1>2 DEF records, AccountsInv, AccountsSerial, Asking
<1> QED
    BY <1>1, <1>2, AccountsAsk, AccountsCreate, AccountsUpdate, AccountsPromote, AccountsCreateRole, AccountsDeleteRole
       DEF Acc!Next

LEMMA AccountsAreRight == AccountsInv => Acc!TypeOK /\ Acc!AccountsAreSound
<1> SUFFICES ASSUME AccountsInv PROVE Acc!TypeOK /\ Acc!AccountsAreSound
    OBVIOUS
<1>1. Acc!TypeOK
    BY AccountsTypes DEF Acc!TypeOK
<1>2. Acc!NobodyReturns
    BY DEF AccountsInv, EmailsApart, Acc!NobodyReturns
<1>3. Acc!RolesStay
    <2> SUFFICES ASSUME NEW i \in DOMAIN s1
                 PROVE  /\ s1[i].role = s1[i].given \/ (s1[i].role = 0 /\ ~Acc!Refers(s1[i].given))
                        /\ (~s5 /\ ~s1[i].deleted) => s1[i].role = s1[i].given
        BY DEF Acc!RolesStay
    <2> QED
        BY DEF AccountsInv, AccountRight, AccountsSerial, Held, RefersIn, Acc!Refers
<1> QED
    BY <1>1, <1>2, <1>3 DEF Acc!AccountsAreSound

(***************************************************************************)
(* Employees: their rows s1, the links s2, the requests s3, the CPFs of the *)
(* files read s4, what the ERP pushed last s5, whether two requests have    *)
(* overlapped s6, the CPFs that edits and pushes took from employees s7.    *)
(***************************************************************************)
Taken(p, list) == \E i \in DOMAIN list : list[i].cpf = p

\* A CPF of a file is an employee's, or was until it was taken away.
Known(p, list, gone) == Taken(p, list) \/ p \in gone

EmployeesTypes(list, links, read, owes, mixes, gone) ==
    /\ list \in Seq(Emp!Employee) /\ Len(list) <= MaxEmployee
    /\ links \in [Staff -> 0..Len(list)]
    /\ read \subseteq Emp!Listed /\ gone \subseteq Emp!Listed
    /\ owes \in [Staff -> {0} \cup Emp!Field] /\ mixes \in BOOLEAN

\* The rows that were there are there, and no CPF of a file is forgotten.
Grown(list, longer, gone, more) ==
    /\ DOMAIN list \subseteq DOMAIN longer
    /\ \A p \in Emp!Listed : Known(p, list, gone) => Known(p, longer, more)

\* A request, and the employees there are by now: of a file, the rows up to the
\* next have been read.
StaffAskOf(q, list, gone) ==
    /\ q.op = "import" =>
        /\ q.file \in Files /\ "at" \in DOMAIN q /\ q.at \in Nat /\ 1 <= q.at
        /\ \A k \in DOMAIN q.file : k < q.at /\ q.file[k] # 0 => Known(q.file[k], list, gone)
    /\ q.op = "update" => q.id \in DOMAIN list /\ q.change \in Emp!Change
    /\ q.op = "push" =>
        /\ q.people \in Pushes /\ q.field \in Emp!Field /\ q.added \subseteq q.people
        /\ \A p \in q.added : q.cpf[p] \in {0} \cup Cpf
        /\ DOMAIN q.changes \subseteq DOMAIN list /\ \A i \in DOMAIN q.changes : q.changes[i] \in Emp!Change

\* What a push loaded of those who are linked.
LoadedRight(q, list, links) ==
    /\ \A i \in DOMAIN q.changes : Emp!Written(list[i], q.changes[i]).field = q.field
    /\ \A p \in q.people \ q.added : links[p] # 0 /\ links[p] \in DOMAIN q.changes

Mirrored(list, links, owes) ==
    \A p \in Staff : owes[p] # 0 => links[p] # 0 /\ list[links[p]].field = owes[p]

StaffAsks(u) == s3[u].op # "none"

EmployeesSerial ==
    ~s6 =>
        /\ Mirrored(s1, s2, s5)
        /\ \A u, v \in Request : StaffAsks(u) /\ StaffAsks(v) => u = v
        /\ \A u \in Request : s3[u].op = "push" => LoadedRight(s3[u], s1, s2)

EmployeesInv ==
    /\ EmployeesTypes(s1, s2, s4, s5, s6, s7) /\ DOMAIN s3 = Request
    /\ \A p \in s4 : Known(p, s1, s7)
    /\ \A u \in Request : StaffAskOf(s3[u], s1, s7)
    /\ EmployeesSerial

LEMMA CpfsAreNumbers ==
    /\ \A p \in Cpf : p \in Nat /\ p # 0
    /\ \A people \in Pushes : people \subseteq Staff /\ IsFiniteSet(people)
    /\ \A file \in Files : file \in Seq({0} \cup Cpf)
    /\ MaxEmployee \in Nat
    BY NamesAssumption, DataAssumption, CapsAssumption DEF NamesAssumption, DataAssumption, CapsAssumption

LEMMA ListedIs ==
    ASSUME NEW file \in Files, NEW k \in DOMAIN file, file[k] # 0
    PROVE  file[k] \in Emp!Listed
<1> DEFINE Named(f) == {f[i] : i \in DOMAIN f}
<1>1. file[k] \in Named(file)
    OBVIOUS
<1>2. file[k] \in UNION {Named(f) : f \in Files}
    BY <1>1
<1> QED
    BY <1>2 DEF Emp!Listed

\* A row with a change written into it.
LEMMA WrittenIs ==
    ASSUME NEW row \in Emp!Employee, NEW change \in Emp!Change
    PROVE  /\ Emp!Written(row, change) \in Emp!Employee
           /\ Emp!Written(row, change).field = IF change.field = -1 THEN row.field ELSE change.field
<1> DEFINE c == IF change.cpf = -1 THEN row.cpf ELSE change.cpf
           f == IF change.field = -1 THEN row.field ELSE change.field
<1>1. Emp!Written(row, change) = [row EXCEPT !.cpf = c, !.field = f]
    BY DEF Emp!Written, Emp!Kept
<1>2. /\ change.cpf \in {-1, 0} \cup Cpf /\ change.field \in {-1} \cup Emp!Field
      /\ row.cpf \in {0} \cup Cpf /\ row.field \in Emp!Field /\ row.deleted \in BOOLEAN
    BY DEF Emp!Change, Emp!Employee, Emp!Kept, Emp!NoCpf
<1>3. c \in {0} \cup Cpf /\ f \in Emp!Field
    BY <1>2
<1> HIDE DEF c, f
<1>4. /\ [row EXCEPT !.cpf = c, !.field = f] \in Emp!Employee
      /\ [row EXCEPT !.cpf = c, !.field = f].field = f
    BY <1>2, <1>3 DEF Emp!Employee, Emp!NoCpf
<1> QED
    BY <1>1, <1>4 DEF f

\* The change loaded for a row makes it have the field asked for.
LEMMA ChangedIs ==
    ASSUME NEW row \in Emp!Employee, NEW cpf \in {0} \cup Cpf, NEW field \in Emp!Field
    PROVE  /\ Emp!Changed(row, cpf, field) \in Emp!Change
           /\ Emp!Written(row, Emp!Changed(row, cpf, field)).field = field
<1>1. Emp!Changed(row, cpf, field) \in Emp!Change
    BY DEF Emp!Changed, Emp!Change, Emp!Kept, Emp!NoCpf
<1>2. Emp!Changed(row, cpf, field).field = IF field = row.field THEN -1 ELSE field
    BY DEF Emp!Changed, Emp!Kept
<1>3. field # -1
    BY DEF Emp!Field
<1> QED
    BY <1>1, <1>2, <1>3, WrittenIs

LEMMA EmployeesInit == Emp!Init => EmployeesInv
<1> SUFFICES ASSUME Emp!Init PROVE EmployeesInv
    OBVIOUS
<1>1. /\ s1 = <<>> /\ s2 = [p \in Staff |-> 0] /\ s3 = [u \in Request |-> NoRecordRequest]
      /\ s4 = {} /\ s5 = [p \in Staff |-> 0] /\ s6 = FALSE /\ s7 = {}
    BY DEF Emp!Init, NoRecordRequest
<1>2. (\A u \in Request : s3[u] = NoRecordRequest) /\ DOMAIN s3 = Request
    BY <1>1
<1>3. s1 \in Seq(Emp!Employee) /\ Len(s1) = 0
    BY <1>1
<1>4. EmployeesTypes(s1, s2, s4, s5, s6, s7)
    <2>1. s2 \in [Staff -> 0..Len(s1)] /\ Len(s1) <= MaxEmployee
        BY <1>1, <1>3, CpfsAreNumbers
    <2>2. s5 \in [Staff -> {0} \cup Emp!Field] /\ s4 \subseteq Emp!Listed /\ s7 \subseteq Emp!Listed /\ s6 \in BOOLEAN
        BY <1>1
    <2> QED
        BY <1>3, <2>1, <2>2 DEF EmployeesTypes
<1>5. Mirrored(s1, s2, s5)
    BY <1>1 DEF Mirrored
<1> QED
    BY <1>1, <1>2, <1>4, <1>5, NoRecordRequestIs DEF EmployeesInv, EmployeesSerial, StaffAskOf, StaffAsks

LEMMA StaffTypes ==
    ASSUME EmployeesInv
    PROVE  /\ s1 \in Seq(Emp!Employee) /\ Len(s1) \in Nat /\ Len(s1) <= MaxEmployee /\ DOMAIN s1 = 1..Len(s1)
           /\ \A i \in DOMAIN s1 : /\ s1[i] \in Emp!Employee /\ s1[i].cpf \in {0} \cup Cpf
                                   /\ s1[i].field \in Emp!Field /\ s1[i].deleted \in BOOLEAN
           /\ s2 \in [Staff -> 0..Len(s1)] /\ \A p \in Staff : s2[p] = 0 \/ s2[p] \in DOMAIN s1
           /\ s4 \subseteq Emp!Listed /\ s7 \subseteq Emp!Listed /\ s5 \in [Staff -> {0} \cup Emp!Field] /\ s6 \in BOOLEAN /\ DOMAIN s3 = Request
<1>1. s1 \in Seq(Emp!Employee) /\ Len(s1) <= MaxEmployee /\ s2 \in [Staff -> 0..Len(s1)] /\ DOMAIN s3 = Request
      /\ s4 \subseteq Emp!Listed /\ s7 \subseteq Emp!Listed /\ s5 \in [Staff -> {0} \cup Emp!Field] /\ s6 \in BOOLEAN
    BY DEF EmployeesInv, EmployeesTypes
<1>2. Len(s1) \in Nat /\ DOMAIN s1 = 1..Len(s1) /\ \A i \in DOMAIN s1 : s1[i] \in Emp!Employee
    BY <1>1
<1>3. \A i \in DOMAIN s1 : s1[i].cpf \in {0} \cup Cpf /\ s1[i].field \in Emp!Field /\ s1[i].deleted \in BOOLEAN
    BY <1>2 DEF Emp!Employee, Emp!NoCpf
<1>4. \A p \in Staff : s2[p] = 0 \/ s2[p] \in DOMAIN s1
    BY <1>1, <1>2
<1> QED
    BY <1>1, <1>2, <1>3, <1>4

\* What stays right when no CPF is forgotten.
LEMMA StaffKept ==
    ASSUME EmployeesInv, NEW list, NEW gone, Grown(s1, list, s7, gone)
    PROVE  /\ \A p \in s4 : Known(p, list, gone)
           /\ \A u \in Request : StaffAskOf(s3[u], list, gone)
<1>1. \A p \in Emp!Listed : Known(p, s1, s7) => Known(p, list, gone)
    BY DEF Grown
<1>2. \A p \in s4 : Known(p, list, gone)
    BY <1>1, StaffTypes DEF EmployeesInv
<1>3. ASSUME NEW u \in Request PROVE StaffAskOf(s3[u], list, gone)
    <2>1. StaffAskOf(s3[u], s1, s7)
        BY DEF EmployeesInv
    <2>2. s3[u].op = "import" => \A k \in DOMAIN s3[u].file :
                k < s3[u].at /\ s3[u].file[k] # 0 => Known(s3[u].file[k], list, gone)
        BY <1>1, <2>1, ListedIs DEF StaffAskOf
    <2>3. s3[u].op = "update" => s3[u].id \in DOMAIN list
        BY <2>1 DEF StaffAskOf, Grown
    <2>4. s3[u].op = "push" => DOMAIN s3[u].changes \subseteq DOMAIN list
        BY <2>1 DEF StaffAskOf, Grown
    <2> QED
        BY <2>1, <2>2, <2>3, <2>4 DEF StaffAskOf
<1> QED
    BY <1>2, <1>3

LEMMA EmployeesBegin ==
    ASSUME EmployeesInv, NEW u \in Request, NEW r, r.op # "none", Emp!Begin(u, r), StaffAskOf(r, s1, s7),
           r.op = "push" => LoadedRight(r, s1, s2)
    PROVE  EmployeesInv'
<1>1. /\ s3' = [s3 EXCEPT ![u] = r] /\ s6' = (s6 \/ \E v \in Request : StaffAsks(v))
      /\ s1' = s1 /\ s2' = s2 /\ s4' = s4 /\ s5' = s5 /\ s7' = s7
    BY DEF Emp!Begin, Emp!Overlap, Emp!Idle, StaffAsks
<1>2. DOMAIN s3' = Request /\ s3'[u] = r /\ \A v \in Request : v # u => s3'[v] = s3[v]
    BY <1>1, RequestPut, StaffTypes
<1>3. s6' \in BOOLEAN /\ (~s6' => ~s6 /\ \A v \in Request : ~StaffAsks(v))
    BY <1>1, StaffTypes
<1>4. \A v \in Request : StaffAskOf(s3'[v], s1', s7')
    BY <1>1, <1>2 DEF EmployeesInv
<1>5. EmployeesSerial'
    <2> SUFFICES ASSUME ~s6'
                 PROVE  /\ Mirrored(s1', s2', s5')
                        /\ \A v, w \in Request : s3'[v].op # "none" /\ s3'[w].op # "none" => v = w
                        /\ \A v \in Request : s3'[v].op = "push" => LoadedRight(s3'[v], s1', s2')
        BY DEF EmployeesSerial, StaffAsks
    <2>1. \A v \in Request : s3'[v].op # "none" => v = u
        BY <1>2, <1>3 DEF StaffAsks
    <2>2. \A v \in Request : s3'[v].op = "push" => LoadedRight(s3'[v], s1', s2')
        BY <1>1, <1>2, <2>1
    <2>3. Mirrored(s1', s2', s5')
        BY <1>1, <1>3 DEF EmployeesInv, EmployeesSerial
    <2> QED
        BY <2>1, <2>2, <2>3
<1>6. EmployeesTypes(s1', s2', s4', s5', s6', s7')
    BY <1>1, <1>3 DEF EmployeesInv, EmployeesTypes
<1> QED
    BY <1>1, <1>2, <1>4, <1>5, <1>6 DEF EmployeesInv

\* What stays right when a request ends.
LEMMA EmployeesEnd ==
    ASSUME EmployeesInv, NEW u \in Request, StaffAsks(u), s3' = [s3 EXCEPT ![u] = [op |-> "none"]], s6' = s6,
           Grown(s1, s1', s7, s7'), EmployeesTypes(s1', s2', s4', s5', s6, s7'), \A p \in s4' : Known(p, s1', s7'),
           ~s6 => Mirrored(s1', s2', s5')
    PROVE  EmployeesInv'
<1>1. DOMAIN s3' = Request /\ s3'[u] = NoRecordRequest /\ \A v \in Request : v # u => s3'[v] = s3[v]
    BY RequestPut, StaffTypes DEF NoRecordRequest
<1>2. \A v \in Request : StaffAskOf(s3'[v], s1', s7')
    <2>1. StaffAskOf(NoRecordRequest, s1', s7')
        BY NoRecordRequestIs DEF StaffAskOf
    <2>2. \A v \in Request : StaffAskOf(s3[v], s1', s7')
        BY StaffKept
    <2> QED
        BY <1>1, <2>1, <2>2
<1>3. EmployeesSerial'
    <2> SUFFICES ASSUME ~s6 PROVE \A v \in Request : s3'[v].op = "none"
        BY DEF EmployeesSerial, StaffAsks
    <2> QED
        BY <1>1, NoRecordRequestIs DEF EmployeesInv, EmployeesSerial, StaffAsks
<1> QED
    BY <1>1, <1>2, <1>3 DEF EmployeesInv

\* What stays right when something is done at once.
LEMMA EmployeesAtOnce ==
    ASSUME EmployeesInv, s3' = s3, s6' = (s6 \/ \E v \in Request : StaffAsks(v)), s4' = s4, s7' = s7,
           Grown(s1, s1', s7, s7'), s1' \in Seq(Emp!Employee), Len(s1') <= MaxEmployee,
           s2' \in [Staff -> 0..Len(s1')], s5' \in [Staff -> {0} \cup Emp!Field],
           ~s6 => Mirrored(s1', s2', s5')
    PROVE  EmployeesInv'
<1>1. s6' \in BOOLEAN /\ (~s6' => ~s6 /\ \A v \in Request : ~StaffAsks(v))
    BY StaffTypes
<1>2. EmployeesTypes(s1', s2', s4', s5', s6', s7')
    BY <1>1, StaffTypes DEF EmployeesTypes
<1>3. (\A p \in s4' : Known(p, s1', s7')) /\ \A v \in Request : StaffAskOf(s3'[v], s1', s7')
    BY StaffKept
<1>4. EmployeesSerial'
    BY <1>1 DEF EmployeesSerial, StaffAsks
<1> QED
    BY <1>2, <1>3, <1>4, StaffTypes DEF EmployeesInv

LEMMA EmployeesAbort == ASSUME EmployeesInv, NEW u \in Request, Emp!Abort(u) PROVE EmployeesInv'
<1>1. /\ StaffAsks(u) /\ s3' = [s3 EXCEPT ![u] = [op |-> "none"]]
      /\ s1' = s1 /\ s2' = s2 /\ s4' = s4 /\ s5' = s5 /\ s6' = s6 /\ s7' = s7
    BY DEF Emp!Abort, Emp!Finish, Emp!Idle, StaffAsks
<1>2. Grown(s1, s1', s7, s7') /\ EmployeesTypes(s1', s2', s4', s5', s6, s7')
    BY <1>1 DEF EmployeesInv, Grown
<1>3. (\A p \in s4' : Known(p, s1', s7')) /\ (~s6 => Mirrored(s1', s2', s5'))
    BY <1>1 DEF EmployeesInv, EmployeesSerial
<1> QED
    BY <1>1, <1>2, <1>3, EmployeesEnd

\* One employee more: the links are to the others.
LEMMA EmployeeAdded ==
    ASSUME EmployeesInv, NEW p \in Cpf, Len(s1) < MaxEmployee, NEW list, list = Append(s1, Emp!New(p, 1))
    PROVE  /\ list \in Seq(Emp!Employee) /\ Len(list) <= MaxEmployee /\ s2 \in [Staff -> 0..Len(list)]
           /\ Taken(p, list) /\ \A gone : s7 \ {p} \subseteq gone => Grown(s1, list, s7, gone)
           /\ ~s6 => Mirrored(list, s2, s5)
<1> DEFINE e == Emp!New(p, 1)
<1>1. e \in Emp!Employee /\ e.cpf = p
    BY DEF Emp!New, Emp!Employee, Emp!Field, Emp!NoCpf
<1> HIDE DEF e
<1>2. /\ list \in Seq(Emp!Employee) /\ Len(list) = Len(s1) + 1 /\ DOMAIN list = 1..(Len(s1) + 1)
      /\ (\A i \in 1..Len(s1) : list[i] = s1[i]) /\ list[Len(s1) + 1] = e
    <2>1. list = Append(s1, e)
        BY DEF e
    <2> QED
        BY <1>1, <2>1, StaffTypes, AppendTo
<1>3. Len(list) <= MaxEmployee /\ s2 \in [Staff -> 0..Len(list)] /\ DOMAIN s1 \subseteq DOMAIN list
      /\ Len(s1) + 1 \in DOMAIN list
    BY <1>2, StaffTypes, CpfsAreNumbers
<1>4. Taken(p, list)
    BY <1>1, <1>2, <1>3 DEF Taken
<1>6. ASSUME NEW gone, s7 \ {p} \subseteq gone PROVE Grown(s1, list, s7, gone)
    <2>1. \A x : Taken(x, s1) => Taken(x, list)
        BY <1>2, <1>3, StaffTypes DEF Taken
    <2> QED
        BY <1>3, <1>4, <1>6, <2>1 DEF Grown, Known
<1>5. ~s6 => Mirrored(list, s2, s5)
    BY <1>2, StaffTypes DEF EmployeesInv, EmployeesSerial, Mirrored
<1> QED
    BY <1>2, <1>3, <1>4, <1>5, <1>6

LEMMA EmployeesCreate == ASSUME EmployeesInv, NEW u \in Request, Emp!Create(u) PROVE EmployeesInv'
<1>1. PICK p \in Cpf : s1' = Append(s1, Emp!New(p, 1))
    BY DEF Emp!Create
<1>2. /\ Len(s1) < MaxEmployee /\ s3' = s3 /\ s6' = (s6 \/ \E v \in Request : StaffAsks(v))
      /\ s2' = s2 /\ s4' = s4 /\ s5' = s5 /\ s7' = s7
    BY DEF Emp!Create, Emp!Overlap, Emp!Idle, StaffAsks
<1>3. s5 \in [Staff -> {0} \cup Emp!Field]
    BY StaffTypes
<1>4. Grown(s1, s1', s7, s7')
    BY <1>1, <1>2, EmployeeAdded
<1> QED
    BY <1>1, <1>2, <1>3, <1>4, EmployeeAdded, EmployeesAtOnce

LEMMA EmployeesImportRow == ASSUME EmployeesInv, NEW u \in Request, Emp!ImportRow(u) PROVE EmployeesInv'
<1> DEFINE p == s3[u].file[s3[u].at]
           q == [s3[u] EXCEPT !.at = s3[u].at + 1]
<1>1. /\ s3[u].op = "import" /\ s3[u].at <= Len(s3[u].file) /\ Emp!ReadRow(p)
      /\ s3' = [s3 EXCEPT ![u].at = s3[u].at + 1] /\ s7' = s7 \ {p}
      /\ s2' = s2 /\ s4' = s4 /\ s5' = s5 /\ s6' = s6
    BY DEF Emp!ImportRow, Emp!After
<1>2. /\ s3[u].file \in Files /\ s3[u].file \in Seq({0} \cup Cpf)
      /\ "at" \in DOMAIN s3[u] /\ s3[u].at \in Nat
      /\ \A k \in DOMAIN s3[u].file : k < s3[u].at /\ s3[u].file[k] # 0 => Known(s3[u].file[k], s1, s7)
    BY <1>1, CpfsAreNumbers DEF EmployeesInv, StaffAskOf
<1>3. s3' = [s3 EXCEPT ![u] = q]
    BY <1>1, StaffTypes
<1>4. q.op = "import" /\ q.file = s3[u].file /\ "at" \in DOMAIN q /\ q.at = s3[u].at + 1
    BY <1>1, <1>2
<1>5. \/ p # 0 /\ p \in Cpf /\ Len(s1) < MaxEmployee /\ s1' = Append(s1, Emp!New(p, 1))
      \/ s1' = s1 /\ (p # 0 => Taken(p, s1))
    <2>1. \/ p # 0 /\ Len(s1) < MaxEmployee /\ s1' = Append(s1, Emp!New(p, 1))
          \/ s1' = s1 /\ (p # 0 => Taken(p, s1))
        BY <1>1 DEF Emp!ReadRow, Emp!Unused, Taken
    <2>2. p \in {0} \cup Cpf
        <3>1. s3[u].at \in DOMAIN s3[u].file \/ s3[u].at = 0
            BY <1>1, <1>2
        <3>2. 1 <= s3[u].at
            BY <1>1 DEF EmployeesInv, StaffAskOf
        <3> QED
            BY <1>2, <3>1, <3>2
    <2>3. p # 0 => p \in Cpf
        BY <2>2
    <2> HIDE DEF p, q
    <2> QED
        BY <2>1, <2>3
<1> HIDE DEF p, q
<1>6. /\ s1' \in Seq(Emp!Employee) /\ Len(s1') <= MaxEmployee /\ s2 \in [Staff -> 0..Len(s1')]
      /\ Grown(s1, s1', s7, s7') /\ (p # 0 => Taken(p, s1')) /\ s7' \subseteq Emp!Listed
      /\ ~s6 => Mirrored(s1', s2, s5)
    <2>1. CASE p # 0 /\ p \in Cpf /\ Len(s1) < MaxEmployee /\ s1' = Append(s1, Emp!New(p, 1))
        BY <1>1, <2>1, EmployeeAdded, StaffTypes
    <2>2. CASE s1' = s1 /\ (p # 0 => Taken(p, s1))
        <3>1. 0 \notin Emp!Listed
            BY DEF Emp!Listed
        <3>2. Grown(s1, s1', s7, s7')
            BY <1>1, <2>2, <3>1 DEF Grown, Known
        <3> QED
            BY <1>1, <2>2, <3>2, StaffTypes DEF EmployeesInv, EmployeesSerial
    <2> QED
        BY <1>5, <2>1, <2>2
<1>7. DOMAIN s3' = Request /\ s3'[u] = q /\ \A v \in Request : v # u => s3'[v] = s3[v]
    BY <1>3, RequestPut, StaffTypes
<1>8. (\A x \in s4 : Known(x, s1', s7')) /\ \A v \in Request : StaffAskOf(s3[v], s1', s7')
    BY <1>6, StaffKept
<1>9. StaffAskOf(q, s1', s7')
    <2>1. \A k \in DOMAIN q.file : k < s3[u].at /\ q.file[k] # 0 => Known(q.file[k], s1', s7')
        BY <1>1, <1>4, <1>8 DEF StaffAskOf
    <2>2. \A k \in DOMAIN q.file : k < q.at => k < s3[u].at \/ k = s3[u].at
        BY <1>2, <1>4
    <2>3. q.file[s3[u].at] # 0 => Known(q.file[s3[u].at], s1', s7')
        BY <1>4, <1>6 DEF p, Known
    <2>4. \A k \in DOMAIN q.file : k < q.at /\ q.file[k] # 0 => Known(q.file[k], s1', s7')
        BY <2>1, <2>2, <2>3
    <2>5. q.at \in Nat /\ 1 <= q.at
        BY <1>2, <1>4
    <2> QED
        BY <1>2, <1>4, <2>4, <2>5 DEF StaffAskOf
<1>10. EmployeesTypes(s1', s2', s4', s5', s6', s7')
    BY <1>1, <1>6, StaffTypes DEF EmployeesTypes
<1>11. EmployeesSerial'
    <2> SUFFICES ASSUME ~s6
                 PROVE  /\ \A v, w \in Request : s3'[v].op # "none" /\ s3'[w].op # "none" => v = w
                        /\ \A v \in Request : s3'[v].op # "push"
        BY <1>1, <1>6 DEF EmployeesSerial, StaffAsks
    <2>1. \A v \in Request : v # u => s3[v].op = "none"
        BY <1>1 DEF EmployeesInv, EmployeesSerial, StaffAsks
    <2> QED
        BY <1>4, <1>7, <2>1
<1> QED
    BY <1>1, <1>7, <1>8, <1>9, <1>10, <1>11 DEF EmployeesInv

LEMMA EmployeesImportEnd == ASSUME EmployeesInv, NEW u \in Request, Emp!ImportEnd(u) PROVE EmployeesInv'
<1> DEFINE file == s3[u].file
           read == {file[k] : k \in DOMAIN file} \ {0}
<1>1. /\ s3[u].op = "import" /\ s3[u].at > Len(file) /\ s4' = s4 \cup read
      /\ s3' = [s3 EXCEPT ![u] = [op |-> "none"]]
      /\ s1' = s1 /\ s2' = s2 /\ s5' = s5 /\ s6' = s6 /\ s7' = s7
    BY DEF Emp!ImportEnd, Emp!Finish
<1>2. /\ file \in Files /\ file \in Seq({0} \cup Cpf) /\ s3[u].at \in Nat
      /\ \A k \in DOMAIN file : k < s3[u].at /\ file[k] # 0 => Known(file[k], s1, s7)
    BY <1>1, CpfsAreNumbers DEF EmployeesInv, StaffAskOf
<1> HIDE DEF file
<1>3. DOMAIN file = 1..Len(file) /\ Len(file) \in Nat /\ \A k \in DOMAIN file : file[k] \in {0} \cup Cpf
    BY <1>2
<1>4. \A k \in DOMAIN file : k < s3[u].at
    BY <1>1, <1>2, <1>3
<1>5. read \subseteq Emp!Listed /\ \A p \in read : Known(p, s1, s7)
    BY <1>2, <1>3, <1>4, ListedIs
<1> HIDE DEF read
<1>6. s4' \subseteq Emp!Listed /\ \A p \in s4' : Known(p, s1', s7')
    BY <1>1, <1>5, StaffTypes DEF EmployeesInv
<1>7. Grown(s1, s1', s7, s7') /\ EmployeesTypes(s1', s2', s4', s5', s6, s7')
    BY <1>1, <1>6 DEF EmployeesInv, Grown, EmployeesTypes
<1>8. ~s6 => Mirrored(s1', s2', s5')
    BY <1>1 DEF EmployeesInv, EmployeesSerial
<1> QED
    BY <1>1, <1>6, <1>7, <1>8, EmployeesEnd DEF StaffAsks

\* Rows that change: what a CPF of a file is taken away from is remembered.
LEMMA Rewritten ==
    ASSUME EmployeesInv, NEW rows \in Seq(Emp!Employee), Len(s1) <= Len(rows), Emp!Rewrite(rows)
    PROVE  /\ s1' = rows /\ DOMAIN s1 \subseteq DOMAIN s1' /\ s7' \subseteq Emp!Listed
           /\ Grown(s1, s1', s7, s7') /\ \A p \in s4 : Known(p, s1', s7')
<1> DEFINE moved == Emp!Listed \cap {s1[i].cpf : i \in {j \in DOMAIN s1 : rows[j].cpf # s1[j].cpf}}
<1>1. s1' = rows /\ s7' = s7 \cup moved
    BY DEF Emp!Rewrite
<1>2. DOMAIN s1 \subseteq DOMAIN s1'
    <2>1. DOMAIN rows = 1..Len(rows) /\ Len(rows) \in Nat
        OBVIOUS
    <2> QED
        BY <1>1, <2>1, StaffTypes
<1>3. ASSUME NEW p \in Emp!Listed, Known(p, s1, s7) PROVE Known(p, s1', s7')
    <2>1. CASE p \in s7
        BY <1>1, <2>1 DEF Known
    <2>2. ASSUME NEW i \in DOMAIN s1, s1[i].cpf = p PROVE Known(p, s1', s7')
        <3>1. CASE rows[i].cpf = s1[i].cpf
            BY <1>1, <1>2, <2>2, <3>1 DEF Known, Taken
        <3>2. CASE rows[i].cpf # s1[i].cpf
            BY <1>1, <2>2, <3>2 DEF Known
        <3> QED
            BY <3>1, <3>2
    <2> QED
        BY <1>3, <2>1, <2>2 DEF Known, Taken
<1> HIDE DEF moved
<1>4. Grown(s1, s1', s7, s7')
    BY <1>2, <1>3 DEF Grown
<1>5. s7' \subseteq Emp!Listed
    BY <1>1, StaffTypes DEF moved
<1> QED
    BY <1>1, <1>2, <1>4, <1>5, StaffKept

LEMMA EmployeesUpdate == ASSUME EmployeesInv, NEW u \in Request, Emp!UpdateCommit(u) PROVE EmployeesInv'
<1> DEFINE i == s3[u].id
           x == Emp!Written(s1[i], s3[u].change)
           rows == [s1 EXCEPT ![i] = x]
<1>1. /\ s3[u].op = "update" /\ Emp!Rewrite(rows)
      /\ s5' = [p \in Staff |-> IF s6 \/ s2[p] = i THEN 0 ELSE s5[p]]
      /\ s3' = [s3 EXCEPT ![u] = [op |-> "none"]]
      /\ s2' = s2 /\ s4' = s4 /\ s6' = s6
    BY DEF Emp!UpdateCommit, Emp!Touched, Emp!Finish
<1>2. i \in DOMAIN s1 /\ s3[u].change \in Emp!Change
    BY <1>1 DEF EmployeesInv, StaffAskOf
<1> HIDE DEF i
<1>3. x \in Emp!Employee
    BY <1>2, WrittenIs, StaffTypes
<1> HIDE DEF x
<1>4. /\ rows \in Seq(Emp!Employee) /\ Len(rows) = Len(s1) /\ DOMAIN rows = DOMAIN s1
      /\ \A j \in DOMAIN s1 : j # i => rows[j] = s1[j]
    BY <1>2, <1>3, StaffTypes
<1> HIDE DEF rows
<1>5. /\ s1' = rows /\ Len(s1) <= Len(rows)
      /\ s7' \subseteq Emp!Listed /\ Grown(s1, s1', s7, s7') /\ \A p \in s4 : Known(p, s1', s7')
    BY <1>1, <1>4, StaffTypes, Rewritten
<1>6. s5' \in [Staff -> {0} \cup Emp!Field]
    BY <1>1, StaffTypes
<1>7. EmployeesTypes(s1', s2', s4', s5', s6, s7')
    BY <1>1, <1>4, <1>5, <1>6, StaffTypes DEF EmployeesTypes
<1>8. \A p \in s4' : Known(p, s1', s7')
    BY <1>1, <1>5
<1>9. ~s6 => Mirrored(s1', s2', s5')
    <2> SUFFICES ASSUME ~s6, NEW p \in Staff, s5'[p] # 0 PROVE s2[p] # 0 /\ s1'[s2[p]].field = s5'[p]
        BY <1>1 DEF Mirrored
    <2>1. s2[p] # i /\ s5'[p] = s5[p]
        BY <1>1
    <2>2. s2[p] # 0 /\ s1[s2[p]].field = s5[p]
        BY <2>1 DEF EmployeesInv, EmployeesSerial, Mirrored
    <2> QED
        BY <1>4, <1>5, <2>1, <2>2, StaffTypes
<1> QED
    BY <1>1, <1>5, <1>7, <1>8, <1>9, EmployeesEnd DEF StaffAsks

LEMMA EmployeesDelete == ASSUME EmployeesInv, NEW u \in Request, Emp!Delete(u) PROVE EmployeesInv'
<1>1. PICK i \in Emp!Live : s1' = [s1 EXCEPT ![i].deleted = TRUE]
    BY DEF Emp!Delete
<1>2. /\ s3' = s3 /\ s6' = (s6 \/ \E v \in Request : StaffAsks(v))
      /\ s2' = s2 /\ s4' = s4 /\ s5' = s5 /\ s7' = s7
    BY DEF Emp!Delete, Emp!Overlap, Emp!Idle, StaffAsks
<1>3. i \in DOMAIN s1
    BY DEF Emp!Live
<1> DEFINE e == [s1[i] EXCEPT !.deleted = TRUE]
<1>4. e \in Emp!Employee /\ e.cpf = s1[i].cpf /\ e.field = s1[i].field
    BY <1>3, StaffTypes DEF Emp!Employee
<1>5. s1' = [s1 EXCEPT ![i] = e]
    BY <1>1, <1>3, StaffTypes
<1> HIDE DEF e
<1>6. /\ s1' \in Seq(Emp!Employee) /\ Len(s1') = Len(s1) /\ DOMAIN s1' = DOMAIN s1
      /\ s1'[i] = e /\ \A j \in DOMAIN s1 : j # i => s1'[j] = s1[j]
    BY <1>3, <1>4, <1>5, StaffTypes
<1>9. Grown(s1, s1', s7, s7')
    <2>1. \A p : Taken(p, s1) => Taken(p, s1')
        BY <1>4, <1>6 DEF Taken
    <2> QED
        BY <1>2, <1>6, <2>1 DEF Grown, Known
<1>7. ~s6 => Mirrored(s1', s2', s5')
    BY <1>2, <1>4, <1>6, StaffTypes DEF EmployeesInv, EmployeesSerial, Mirrored
<1>8. Len(s1') <= MaxEmployee /\ s2' \in [Staff -> 0..Len(s1')] /\ s5' \in [Staff -> {0} \cup Emp!Field]
    BY <1>2, <1>6, StaffTypes
<1> QED
    BY <1>2, <1>6, <1>7, <1>8, <1>9, EmployeesAtOnce

LEMMA EmployeesLinks == ASSUME EmployeesInv, NEW u \in Request, Emp!Link(u) \/ Emp!Unlink(u) PROVE EmployeesInv'
<1>1. /\ s3' = s3 /\ s6' = (s6 \/ \E v \in Request : StaffAsks(v)) /\ s1' = s1 /\ s4' = s4 /\ s7' = s7
    BY DEF Emp!Link, Emp!Unlink, Emp!Overlap, Emp!Idle, StaffAsks
<1>2. /\ s2' \in [Staff -> 0..Len(s1)] /\ s5' \in [Staff -> {0} \cup Emp!Field]
      /\ ~s6 => Mirrored(s1, s2', s5')
    <2>1. CASE Emp!Link(u)
        <3>1. PICK p \in Staff, i \in DOMAIN s1 : s2[p] = 0 /\ s2' = [s2 EXCEPT ![p] = i] /\ s5' = s5
            BY <2>1 DEF Emp!Link
        <3>2. i \in 0..Len(s1)
            BY StaffTypes
        <3>3. s2' \in [Staff -> 0..Len(s1)] /\ \A q \in Staff : q # p => s2'[q] = s2[q]
            BY <3>1, <3>2, StaffTypes
        <3>4. ~s6 => s5[p] = 0
            BY <3>1 DEF EmployeesInv, EmployeesSerial, Mirrored
        <3> QED
            BY <3>1, <3>3, <3>4, StaffTypes DEF EmployeesInv, EmployeesSerial, Mirrored
    <2>2. CASE Emp!Unlink(u)
        <3>1. PICK p \in Staff : s2' = [s2 EXCEPT ![p] = 0] /\ s5' = [s5 EXCEPT ![p] = 0]
            BY <2>2 DEF Emp!Unlink
        <3>2. 0 \in 0..Len(s1)
            BY StaffTypes
        <3>3. s2' \in [Staff -> 0..Len(s1)] /\ \A q \in Staff : q # p => s2'[q] = s2[q]
            BY <3>1, <3>2, StaffTypes
        <3>4. s5' \in [Staff -> {0} \cup Emp!Field] /\ s5'[p] = 0 /\ \A q \in Staff : q # p => s5'[q] = s5[q]
            BY <3>1, StaffTypes
        <3> QED
            BY <3>3, <3>4 DEF EmployeesInv, EmployeesSerial, Mirrored
    <2> QED
        BY <2>1, <2>2
<1>3. Grown(s1, s1', s7, s7') /\ s1' \in Seq(Emp!Employee) /\ Len(s1') <= MaxEmployee
    BY <1>1, StaffTypes DEF Grown
<1> QED
    BY <1>1, <1>2, <1>3, EmployeesAtOnce

\* Those to be added have an order, and everybody a place in it.
LEMMA OrderIs ==
    ASSUME NEW people, IsFiniteSet(people)
    PROVE  /\ Emp!Order(people) \in [1..Cardinality(people) -> people] /\ Cardinality(people) \in Nat
           /\ \A p \in people : \E k \in 1..Cardinality(people) : Emp!Order(people)[k] = p
<1>1. Cardinality(people) \in Nat /\ ExistsBijection(1..Cardinality(people), people)
    BY FS_CardinalityType
<1>2. Emp!Cardinality(people) = Cardinality(people)
    BY DEF Cardinality, Emp!Cardinality
<1>3. PICK order \in [1..Cardinality(people) -> people] : \A p \in people : \E k \in 1..Cardinality(people) : order[k] = p
    BY <1>1 DEF ExistsBijection, Bijection, Surjection
<1>4. \E o \in [1..Emp!Cardinality(people) -> people] : \A p \in people : \E k \in DOMAIN o : o[k] = p
    BY <1>2, <1>3
<1>5. /\ Emp!Order(people) \in [1..Emp!Cardinality(people) -> people]
      /\ \A p \in people : \E k \in DOMAIN Emp!Order(people) : Emp!Order(people)[k] = p
    BY <1>4 DEF Emp!Order
<1> QED
    BY <1>1, <1>2, <1>5

LEMMA EmployeesPush == ASSUME EmployeesInv, NEW u \in Request, Emp!PushCommit(u) PROVE EmployeesInv'
<1> DEFINE r == s3[u]
           added == s3[u].added
           new == Emp!Order(added)
           n == Cardinality(added)
           kept == Emp!PushedRows(u)
           tail == [k \in DOMAIN new |-> Emp!New(r.cpf[new[k]], r.field)]
           Rank(p) == CHOOSE k \in DOMAIN new : new[k] = p
<1>1. /\ r.op = "push" /\ Len(s1) + Len(new) <= MaxEmployee /\ Emp!Rewrite(kept \o tail)
      /\ s2' = [p \in Staff |-> IF p \in added THEN Len(s1) + Rank(p) ELSE s2[p]]
      /\ s5' = [p \in Staff |-> IF s6 THEN 0
                               ELSE IF p \in r.people THEN r.field
                               ELSE IF s2[p] \in DOMAIN r.changes THEN 0 ELSE s5[p]]
      /\ s3' = [s3 EXCEPT ![u] = [op |-> "none"]] /\ s4' = s4 /\ s6' = s6
    BY DEF Emp!PushCommit, Emp!Finish
<1>2. r.people \in Pushes /\ r.field \in Emp!Field /\ added \subseteq r.people /\ r.people \subseteq Staff
      /\ (\A p \in added : r.cpf[p] \in {0} \cup Cpf)
      /\ DOMAIN r.changes \subseteq DOMAIN s1 /\ \A i \in DOMAIN r.changes : r.changes[i] \in Emp!Change
    BY <1>1, CpfsAreNumbers DEF EmployeesInv, StaffAskOf
<1>3. new \in [1..n -> added] /\ n \in Nat /\ \A p \in added : \E k \in 1..n : new[k] = p
    <2>1. IsFiniteSet(added)
        BY <1>2, CpfsAreNumbers, FS_Subset
    <2> QED
        BY <2>1, OrderIs
<1> HIDE DEF n
<1>4. /\ DOMAIN new = 1..n /\ Len(new) = n
      /\ \A p \in added : Rank(p) \in 1..n /\ new[Rank(p)] = p
    <2>1. DOMAIN new = 1..n
        BY <1>3
    <2>2. new \in Seq(added)
        BY <1>3
    <2>3. Len(new) = n
        BY <1>3, <2>1, <2>2
    <2> QED
        BY <1>3, <2>1, <2>3
<1> HIDE DEF new, Rank
<1>5. /\ kept \in Seq(Emp!Employee) /\ Len(kept) = Len(s1) /\ DOMAIN s1 = 1..Len(s1)
      /\ \A i \in DOMAIN s1 :
            kept[i] = IF i \in DOMAIN r.changes THEN Emp!Written(s1[i], r.changes[i]) ELSE s1[i]
    <2>1. /\ DOMAIN kept = DOMAIN s1 /\ kept = [i \in DOMAIN s1 |-> kept[i]]
          /\ \A i \in DOMAIN s1 :
                kept[i] = IF i \in DOMAIN r.changes THEN Emp!Written(s1[i], r.changes[i]) ELSE s1[i]
        BY DEF Emp!PushedRows
    <2> HIDE DEF kept
    <2>2. ASSUME NEW i \in DOMAIN s1 PROVE kept[i] \in Emp!Employee
        BY <1>2, <2>1, WrittenIs, StaffTypes
    <2> QED
        BY <2>1, <2>2, SameLength, StaffTypes
<1> HIDE DEF kept
<1>6. /\ tail \in Seq(Emp!Employee) /\ Len(tail) = n
      /\ \A k \in 1..n : tail[k].field = r.field
    <2>1. \A k \in 1..n : r.cpf[new[k]] \in {0} \cup Cpf
        BY <1>2, <1>3
    <2>2. DOMAIN tail = 1..n /\ \A k \in 1..n : tail[k] = Emp!New(r.cpf[new[k]], r.field)
        BY <1>4
    <2>3. \A k \in 1..n : tail[k] \in Emp!Employee /\ tail[k].field = r.field
        BY <1>2, <2>1, <2>2 DEF Emp!New, Emp!Employee, Emp!NoCpf
    <2>4. tail \in [1..n -> Emp!Employee]
        <3>1. tail = [k \in 1..n |-> tail[k]]
            BY <1>4
        <3> HIDE DEF tail
        <3> QED
            BY <2>3, <3>1
    <2> HIDE DEF tail
    <2>5. tail \in Seq(Emp!Employee)
        BY <1>3, <2>4
    <2>6. Len(tail) = n
        BY <1>3, <2>2, <2>5
    <2> QED
        BY <2>3, <2>5, <2>6
<1> HIDE DEF tail
<1>7. /\ s1' \in Seq(Emp!Employee) /\ Len(s1') = Len(s1) + n
      /\ (\A i \in DOMAIN s1 : s1'[i] = kept[i]) /\ \A k \in 1..n : s1'[Len(s1) + k] = tail[k]
    <2>1. s1' = kept \o tail
        BY <1>1 DEF Emp!Rewrite
    <2>0. kept \in Seq(Emp!Employee) /\ tail \in Seq(Emp!Employee)
        BY <1>5, <1>6
    <2>2. /\ kept \o tail \in Seq(Emp!Employee) /\ Len(kept \o tail) = Len(kept) + Len(tail)
          /\ \A i \in 1..Len(kept) : (kept \o tail)[i] = kept[i]
          /\ \A k \in 1..Len(tail) : (kept \o tail)[Len(kept) + k] = tail[k]
        BY <2>0, Joined
    <2>3. \A i \in DOMAIN s1 : s1'[i] = kept[i]
        BY <1>5, <2>1, <2>2
    <2>4. \A k \in 1..n : s1'[Len(s1) + k] = tail[k]
        BY <1>5, <1>6, <2>1, <2>2
    <2> QED
        BY <1>5, <1>6, <2>1, <2>2, <2>3, <2>4
<1>8. /\ Len(s1') <= MaxEmployee /\ s2' \in [Staff -> 0..Len(s1')] /\ s5' \in [Staff -> {0} \cup Emp!Field]
      /\ DOMAIN s1 \subseteq DOMAIN s1'
    <2>1. Len(s1') <= MaxEmployee /\ Len(s1') \in Nat /\ DOMAIN s1' = 1..Len(s1')
        BY <1>1, <1>3, <1>4, <1>7, StaffTypes
    <2>2. ASSUME NEW p \in Staff PROVE (IF p \in added THEN Len(s1) + Rank(p) ELSE s2[p]) \in 0..Len(s1')
        BY <1>3, <1>4, <1>7, <2>1, StaffTypes
    <2>3. s2' \in [Staff -> 0..Len(s1')]
        BY <1>1, <2>2
    <2>4. s5' \in [Staff -> {0} \cup Emp!Field]
        BY <1>1, <1>2, StaffTypes
    <2>5. DOMAIN s1 \subseteq DOMAIN s1'
        BY <1>3, <1>7, <2>1, StaffTypes
    <2> QED
        BY <2>1, <2>3, <2>4, <2>5
<1>9. s7' \subseteq Emp!Listed /\ Grown(s1, s1', s7, s7') /\ \A p \in s4 : Known(p, s1', s7')
    <2>1. s1' = kept \o tail
        BY <1>1 DEF Emp!Rewrite
    <2>2. kept \o tail \in Seq(Emp!Employee) /\ Len(s1) <= Len(kept \o tail)
        BY <1>3, <1>7, <2>1, StaffTypes
    <2> QED
        BY <1>1, <2>2, Rewritten
<1>10. EmployeesTypes(s1', s2', s4', s5', s6, s7')
    BY <1>1, <1>7, <1>8, <1>9, StaffTypes DEF EmployeesTypes
<1>11. \A p \in s4' : Known(p, s1', s7')
    BY <1>1, <1>9
<1>12. ~s6 => Mirrored(s1', s2', s5')
    <2> SUFFICES ASSUME ~s6, NEW p \in Staff, s5'[p] # 0 PROVE s2'[p] # 0 /\ s1'[s2'[p]].field = s5'[p]
        BY DEF Mirrored
    <2>1. /\ s2'[p] = IF p \in added THEN Len(s1) + Rank(p) ELSE s2[p]
          /\ s5'[p] = IF p \in r.people THEN r.field ELSE IF s2[p] \in DOMAIN r.changes THEN 0 ELSE s5[p]
        BY <1>1
    <2>2. /\ \A i \in DOMAIN r.changes : Emp!Written(s1[i], r.changes[i]).field = r.field
          /\ \A q \in r.people \ added : s2[q] # 0 /\ s2[q] \in DOMAIN r.changes
        BY <1>1 DEF EmployeesInv, EmployeesSerial, LoadedRight
    <2>3. s5[p] # 0 => s2[p] # 0 /\ s1[s2[p]].field = s5[p]
        BY DEF EmployeesInv, EmployeesSerial, Mirrored
    <2>4. s2[p] # 0 => s2[p] \in DOMAIN s1
        BY StaffTypes
    <2>5. CASE p \in added
        <3>1. s2'[p] = Len(s1) + Rank(p) /\ s5'[p] = r.field /\ Rank(p) \in 1..n
            BY <1>2, <1>4, <2>1, <2>5
        <3>2. s1'[s2'[p]].field = r.field
            BY <1>6, <1>7, <3>1
        <3>3. s2'[p] # 0
            BY <1>3, <3>1, StaffTypes
        <3> QED
            BY <3>1, <3>2, <3>3
    <2>6. CASE p \in r.people \ added
        <3>1. s2'[p] = s2[p] /\ s5'[p] = r.field /\ s2[p] # 0 /\ s2[p] \in DOMAIN r.changes
            BY <2>1, <2>2, <2>6
        <3> QED
            BY <1>5, <1>7, <2>2, <2>4, <3>1
    <2>7. CASE p \notin r.people
        <3>1. p \notin added /\ s2[p] \notin DOMAIN r.changes /\ s5'[p] = s5[p] /\ s2'[p] = s2[p]
            BY <1>2, <2>1, <2>7
        <3> QED
            BY <1>5, <1>7, <2>3, <2>4, <3>1
    <2> QED
        BY <2>5, <2>6, <2>7
<1> QED
    BY <1>1, <1>9, <1>10, <1>11, <1>12, EmployeesEnd DEF StaffAsks

LEMMA EmployeesAsk ==
    ASSUME EmployeesInv, NEW u \in Request, Emp!ImportBegin(u) \/ Emp!UpdateBegin(u) \/ Emp!PushBegin(u)
    PROVE  EmployeesInv'
<1>1. CASE Emp!ImportBegin(u)
    <2>1. PICK file \in Files : Emp!Begin(u, [op |-> "import", file |-> file, at |-> 1])
        BY <1>1 DEF Emp!ImportBegin
    <2> DEFINE r == [op |-> "import", file |-> file, at |-> 1]
    <2>2. r.op = "import" /\ r.file = file /\ "at" \in DOMAIN r /\ r.at = 1 /\ Emp!Begin(u, r)
        BY <2>1
    <2> HIDE DEF r
    <2>3. file \in Files /\ \A k \in DOMAIN file : ~(k < 1)
        <3>1. file \in Seq({0} \cup Cpf)
            BY CpfsAreNumbers
        <3> QED
            BY <3>1
    <2>4. StaffAskOf(r, s1, s7)
        BY <2>2, <2>3 DEF StaffAskOf
    <2> QED
        BY <2>2, <2>4, EmployeesBegin
<1>2. CASE Emp!UpdateBegin(u)
    <2>1. PICK i \in Emp!Live : \E c \in {Emp!NoCpf, s1[i].cpf} \cup Cpf, f \in Emp!Field :
                Emp!Begin(u, [op |-> "update", id |-> i, change |-> Emp!Changed(s1[i], c, f)])
        BY <1>2 DEF Emp!UpdateBegin
    <2>2. PICK c \in {Emp!NoCpf, s1[i].cpf} \cup Cpf, f \in Emp!Field :
                Emp!Begin(u, [op |-> "update", id |-> i, change |-> Emp!Changed(s1[i], c, f)])
        BY <2>1
    <2> DEFINE r == [op |-> "update", id |-> i, change |-> Emp!Changed(s1[i], c, f)]
    <2>3. r.op = "update" /\ r.id = i /\ r.change = Emp!Changed(s1[i], c, f) /\ Emp!Begin(u, r)
        BY <2>2
    <2> HIDE DEF r
    <2>4. i \in DOMAIN s1
        BY DEF Emp!Live
    <2>5. r.change \in Emp!Change
        <3>1. c \in {0} \cup Cpf /\ s1[i] \in Emp!Employee
            BY <2>4, StaffTypes DEF Emp!NoCpf
        <3>2. Emp!Changed(s1[i], c, f) \in Emp!Change
            BY <3>1, ChangedIs
        <3> QED
            BY <2>3, <3>2
    <2>6. StaffAskOf(r, s1, s7)
        BY <2>3, <2>4, <2>5 DEF StaffAskOf
    <2> QED
        BY <2>3, <2>6, EmployeesBegin
<1>3. CASE Emp!PushBegin(u)
    <2> DEFINE Linked(people) == {p \in people : s2[p] # 0}
               Found(people) == {s2[p] : p \in Linked(people)}
               Rec(people, f, cpf, last) ==
                    [op |-> "push", people |-> people, field |-> f,
                     added |-> people \ Linked(people), cpf |-> [p \in people \ Linked(people) |-> cpf[p]],
                     changes |-> [i \in Found(people) |-> Emp!Changed(s1[i], cpf[last[i]], f)]]
    <2>0. PICK people \in Pushes, f \in Emp!Field : \E cpf \in [people -> {0} \cup Cpf] :
                \E last \in [Found(people) -> Linked(people)] :
                    (\A i \in Found(people) : s2[last[i]] = i) /\ Emp!Begin(u, Rec(people, f, cpf, last))
        BY <1>3 DEF Emp!PushBegin, Emp!NoCpf
    <2>1. PICK cpf \in [people -> {0} \cup Cpf] :
                \E last \in [Found(people) -> Linked(people)] : Emp!Begin(u, Rec(people, f, cpf, last))
        BY <2>0
    <2> DEFINE linked == Linked(people)
               found == Found(people)
    <2>2. PICK last \in [found -> linked] : Emp!Begin(u, Rec(people, f, cpf, last))
        BY <2>1
    <2> DEFINE r == Rec(people, f, cpf, last)
    <2>3. /\ r.op = "push" /\ r.field = f /\ r.people = people /\ r.added = people \ linked
          /\ r.cpf = [p \in people \ linked |-> cpf[p]]
          /\ r.changes = [i \in found |-> Emp!Changed(s1[i], cpf[last[i]], f)]
          /\ Emp!Begin(u, r)
        BY <2>2
    <2>4. /\ people \subseteq Staff /\ linked \subseteq people
          /\ (\A p \in linked : s2[p] # 0 /\ s2[p] \in found)
          /\ \A p \in people \ r.added : p \in linked
        BY <2>3, CpfsAreNumbers
    <2>5. found \subseteq DOMAIN s1
        BY <2>4, StaffTypes
    <2> HIDE DEF r, found, linked
    <2>6. ASSUME NEW i \in found
          PROVE  /\ i \in DOMAIN s1 /\ r.changes[i] \in Emp!Change
                 /\ Emp!Written(s1[i], r.changes[i]).field = f
        <3>1. i \in DOMAIN s1 /\ s1[i] \in Emp!Employee /\ cpf[last[i]] \in {0} \cup Cpf
            BY <2>2, <2>4, <2>5, StaffTypes
        <3>2. r.changes[i] = Emp!Changed(s1[i], cpf[last[i]], f)
            BY <2>3
        <3>3. /\ Emp!Changed(s1[i], cpf[last[i]], f) \in Emp!Change
              /\ Emp!Written(s1[i], Emp!Changed(s1[i], cpf[last[i]], f)).field = f
            BY <3>1, ChangedIs
        <3> QED
            BY <3>1, <3>2, <3>3, Zenon
    <2>7. DOMAIN r.changes = found /\ \A p \in r.added : r.cpf[p] \in {0} \cup Cpf
        BY <2>3
    <2>8. StaffAskOf(r, s1, s7)
        BY <2>3, <2>6, <2>7 DEF StaffAskOf
    <2>9. LoadedRight(r, s1, s2)
        BY <2>3, <2>4, <2>6, <2>7 DEF LoadedRight
    <2> QED
        BY <2>3, <2>8, <2>9, EmployeesBegin
<1> QED
    BY <1>1, <1>2, <1>3

LEMMA EmployeesStep == ASSUME EmployeesInv, Emp!Next \/ UNCHANGED records PROVE EmployeesInv'
<1>1. ASSUME NEW u \in Request,
             \/ Emp!Create(u) \/ Emp!ImportBegin(u) \/ Emp!ImportRow(u) \/ Emp!ImportEnd(u)
             \/ Emp!UpdateBegin(u) \/ Emp!UpdateCommit(u) \/ Emp!Delete(u)
             \/ Emp!Link(u) \/ Emp!Unlink(u) \/ Emp!PushBegin(u) \/ Emp!PushCommit(u) \/ Emp!Abort(u)
      PROVE  EmployeesInv'
    BY <1>1, EmployeesCreate, EmployeesAsk, EmployeesImportRow, EmployeesImportEnd, EmployeesUpdate,
       EmployeesDelete, EmployeesLinks, EmployeesPush, EmployeesAbort
<1>2. CASE UNCHANGED records
    BY <1>2 DEF records, EmployeesInv, EmployeesSerial, StaffAsks
<1> QED
    BY <1>1, <1>2 DEF Emp!Next

LEMMA EmployeesAreRight == EmployeesInv => Emp!TypeOK /\ Emp!EmployeesAreSound
<1> SUFFICES ASSUME EmployeesInv PROVE Emp!TypeOK /\ Emp!EmployeesAreSound
    OBVIOUS
<1>1. Emp!TypeOK
    BY DEF Emp!TypeOK, EmployeesInv, EmployeesTypes
<1>2. Emp!FilesAreRead
    BY DEF Emp!FilesAreRead, Emp!Unused, EmployeesInv, Known, Taken
<1>3. Emp!MirrorIsCurrent
    BY DEF Emp!MirrorIsCurrent, EmployeesInv, EmployeesSerial, Mirrored
<1> QED
    BY <1>1, <1>2, <1>3 DEF Emp!EmployeesAreSound

(***************************************************************************)
(* The exchange with the ERP: the clock s1, the contract s2, when the ERP   *)
(* asked last s3, what it knows s4, the supplier s5, the requests s6, the   *)
(* name given last s7, whether a change was open while the ERP asked s8,    *)
(* whether two requests have overlapped s9.                                 *)
(***************************************************************************)
ContractRow == [updated : 0..MaxClock, version : 1..MaxVersion, deleted : BOOLEAN]

Names == Name \cup {Erp!NoName}

ErpTypes(now_, row, since, version, supplier, last_, skips, mixes) ==
    /\ now_ \in 0..MaxClock /\ row \in ContractRow /\ row.updated <= now_
    /\ since \in -1..MaxClock /\ since <= now_ /\ version \in 0..MaxVersion
    /\ supplier \in Names /\ last_ \in Names /\ skips \in BOOLEAN /\ mixes \in BOOLEAN

\* A request; a change that began before the ERP asked makes it skip.
ExchangeOf(q, now_, since, skips) ==
    /\ q.op = "change" => q.began \in 0..MaxClock /\ q.began <= now_ /\ q.deletes \in BOOLEAN
    /\ q.op = "change" /\ ~skips => since <= q.began
    /\ q.op = "push" => q.name \in Name /\ q.loaded \in Names
    /\ q.op = "rename" => q.name \in Name

\* What the ERP does not know, it is told when it asks again.
ToldNext(row, since, version, skips) ==
    ~skips /\ ~row.deleted /\ version # row.version => Erp!Since(row, since)

Exchanging(u) == s6[u].op # "none"

ErpSerial ==
    ~s9 =>
        /\ s5 = s7
        /\ \A u, v \in Request : Exchanging(u) /\ Exchanging(v) => u = v
        /\ \A u \in Request : s6[u].op = "push" => s6[u].loaded = s5

ErpInv ==
    /\ ErpTypes(s1, s2, s3, s4, s5, s7, s8, s9) /\ DOMAIN s6 = Request
    /\ \A u \in Request : ExchangeOf(s6[u], s1, s3, s8)
    /\ ToldNext(s2, s3, s4, s8)
    /\ ErpSerial

LEMMA ClockNumbers == MaxClock \in Nat /\ MaxVersion \in Nat /\ MaxVersion >= 1
    BY CapsAssumption DEF CapsAssumption

LEMMA ErpInit == Erp!Init => ErpInv
<1> SUFFICES ASSUME Erp!Init PROVE ErpInv
    OBVIOUS
<1>1. /\ s1 = 0 /\ s2 = [updated |-> 0, version |-> 1, deleted |-> FALSE] /\ s3 = -1 /\ s4 = 0
      /\ s5 = Erp!NoName /\ s6 = [u \in Request |-> NoRecordRequest] /\ s7 = Erp!NoName /\ s8 = FALSE /\ s9 = FALSE
    BY DEF Erp!Init, NoRecordRequest
<1>2. \A u \in Request : s6[u] = NoRecordRequest
    BY <1>1
<1>3. s2 \in ContractRow /\ s2.updated = 0
    BY <1>1, ClockNumbers DEF ContractRow
<1>4. ErpTypes(s1, s2, s3, s4, s5, s7, s8, s9)
    <2>1. s1 \in 0..MaxClock /\ s2.updated <= s1 /\ s3 \in -1..MaxClock /\ s3 <= s1 /\ s4 \in 0..MaxVersion
        BY <1>1, <1>3, ClockNumbers
    <2>2. s5 \in Names /\ s7 \in Names /\ s8 \in BOOLEAN /\ s9 \in BOOLEAN
        BY <1>1 DEF Names
    <2> QED
        BY <1>3, <2>1, <2>2 DEF ErpTypes
<1>5. ToldNext(s2, s3, s4, s8)
    BY <1>1 DEF ToldNext, Erp!Since
<1> QED
    BY <1>1, <1>2, <1>4, <1>5, NoRecordRequestIs DEF ErpInv, ErpSerial, ExchangeOf, Exchanging

LEMMA ErpNumbers ==
    ASSUME ErpInv
    PROVE  /\ s1 \in Nat /\ s1 <= MaxClock /\ s3 \in Int /\ -1 <= s3 /\ s3 <= s1
           /\ s2.updated \in Nat /\ s2.updated <= s1 /\ s2.version \in Nat /\ s2.version >= 1 /\ s2.version <= MaxVersion
           /\ s2.deleted \in BOOLEAN /\ s4 \in Nat /\ s4 <= MaxVersion
    BY ClockNumbers DEF ErpInv, ErpTypes, ContractRow

LEMMA ErpBegin ==
    ASSUME ErpInv, NEW u \in Request, NEW r, r.op # "none", Erp!Begin(u, r), ExchangeOf(r, s1, s3, s8),
           r.op = "push" => r.loaded = s5
    PROVE  ErpInv'
<1>1. /\ s6' = [s6 EXCEPT ![u] = r] /\ s9' = (s9 \/ \E v \in Request : Exchanging(v))
      /\ s1' = s1 /\ s2' = s2 /\ s3' = s3 /\ s4' = s4 /\ s5' = s5 /\ s7' = s7 /\ s8' = s8
    BY DEF Erp!Begin, Erp!Idle, Exchanging
<1>2. DOMAIN s6' = Request /\ s6'[u] = r /\ \A v \in Request : v # u => s6'[v] = s6[v]
    BY <1>1, RequestPut DEF ErpInv
<1>3. s9' \in BOOLEAN /\ (~s9' => ~s9 /\ \A v \in Request : ~Exchanging(v))
    BY <1>1 DEF ErpInv, ErpTypes
<1>4. \A v \in Request : ExchangeOf(s6'[v], s1', s3', s8')
    BY <1>1, <1>2 DEF ErpInv
<1>5. ErpSerial'
    <2> SUFFICES ASSUME ~s9'
                 PROVE  /\ s5' = s7'
                        /\ \A v, w \in Request : s6'[v].op # "none" /\ s6'[w].op # "none" => v = w
                        /\ \A v \in Request : s6'[v].op = "push" => s6'[v].loaded = s5'
        BY DEF ErpSerial, Exchanging
    <2>1. \A v \in Request : s6'[v].op # "none" => v = u
        BY <1>2, <1>3 DEF Exchanging
    <2> QED
        BY <1>1, <1>2, <1>3, <2>1 DEF ErpInv, ErpSerial
<1>6. ErpTypes(s1', s2', s3', s4', s5', s7', s8', s9')
    BY <1>1, <1>3 DEF ErpInv, ErpTypes
<1>7. ToldNext(s2', s3', s4', s8')
    BY <1>1 DEF ErpInv
<1> QED
    BY <1>2, <1>4, <1>5, <1>6, <1>7 DEF ErpInv

\* What stays right when a request ends.
LEMMA ErpEnd ==
    ASSUME ErpInv, NEW u \in Request, Exchanging(u), s6' = [s6 EXCEPT ![u] = [op |-> "none"]],
           s1' = s1, s3' = s3, s4' = s4, s8' = s8, s9' = s9,
           s2' \in ContractRow, s2'.updated <= s1, s5' \in Names, s7' \in Names,
           ToldNext(s2', s3, s4, s8), ~s9 => s5' = s7'
    PROVE  ErpInv'
<1>1. DOMAIN s6' = Request /\ s6'[u] = NoRecordRequest /\ \A v \in Request : v # u => s6'[v] = s6[v]
    BY RequestPut DEF NoRecordRequest, ErpInv
<1>2. \A v \in Request : ExchangeOf(s6'[v], s1', s3', s8')
    BY <1>1, NoRecordRequestIs DEF ErpInv, ExchangeOf
<1>3. ErpSerial'
    <2> SUFFICES ASSUME ~s9 PROVE s5' = s7' /\ \A v \in Request : s6'[v].op = "none"
        BY DEF ErpSerial, Exchanging
    <2> QED
        BY <1>1, NoRecordRequestIs DEF ErpInv, ErpSerial, Exchanging
<1>4. ErpTypes(s1', s2', s3', s4', s5', s7', s8', s9')
    BY DEF ErpInv, ErpTypes
<1>5. ToldNext(s2', s3', s4', s8')
    OBVIOUS
<1> QED
    BY <1>1, <1>2, <1>3, <1>4, <1>5 DEF ErpInv

LEMMA ErpAbort == ASSUME ErpInv, NEW u \in Request, Erp!Abort(u) PROVE ErpInv'
<1>1. /\ Exchanging(u) /\ s6' = [s6 EXCEPT ![u] = [op |-> "none"]]
      /\ s1' = s1 /\ s2' = s2 /\ s3' = s3 /\ s4' = s4 /\ s5' = s5 /\ s7' = s7 /\ s8' = s8 /\ s9' = s9
    BY DEF Erp!Abort, Erp!Finish, Erp!Idle, Exchanging
<1>2. s2 \in ContractRow /\ s2.updated <= s1 /\ s5 \in Names /\ s7 \in Names /\ ToldNext(s2, s3, s4, s8) /\ (~s9 => s5 = s7)
    BY DEF ErpInv, ErpTypes, ErpSerial
<1> QED
    BY <1>1, <1>2, ErpEnd

LEMMA ErpTick == ASSUME ErpInv, Erp!Tick PROVE ErpInv'
<1>1. /\ s1 < MaxClock /\ s1' = s1 + 1 /\ s6' = s6
      /\ s2' = s2 /\ s3' = s3 /\ s4' = s4 /\ s5' = s5 /\ s7' = s7 /\ s8' = s8 /\ s9' = s9
    BY DEF Erp!Tick
<1>2. ErpTypes(s1', s2', s3', s4', s5', s7', s8', s9')
    <2>1. s1' \in 0..MaxClock /\ s2.updated <= s1' /\ s3 <= s1'
        BY <1>1, ErpNumbers, ClockNumbers
    <2> QED
        BY <1>1, <2>1 DEF ErpInv, ErpTypes
<1>3. \A v \in Request : ExchangeOf(s6'[v], s1', s3', s8')
    <2> SUFFICES ASSUME NEW v \in Request PROVE ExchangeOf(s6[v], s1', s3, s8)
        BY <1>1
    <2>1. ExchangeOf(s6[v], s1, s3, s8)
        BY DEF ErpInv
    <2>2. s6[v].op = "change" => s6[v].began <= s1'
        BY <1>1, <2>1, ErpNumbers, ClockNumbers DEF ExchangeOf
    <2> QED
        BY <2>1, <2>2 DEF ExchangeOf
<1> QED
    BY <1>1, <1>2, <1>3 DEF ErpInv, ErpSerial, Exchanging

LEMMA ErpPull == ASSUME ErpInv, Erp!Pull PROVE ErpInv'
<1>1. /\ s4' = IF ~s2.deleted /\ Erp!Since(s2, s3) THEN s2.version ELSE s4
      /\ s3' = s1 /\ s8' = (s8 \/ \E u \in Request : s6[u].op = "change")
      /\ s1' = s1 /\ s2' = s2 /\ s5' = s5 /\ s6' = s6 /\ s7' = s7 /\ s9' = s9
    BY DEF Erp!Pull
<1>2. s8' \in BOOLEAN /\ (~s8' => ~s8 /\ \A u \in Request : s6[u].op # "change")
    BY <1>1 DEF ErpInv, ErpTypes
<1>3. ErpTypes(s1', s2', s3', s4', s5', s7', s8', s9')
    <2>1. s3' \in -1..MaxClock /\ s3' <= s1' /\ s4' \in 0..MaxVersion
        BY <1>1, ErpNumbers, ClockNumbers
    <2> QED
        BY <1>1, <1>2, <2>1 DEF ErpInv, ErpTypes
<1>4. \A v \in Request : ExchangeOf(s6'[v], s1', s3', s8')
    BY <1>1, <1>2 DEF ErpInv, ExchangeOf
<1>5. ToldNext(s2', s3', s4', s8')
    BY <1>1, <1>2 DEF ErpInv, ToldNext
<1> QED
    BY <1>1, <1>3, <1>4, <1>5 DEF ErpInv, ErpSerial, Exchanging

LEMMA ErpChange == ASSUME ErpInv, NEW u \in Request, Erp!ChangeCommit(u) PROVE ErpInv'
<1> DEFINE b == s6[u].began
           d == s2.deleted \/ s6[u].deletes
<1>1. /\ s6[u].op = "change" /\ s2.version < MaxVersion
      /\ s2' = [updated |-> b, version |-> s2.version + 1, deleted |-> d]
      /\ s6' = [s6 EXCEPT ![u] = [op |-> "none"]]
      /\ s1' = s1 /\ s3' = s3 /\ s4' = s4 /\ s5' = s5 /\ s7' = s7 /\ s8' = s8 /\ s9' = s9
    BY DEF Erp!ChangeCommit, Erp!Finish
<1>2. b \in 0..MaxClock /\ b <= s1 /\ d \in BOOLEAN /\ (~s8 => s3 <= b)
    BY <1>1 DEF ErpInv, ExchangeOf
<1> HIDE DEF b, d
<1>3. s2' \in ContractRow /\ s2'.updated = b
    <2>1. s2.version + 1 \in 1..MaxVersion
        BY <1>1, ErpNumbers, ClockNumbers
    <2> QED
        BY <1>1, <1>2, <2>1 DEF ContractRow
<1>4. ToldNext(s2', s3, s4, s8)
    <2>1. ~s8 => s2'.updated >= s3
        BY <1>2, <1>3, ErpNumbers, ClockNumbers
    <2> QED
        BY <2>1 DEF ToldNext, Erp!Since
<1>5. s5 \in Names /\ s7 \in Names /\ (~s9 => s5 = s7)
    BY DEF ErpInv, ErpTypes, ErpSerial
<1> QED
    BY <1>1, <1>2, <1>3, <1>4, <1>5, ErpEnd DEF Exchanging

LEMMA ErpGiven ==
    ASSUME ErpInv, NEW u \in Request, Erp!PushCommit(u) \/ Erp!RenameCommit(u)
    PROVE  ErpInv'
<1>1. /\ s6[u].op = "push" \/ s6[u].op = "rename"
      /\ s7' = s6[u].name /\ s6' = [s6 EXCEPT ![u] = [op |-> "none"]]
      /\ s1' = s1 /\ s2' = s2 /\ s3' = s3 /\ s4' = s4 /\ s8' = s8 /\ s9' = s9
      /\ \/ s6[u].op = "push" /\ s6[u].loaded = s6[u].name /\ s5' = s5
         \/ s5' = s6[u].name
    BY DEF Erp!PushCommit, Erp!RenameCommit, Erp!Finish, Erp!Upserted
<1>2. s6[u].name \in Names /\ s5 \in Names /\ (~s9 /\ s6[u].op = "push" => s6[u].loaded = s5)
    BY <1>1 DEF ErpInv, ErpTypes, ErpSerial, ExchangeOf, Names
<1>3. s5' \in Names /\ s7' \in Names /\ (~s9 => s5' = s7')
    BY <1>1, <1>2
<1>4. s2 \in ContractRow /\ s2.updated <= s1 /\ ToldNext(s2, s3, s4, s8)
    BY DEF ErpInv, ErpTypes
<1> QED
    BY <1>1, <1>3, <1>4, ErpEnd DEF Exchanging

LEMMA ErpAsk ==
    ASSUME ErpInv, NEW u \in Request, Erp!ChangeBegin(u) \/ Erp!PushBegin(u) \/ Erp!RenameBegin(u)
    PROVE  ErpInv'
<1>1. CASE Erp!ChangeBegin(u)
    <2>1. PICK d \in BOOLEAN : Erp!Begin(u, [op |-> "change", began |-> s1, deletes |-> d])
        BY <1>1 DEF Erp!ChangeBegin
    <2> DEFINE r == [op |-> "change", began |-> s1, deletes |-> d]
    <2>2. r.op = "change" /\ r.began = s1 /\ r.deletes \in BOOLEAN /\ Erp!Begin(u, r)
        BY <2>1
    <2> HIDE DEF r
    <2>3. ExchangeOf(r, s1, s3, s8)
        <3>1. r.began \in 0..MaxClock /\ r.began <= s1 /\ s3 <= r.began
            BY <2>2, ErpNumbers, ClockNumbers
        <3> QED
            BY <2>2, <3>1 DEF ExchangeOf
    <2> QED
        BY <2>2, <2>3, ErpBegin
<1>2. CASE Erp!PushBegin(u)
    <2>1. PICK n \in Name : Erp!Begin(u, [op |-> "push", name |-> n, loaded |-> s5])
        BY <1>2 DEF Erp!PushBegin
    <2> DEFINE r == [op |-> "push", name |-> n, loaded |-> s5]
    <2>2. r.op = "push" /\ r.name \in Name /\ r.loaded = s5 /\ Erp!Begin(u, r)
        BY <2>1
    <2> HIDE DEF r
    <2>3. ExchangeOf(r, s1, s3, s8)
        BY <2>2 DEF ExchangeOf, ErpInv, ErpTypes
    <2> QED
        BY <2>2, <2>3, ErpBegin
<1>3. CASE Erp!RenameBegin(u)
    <2>1. PICK n \in Name : Erp!Begin(u, [op |-> "rename", name |-> n])
        BY <1>3 DEF Erp!RenameBegin
    <2> DEFINE r == [op |-> "rename", name |-> n]
    <2>2. r.op = "rename" /\ r.name \in Name /\ Erp!Begin(u, r)
        BY <2>1
    <2> HIDE DEF r
    <2>3. ExchangeOf(r, s1, s3, s8)
        BY <2>2 DEF ExchangeOf
    <2> QED
        BY <2>2, <2>3, ErpBegin
<1> QED
    BY <1>1, <1>2, <1>3

LEMMA ErpStep == ASSUME ErpInv, Erp!Next \/ UNCHANGED records PROVE ErpInv'
<1>1. ASSUME NEW u \in Request,
             \/ Erp!ChangeBegin(u) \/ Erp!ChangeCommit(u) \/ Erp!PushBegin(u) \/ Erp!PushCommit(u)
             \/ Erp!RenameBegin(u) \/ Erp!RenameCommit(u) \/ Erp!Abort(u)
      PROVE  ErpInv'
    BY <1>1, ErpAsk, ErpChange, ErpGiven, ErpAbort
<1>2. CASE UNCHANGED records
    BY <1>2 DEF records, ErpInv, ErpSerial, Exchanging
<1> QED
    BY <1>1, <1>2, ErpTick, ErpPull DEF Erp!Next

LEMMA ErpIsRight == ErpInv => Erp!TypeOK /\ Erp!ErpIsInStep
<1> SUFFICES ASSUME ErpInv PROVE Erp!TypeOK /\ Erp!ErpIsInStep
    OBVIOUS
<1>1. Erp!TypeOK
    BY DEF Erp!TypeOK, ErpInv, ErpTypes, ContractRow, Names
<1>2. Erp!NothingIsSkipped
    BY DEF Erp!NothingIsSkipped, ErpInv, ToldNext
<1>3. Erp!SupplierIsMirrored
    BY DEF Erp!SupplierIsMirrored, ErpInv, ErpSerial
<1> QED
    BY <1>1, <1>2, <1>3 DEF Erp!ErpIsInStep

(***************************************************************************)
(* The dashboard: the entry s1 of the metrics, those s2 of the parts, the   *)
(* requests s3, the keys s4 still to delete, whether they raced s5.         *)
(***************************************************************************)
Metrics == [left : Nat, data : Dsh!Data, parts : [Part -> Dsh!Data]]

Entry == [left : Nat, data : Dsh!Data]

View ==
    [stage : {"none", "counted"}, took : 0..MaxDelay, data : Dsh!Data, parts : [Part -> Dsh!Data], computed : Dsh!Data]

\* What is kept, and for how long it still is; a part may have been kept twice.
MetricsBounded(m) ==
    /\ m.left >= 1 \/ (m.data = Dsh!Nothing /\ \A p \in Part : m.parts[p] = Dsh!Nothing)
    /\ m.left <= TTL_METRICS /\ m.data.age + m.left <= TTL_METRICS + MaxDelay
    /\ \A p \in Part : m.parts[p].age + m.left < TTL_PART[p] + TTL_METRICS + 2 * MaxDelay

EntryBounded(e, p) ==
    /\ e.left >= 1 \/ e.data = Dsh!Nothing
    /\ e.left <= TTL_PART[p] /\ e.data.age + e.left <= TTL_PART[p] + MaxDelay

ViewBounded(w) ==
    w.stage = "counted" =>
        /\ w.data.age <= w.took /\ w.computed.age <= w.took
        /\ \A p \in Part : w.parts[p].age < TTL_PART[p] + MaxDelay + w.took

ViewFresh(w) == ~w.data.stale /\ ~w.computed.stale /\ \A p \in Part : ~w.parts[p].stale

\* Nobody has worked during a change: what misses one has still to be deleted.
DashboardFresh ==
    ~s5 =>
        /\ s1.data.stale => "metrics" \in s4
        /\ \A p \in Part : (s1.parts[p].stale => "metrics" \in s4) /\ (s2[p].data.stale => p \in s4)
        /\ \A v \in Request : s3[v].stage = "counted" => s4 = {} /\ ViewFresh(s3[v])

DashboardInv ==
    /\ s1 \in Metrics /\ s2 \in [Part -> Entry] /\ s3 \in [Request -> View]
    /\ s4 \subseteq Part \cup {"metrics"} /\ s5 \in BOOLEAN
    /\ MetricsBounded(s1) /\ (\A p \in Part : EntryBounded(s2[p], p)) /\ \A v \in Request : ViewBounded(s3[v])
    /\ DashboardFresh

LEMMA DashboardNumbers ==
    /\ TTL_METRICS \in Nat /\ TTL_METRICS >= 1 /\ MaxDelay \in Nat
    /\ \A p \in Part : TTL_PART[p] \in Nat /\ TTL_PART[p] >= 1
    /\ "metrics" \notin Part
    BY LimitsAssumption, CapsAssumption, NamesAssumption DEF LimitsAssumption, CapsAssumption, NamesAssumption

\* Data: missing a change and growing older.
LEMMA DataIs ==
    /\ Dsh!Nothing \in Dsh!Data /\ Dsh!Nothing.age = -1 /\ ~Dsh!Nothing.stale
    /\ Dsh!Fresh \in Dsh!Data /\ Dsh!Fresh.age = 0 /\ ~Dsh!Fresh.stale /\ Dsh!Fresh # Dsh!Nothing
    /\ \A d \in Dsh!Data : d.age \in Int /\ d.stale \in BOOLEAN
<1>1. Dsh!Nothing \in Dsh!Data /\ Dsh!Nothing.age = -1 /\ ~Dsh!Nothing.stale
    BY DEF Dsh!Data, Dsh!Nothing
<1>2. Dsh!Fresh \in Dsh!Data /\ Dsh!Fresh.age = 0 /\ ~Dsh!Fresh.stale
    BY DEF Dsh!Data, Dsh!Fresh
<1>3. Dsh!Fresh # Dsh!Nothing
    BY <1>1, <1>2
<1>4. ASSUME NEW d \in Dsh!Data PROVE d.age \in Int /\ d.stale \in BOOLEAN
    <2>1. CASE d = Dsh!Nothing
        BY <2>1 DEF Dsh!Nothing
    <2>2. CASE d \in [age : Nat, stale : BOOLEAN]
        BY <2>2
    <2> QED
        BY <2>1, <2>2 DEF Dsh!Data
<1> QED
    BY <1>1, <1>2, <1>3, <1>4

LEMMA MissedIs ==
    ASSUME NEW d \in Dsh!Data
    PROVE  Dsh!Missed(d) \in Dsh!Data /\ Dsh!Missed(d).age = d.age /\ (d = Dsh!Nothing => Dsh!Missed(d) = Dsh!Nothing)
<1>1. CASE d = Dsh!Nothing
    BY <1>1 DEF Dsh!Missed
<1>2. CASE d # Dsh!Nothing
    <2>1. d \in [age : Nat, stale : BOOLEAN] /\ Dsh!Missed(d) = [d EXCEPT !.stale = TRUE]
        BY <1>2 DEF Dsh!Data, Dsh!Missed
    <2>2. Dsh!Missed(d) \in [age : Nat, stale : BOOLEAN] /\ Dsh!Missed(d).age = d.age
        BY <2>1
    <2> QED
        BY <1>2, <2>2 DEF Dsh!Data
<1> QED
    BY <1>1, <1>2

LEMMA OlderIs ==
    ASSUME NEW d \in Dsh!Data
    PROVE  /\ Dsh!Older(d) \in Dsh!Data /\ Dsh!Older(d).age <= d.age + 1 /\ Dsh!Older(d).stale = d.stale
           /\ (d = Dsh!Nothing => Dsh!Older(d) = Dsh!Nothing)
<1>1. CASE d = Dsh!Nothing
    BY <1>1, DataIs DEF Dsh!Older
<1>2. CASE d # Dsh!Nothing
    <2>1. d \in [age : Nat, stale : BOOLEAN] /\ Dsh!Older(d) = [d EXCEPT !.age = @ + 1]
        BY <1>2 DEF Dsh!Data, Dsh!Older
    <2>2. Dsh!Older(d) \in [age : Nat, stale : BOOLEAN] /\ Dsh!Older(d).age = d.age + 1 /\ Dsh!Older(d).stale = d.stale
        BY <2>1
    <2> QED
        BY <1>2, <2>2 DEF Dsh!Data
<1> QED
    BY <1>1, <1>2

LEMMA NothingKept ==
    /\ Dsh!NoMetrics \in Metrics /\ MetricsBounded(Dsh!NoMetrics)
    /\ ~Dsh!NoMetrics.data.stale /\ \A p \in Part : ~Dsh!NoMetrics.parts[p].stale
    /\ Dsh!Missing \in Entry /\ (\A p \in Part : EntryBounded(Dsh!Missing, p)) /\ ~Dsh!Missing.data.stale
    /\ Dsh!NoView \in View /\ ViewBounded(Dsh!NoView) /\ Dsh!NoView.stage = "none"
<1>1. [p \in Part |-> Dsh!Nothing] \in [Part -> Dsh!Data]
    BY DataIs
<1>2. /\ Dsh!NoMetrics \in Metrics /\ Dsh!NoMetrics.left = 0 /\ Dsh!NoMetrics.data = Dsh!Nothing
      /\ Dsh!NoMetrics.parts = [p \in Part |-> Dsh!Nothing]
    BY <1>1, DataIs DEF Dsh!NoMetrics, Metrics
<1>3. \A p \in Part : Dsh!NoMetrics.parts[p] = Dsh!Nothing
    BY <1>2
<1>4. Dsh!Missing \in Entry /\ Dsh!Missing.left = 0 /\ Dsh!Missing.data = Dsh!Nothing
    BY DataIs DEF Dsh!Missing, Entry
<1>5. Dsh!NoView \in View /\ Dsh!NoView.stage = "none"
    BY <1>1, DataIs, DashboardNumbers DEF Dsh!NoView, View
<1>6. MetricsBounded(Dsh!NoMetrics)
    BY <1>2, <1>3, DataIs, DashboardNumbers DEF MetricsBounded
<1>7. ASSUME NEW p \in Part PROVE EntryBounded(Dsh!Missing, p)
    BY <1>4, DataIs, DashboardNumbers DEF EntryBounded
<1>8. ViewBounded(Dsh!NoView)
    BY <1>5 DEF ViewBounded
<1> QED
    BY <1>2, <1>3, <1>4, <1>5, <1>6, <1>7, <1>8, DataIs

LEMMA DashboardInit == Dsh!Init => DashboardInv
<1> SUFFICES ASSUME Dsh!Init PROVE DashboardInv
    OBVIOUS
<1>1. /\ s1 = Dsh!NoMetrics /\ s2 = [p \in Part |-> Dsh!Missing] /\ s3 = [v \in Request |-> Dsh!NoView]
      /\ s4 = {} /\ s5 = FALSE
    BY DEF Dsh!Init
<1>2. (\A p \in Part : s2[p] = Dsh!Missing) /\ \A v \in Request : s3[v] = Dsh!NoView
    BY <1>1
<1>3. s2 \in [Part -> Entry] /\ s3 \in [Request -> View]
    BY <1>1, NothingKept
<1> QED
    BY <1>1, <1>2, <1>3, NothingKept DEF DashboardInv, DashboardFresh

\* Only the request of one viewer goes on.
LEMMA ViewStep ==
    ASSUME DashboardInv, NEW v \in Request, NEW w \in View, s3' = [s3 EXCEPT ![v] = w], ViewBounded(w),
           s4' = s4, s5' \in BOOLEAN, ~s5' => ~s5,
           ~s5' => (w.stage = "counted" => s4 = {} /\ ViewFresh(w)),
           s1' \in Metrics, MetricsBounded(s1'), s2' \in [Part -> Entry], \A p \in Part : EntryBounded(s2'[p], p),
           ~s5' => (s1'.data.stale => "metrics" \in s4),
           ~s5' => \A p \in Part : (s1'.parts[p].stale => "metrics" \in s4) /\ (s2'[p].data.stale => p \in s4)
    PROVE  DashboardInv'
<1>1. s3' \in [Request -> View] /\ s3'[v] = w /\ \A x \in Request : x # v => s3'[x] = s3[x]
    BY DEF DashboardInv
<1>2. \A x \in Request : ViewBounded(s3'[x])
    BY <1>1 DEF DashboardInv
<1>3. DashboardFresh'
    BY <1>1 DEF DashboardInv, DashboardFresh
<1> QED
    BY <1>1, <1>2, <1>3 DEF DashboardInv

\* What a request that works has: it has not raced, so nothing is to be deleted.
LEMMA ViewIs ==
    ASSUME DashboardInv, NEW v \in Request, s3[v].stage = "counted"
    PROVE  /\ s3[v] \in View /\ ViewBounded(s3[v])
           /\ ~s5 => s4 = {} /\ ViewFresh(s3[v]) /\ ~s1.data.stale
                     /\ \A p \in Part : ~s1.parts[p].stale /\ ~s2[p].data.stale
    BY DEF DashboardInv, DashboardFresh

LEMMA KeptUnchanged ==
    ASSUME DashboardInv
    PROVE  /\ s1 \in Metrics /\ MetricsBounded(s1) /\ s2 \in [Part -> Entry] /\ \A p \in Part : EntryBounded(s2[p], p)
           /\ s4 \subseteq Part \cup {"metrics"} /\ s5 \in BOOLEAN
           /\ ~s5 => (s1.data.stale => "metrics" \in s4)
           /\ ~s5 => \A p \in Part : (s1.parts[p].stale => "metrics" \in s4) /\ (s2[p].data.stale => p \in s4)
    BY DEF DashboardInv, DashboardFresh

LEMMA DashboardMiss == ASSUME DashboardInv, NEW v \in Request, Dsh!Miss(v) PROVE DashboardInv'
<1> DEFINE e == [Dsh!NoView EXCEPT !.stage = "counted"]
           w == [e EXCEPT !.data = Dsh!Fresh]
<1>1. s3' = [s3 EXCEPT ![v] = w] /\ s5' = (s5 \/ s4 # {}) /\ s1' = s1 /\ s2' = s2 /\ s4' = s4
    BY DEF Dsh!Miss
<1>2. [p \in Part |-> Dsh!Nothing] \in [Part -> Dsh!Data]
    BY DataIs
<1>3. e = [stage |-> "counted", took |-> 0, data |-> Dsh!Nothing, parts |-> [p \in Part |-> Dsh!Nothing], computed |-> Dsh!Nothing]
    BY DEF Dsh!NoView
<1> HIDE DEF e
<1>4. w = [stage |-> "counted", took |-> 0, data |-> Dsh!Fresh, parts |-> [p \in Part |-> Dsh!Nothing], computed |-> Dsh!Nothing]
    BY <1>3
<1> HIDE DEF w
<1>5. /\ w \in View /\ w.took = 0 /\ w.data = Dsh!Fresh /\ w.computed = Dsh!Nothing
      /\ w.parts = [p \in Part |-> Dsh!Nothing]
    BY <1>2, <1>4, DataIs, DashboardNumbers DEF View
<1>6. \A p \in Part : w.parts[p] = Dsh!Nothing
    BY <1>5
<1>7. ViewBounded(w) /\ ViewFresh(w)
    BY <1>5, <1>6, DataIs, DashboardNumbers DEF ViewBounded, ViewFresh
<1>8. s5' \in BOOLEAN /\ (~s5' => ~s5 /\ s4 = {})
    BY <1>1, KeptUnchanged
<1> QED
    BY <1>1, <1>5, <1>7, <1>8, KeptUnchanged, ViewStep

LEMMA DashboardPartHit == ASSUME DashboardInv, NEW v \in Request, NEW p \in Part, Dsh!PartHit(v, p) PROVE DashboardInv'
<1> DEFINE ps == [s3[v].parts EXCEPT ![p] = s2[p].data]
           w == [s3[v] EXCEPT !.parts = ps]
<1>1. /\ s3[v].stage = "counted" /\ s3' = [s3 EXCEPT ![v].parts[p] = s2[p].data]
      /\ s2[p].left > 0 /\ s2' = [s2 EXCEPT ![p] = Dsh!Kept(@, TTL_PART[p])] /\ s1' = s1 /\ s4' = s4 /\ s5' = s5
    BY DEF Dsh!PartHit
<1>2. s3[v] \in View /\ ViewBounded(s3[v]) /\ s3 \in [Request -> View] /\ s2 \in [Part -> Entry] /\ EntryBounded(s2[p], p)
    BY <1>1 DEF DashboardInv
<1>3. s3' = [s3 EXCEPT ![v] = w]
    BY <1>1, <1>2
<1>4. s2' = s2
    BY <1>1, <1>2 DEF Dsh!Kept
<1>5. ps \in [Part -> Dsh!Data] /\ ps[p] = s2[p].data /\ \A q \in Part : q # p => ps[q] = s3[v].parts[q]
    BY <1>2 DEF View, Entry
<1> HIDE DEF ps
<1>6. /\ w \in View /\ w.stage = "counted" /\ w.took = s3[v].took /\ w.data = s3[v].data
      /\ w.computed = s3[v].computed /\ w.parts = ps
    BY <1>1, <1>2, <1>5 DEF View
<1> HIDE DEF w
<1>7. s3[v].took \in Nat /\ s2[p].data.age \in Int /\ s2[p].left \in Nat
    BY <1>2, DataIs, DashboardNumbers DEF View, Entry
<1>8. s2[p].data.age < TTL_PART[p] + MaxDelay + s3[v].took
    BY <1>1, <1>2, <1>7, DashboardNumbers DEF EntryBounded
<1>9. ViewBounded(w)
    BY <1>1, <1>2, <1>5, <1>6, <1>8 DEF ViewBounded
<1>10. ~s5 => s4 = {} /\ ViewFresh(w)
    BY <1>1, <1>5, <1>6, ViewIs DEF ViewFresh
<1> QED
    BY <1>1, <1>3, <1>4, <1>6, <1>9, <1>10, KeptUnchanged, ViewStep

LEMMA DashboardPartRead == ASSUME DashboardInv, NEW v \in Request, NEW p \in Part, Dsh!PartRead(v, p) PROVE DashboardInv'
<1> DEFINE w == [s3[v] EXCEPT !.computed = Dsh!Fresh]
<1>1. /\ s3[v].stage = "counted" /\ s3' = [s3 EXCEPT ![v].computed = Dsh!Fresh]
      /\ s1' = s1 /\ s2' = s2 /\ s4' = s4 /\ s5' = s5
    BY DEF Dsh!PartRead
<1>2. s3[v] \in View /\ ViewBounded(s3[v]) /\ s3 \in [Request -> View]
    BY <1>1 DEF DashboardInv
<1>3. s3' = [s3 EXCEPT ![v] = w]
    BY <1>1, <1>2
<1>4. /\ w \in View /\ w.stage = "counted" /\ w.took = s3[v].took /\ w.data = s3[v].data
      /\ w.computed = Dsh!Fresh /\ w.parts = s3[v].parts
    BY <1>1, <1>2, DataIs DEF View
<1> HIDE DEF w
<1>5. s3[v].took \in Nat
    BY <1>2, DashboardNumbers DEF View
<1>6. ViewBounded(w)
    BY <1>1, <1>2, <1>4, <1>5, DataIs DEF ViewBounded
<1>7. ~s5 => s4 = {} /\ ViewFresh(w)
    BY <1>1, <1>4, ViewIs, DataIs DEF ViewFresh
<1> QED
    BY <1>1, <1>3, <1>4, <1>6, <1>7, KeptUnchanged, ViewStep

LEMMA DashboardPartSet == ASSUME DashboardInv, NEW v \in Request, NEW p \in Part, Dsh!PartSet(v, p) PROVE DashboardInv'
<1> DEFINE c == s3[v].computed
           ps == [s3[v].parts EXCEPT ![p] = c]
           e == [s3[v] EXCEPT !.parts = ps]
           w == [e EXCEPT !.computed = Dsh!Nothing]
           set == [left |-> TTL_PART[p], data |-> c]
<1>1. /\ s3[v].stage = "counted" /\ s3' = [s3 EXCEPT ![v].parts[p] = c, ![v].computed = Dsh!Nothing]
      /\ s2' = s2 \/ s2' = [s2 EXCEPT ![p] = set]
      /\ s1' = s1 /\ s4' = s4 /\ s5' = s5
    BY DEF Dsh!PartSet
<1>2. s3[v] \in View /\ ViewBounded(s3[v]) /\ s3 \in [Request -> View] /\ s2 \in [Part -> Entry] /\ c \in Dsh!Data
    BY <1>1 DEF DashboardInv, View
<1>3. s3' = [s3 EXCEPT ![v] = w]
    BY <1>1, <1>2 DEF View
<1> HIDE DEF c
<1>4. ps \in [Part -> Dsh!Data] /\ ps[p] = c /\ \A q \in Part : q # p => ps[q] = s3[v].parts[q]
    BY <1>2 DEF View
<1> HIDE DEF ps
<1>5. /\ e \in View /\ e.stage = "counted" /\ e.took = s3[v].took /\ e.data = s3[v].data /\ e.parts = ps
    BY <1>1, <1>2, <1>4 DEF View
<1> HIDE DEF e
<1>6. /\ w \in View /\ w.stage = "counted" /\ w.took = s3[v].took /\ w.data = s3[v].data /\ w.parts = ps
      /\ w.computed = Dsh!Nothing
    BY <1>5, DataIs DEF View
<1> HIDE DEF w
<1>7. /\ s3[v].took \in Nat /\ s3[v].took <= MaxDelay /\ c.age \in Int /\ c.age <= s3[v].took
      /\ c.age < TTL_PART[p] + MaxDelay + s3[v].took /\ c.age + TTL_PART[p] <= TTL_PART[p] + MaxDelay
    BY <1>1, <1>2, DataIs, DashboardNumbers DEF View, ViewBounded, c
<1>8. ViewBounded(w)
    BY <1>1, <1>2, <1>4, <1>6, <1>7, DataIs DEF ViewBounded
<1>9. ~s5 => s4 = {} /\ ViewFresh(w) /\ ~c.stale
    BY <1>1, <1>4, <1>6, ViewIs, DataIs DEF ViewFresh, c
<1>10. set \in Entry /\ set.data = c /\ EntryBounded(set, p)
    BY <1>2, <1>7, DashboardNumbers DEF Entry, EntryBounded
<1> HIDE DEF set
<1>11. /\ s2' \in [Part -> Entry] /\ \A q \in Part : s2'[q] = s2[q] \/ (q = p /\ s2'[q] = set)
    BY <1>1, <1>2, <1>10
<1>12. /\ \A q \in Part : EntryBounded(s2'[q], q)
       /\ ~s5 => \A q \in Part : s2'[q].data.stale => q \in s4
    BY <1>9, <1>10, <1>11, KeptUnchanged
<1> QED
    BY <1>1, <1>3, <1>6, <1>8, <1>9, <1>11, <1>12, KeptUnchanged, ViewStep

LEMMA DashboardAnswer == ASSUME DashboardInv, NEW v \in Request, Dsh!Answer(v) \/ Dsh!Abort(v) PROVE DashboardInv'
<1> DEFINE set == [left |-> TTL_METRICS, data |-> s3[v].data, parts |-> s3[v].parts]
<1>1. /\ s3[v].stage # "none" /\ s3' = [s3 EXCEPT ![v] = Dsh!NoView]
      /\ s1' = s1 \/ (s3[v].stage = "counted" /\ s1' = set)
      /\ s2' = s2 /\ s4' = s4 /\ s5' = s5
    BY DEF Dsh!Answer, Dsh!Abort, Dsh!Working
<1>2. s3[v] \in View /\ s3[v].stage = "counted" /\ ViewBounded(s3[v])
    BY <1>1 DEF DashboardInv, View
<1>3. /\ s3[v].took \in Nat /\ s3[v].took <= MaxDelay /\ s3[v].data \in Dsh!Data /\ s3[v].parts \in [Part -> Dsh!Data]
      /\ \A p \in Part : s3[v].parts[p] \in Dsh!Data
    BY <1>2, DashboardNumbers DEF View
<1>4. set \in Metrics /\ set.left = TTL_METRICS /\ set.data = s3[v].data /\ set.parts = s3[v].parts
    BY <1>3, DashboardNumbers DEF Metrics
<1> HIDE DEF set
<1>5. ASSUME NEW p \in Part PROVE set.parts[p].age + set.left < TTL_PART[p] + TTL_METRICS + 2 * MaxDelay
    BY <1>2, <1>3, <1>4, DataIs, DashboardNumbers DEF ViewBounded
<1>6. set.data.age + set.left <= TTL_METRICS + MaxDelay
    BY <1>2, <1>3, <1>4, DataIs, DashboardNumbers DEF ViewBounded
<1>7. MetricsBounded(set)
    BY <1>4, <1>5, <1>6, DashboardNumbers DEF MetricsBounded
<1>8. ~s5 => ~set.data.stale /\ \A p \in Part : ~set.parts[p].stale
    BY <1>2, <1>4, ViewIs DEF ViewFresh
<1>9. s1' = s1 \/ s1' = set
    BY <1>1
<1>10. s1' \in Metrics /\ MetricsBounded(s1')
    BY <1>4, <1>7, <1>9, KeptUnchanged
<1>11. /\ ~s5 => (s1'.data.stale => "metrics" \in s4)
       /\ ~s5 => \A p \in Part : s1'.parts[p].stale => "metrics" \in s4
    BY <1>8, <1>9, KeptUnchanged
<1> QED
    BY <1>1, <1>10, <1>11, KeptUnchanged, NothingKept, ViewStep

LEMMA DashboardChange == ASSUME DashboardInv, Dsh!Change PROVE DashboardInv'
<1> DEFINE all(included) == [p \in Part |-> Dsh!Missed(included[p])]
           e == [s1 EXCEPT !.data = Dsh!Missed(s1.data)]
<1>1. /\ s1' = [e EXCEPT !.parts = all(s1.parts)]
      /\ s2' = [p \in Part |-> [s2[p] EXCEPT !.data = Dsh!Missed(s2[p].data)]]
      /\ s3' = [v \in Request |-> [s3[v] EXCEPT !.data = Dsh!Missed(@), !.parts = Dsh!MissedByAll(@), !.computed = Dsh!Missed(@)]]
      /\ s4' = Part \cup {"metrics"} /\ s5' = (s5 \/ \E v \in Request : s3[v].stage # "none")
    BY DEF Dsh!Change, Dsh!MissedByAll, Dsh!Working, DashboardInv, Metrics
<1>2. s1 \in Metrics /\ s2 \in [Part -> Entry] /\ s3 \in [Request -> View] /\ s5 \in BOOLEAN
    BY DEF DashboardInv
<1>3. ASSUME NEW ps \in [Part -> Dsh!Data]
      PROVE  all(ps) \in [Part -> Dsh!Data] /\ \A p \in Part : all(ps)[p] = Dsh!Missed(ps[p]) /\ all(ps)[p].age = ps[p].age
    BY MissedIs
<1>4. e \in Metrics /\ e.data = Dsh!Missed(s1.data) /\ e.left = s1.left /\ e.parts = s1.parts
    BY <1>2, MissedIs DEF Metrics
<1> HIDE DEF e
<1>5. s1' \in Metrics /\ s1'.data = Dsh!Missed(s1.data) /\ s1'.left = s1.left /\ s1'.parts = all(s1.parts)
    BY <1>1, <1>2, <1>3, <1>4 DEF Metrics
<1>6. s1.data \in Dsh!Data /\ s1.parts \in [Part -> Dsh!Data] /\ \A p \in Part : s1.parts[p] \in Dsh!Data
    BY <1>2 DEF Metrics
<1>7. MetricsBounded(s1')
    BY <1>3, <1>5, <1>6, MissedIs DEF DashboardInv, MetricsBounded
<1>8. ASSUME NEW p \in Part PROVE s2'[p] \in Entry /\ EntryBounded(s2'[p], p)
    <2>1. s2[p] \in Entry /\ s2'[p] = [s2[p] EXCEPT !.data = Dsh!Missed(s2[p].data)] /\ EntryBounded(s2[p], p)
        BY <1>1, <1>2 DEF DashboardInv
    <2>2. s2'[p] \in Entry /\ s2'[p].left = s2[p].left /\ s2'[p].data = Dsh!Missed(s2[p].data)
        BY <2>1, MissedIs DEF Entry
    <2> QED
        BY <2>1, <2>2, MissedIs DEF Entry, EntryBounded
<1>9. ASSUME NEW v \in Request PROVE s3'[v] \in View /\ ViewBounded(s3'[v]) /\ s3'[v].stage = s3[v].stage
    <2> DEFINE w == s3[v]
               f == [w EXCEPT !.data = Dsh!Missed(w.data)]
               g == [f EXCEPT !.parts = all(w.parts)]
               h == [g EXCEPT !.computed = Dsh!Missed(w.computed)]
    <2>1. w \in View /\ ViewBounded(w)
        BY <1>2 DEF DashboardInv
    <2>2. s3'[v] = h
        BY <1>1, <2>1 DEF Dsh!MissedByAll, View
    <2> HIDE DEF w
    <2>3. w.data \in Dsh!Data /\ w.parts \in [Part -> Dsh!Data] /\ w.computed \in Dsh!Data /\ all(w.parts) \in [Part -> Dsh!Data]
        BY <1>3, <2>1 DEF View
    <2>4. f \in View /\ f.data = Dsh!Missed(w.data) /\ f.took = w.took /\ f.stage = w.stage
        BY <2>1, <2>3, MissedIs DEF View
    <2> HIDE DEF f, all
    <2>5. g \in View /\ g.data = Dsh!Missed(w.data) /\ g.parts = all(w.parts) /\ g.took = w.took /\ g.stage = w.stage
        BY <2>3, <2>4 DEF View
    <2> HIDE DEF g
    <2>6. /\ h \in View /\ h.data = Dsh!Missed(w.data) /\ h.parts = all(w.parts) /\ h.computed = Dsh!Missed(w.computed)
          /\ h.took = w.took /\ h.stage = w.stage
        BY <2>3, <2>5, MissedIs DEF View
    <2> HIDE DEF h
    <2>7. ViewBounded(h)
        BY <1>3, <2>1, <2>3, <2>6, MissedIs DEF ViewBounded
    <2> QED
        BY <2>2, <2>6, <2>7 DEF w
<1>10. s2' \in [Part -> Entry] /\ s3' \in [Request -> View]
    <2>1. DOMAIN s2' = Part /\ DOMAIN s3' = Request
        BY <1>1
    <2>2. s2' = [p \in Part |-> s2'[p]] /\ s3' = [v \in Request |-> s3'[v]]
        BY <1>1
    <2> QED
        BY <1>8, <1>9, <2>2
<1>11. s5' \in BOOLEAN /\ (~s5' => \A v \in Request : s3[v].stage = "none")
    BY <1>1, <1>2
<1>12. DashboardFresh'
    BY <1>1, <1>9, <1>11 DEF DashboardFresh
<1> QED
    BY <1>1, <1>5, <1>7, <1>8, <1>9, <1>10, <1>11, <1>12 DEF DashboardInv

LEMMA DashboardInvalidates == ASSUME DashboardInv, Dsh!Invalidate PROVE DashboardInv'
<1>1. PICK k \in s4 :
        /\ s4' = s4 \ {k}
        /\ s1' = IF k = "metrics" /\ k \in Dsh!Keys THEN Dsh!NoMetrics ELSE s1
        /\ s2' = IF k \in Part \cap Dsh!Keys THEN [s2 EXCEPT ![k] = Dsh!Missing] ELSE s2
        /\ s5' = (s5 \/ \E v \in Request : s3[v].stage # "none")
        /\ s3' = s3
    BY DEF Dsh!Invalidate, Dsh!Working
<1>2. (k = "metrics" => s1' = Dsh!NoMetrics) /\ (k # "metrics" => s1' = s1)
    BY <1>1 DEF Dsh!Keys
<1>3. s2' \in [Part -> Entry] /\ \A p \in Part : s2'[p] = IF p = k THEN Dsh!Missing ELSE s2[p]
    <2>1. CASE k \in Part
        <3>1. s2' = [s2 EXCEPT ![k] = Dsh!Missing]
            BY <1>1, <2>1 DEF Dsh!Keys
        <3> QED
            BY <2>1, <3>1, NothingKept DEF DashboardInv
    <2>2. CASE k \notin Part
        BY <1>1, <2>2 DEF DashboardInv
    <2> QED
        BY <2>1, <2>2
<1>4. s1' \in Metrics /\ MetricsBounded(s1')
    BY <1>2, NothingKept DEF DashboardInv
<1>5. \A p \in Part : EntryBounded(s2'[p], p)
    BY <1>3, NothingKept DEF DashboardInv
<1>6. s5' \in BOOLEAN /\ (~s5' => ~s5 /\ \A v \in Request : s3[v].stage = "none") /\ s4' \subseteq Part \cup {"metrics"}
    BY <1>1 DEF DashboardInv
<1>7. DashboardFresh'
    <2> SUFFICES ASSUME ~s5'
                 PROVE  /\ s1'.data.stale => "metrics" \in s4'
                        /\ \A p \in Part : (s1'.parts[p].stale => "metrics" \in s4') /\ (s2'[p].data.stale => p \in s4')
        BY <1>1, <1>6 DEF DashboardFresh
    <2>1. s1'.data.stale => "metrics" \in s4'
        BY <1>1, <1>2, <1>6, NothingKept DEF DashboardInv, DashboardFresh
    <2>2. ASSUME NEW p \in Part PROVE s1'.parts[p].stale => "metrics" \in s4'
        BY <1>1, <1>2, <1>6, NothingKept DEF DashboardInv, DashboardFresh
    <2>3. ASSUME NEW p \in Part PROVE s2'[p].data.stale => p \in s4'
        BY <1>1, <1>3, <1>6, NothingKept DEF DashboardInv, DashboardFresh
    <2> QED
        BY <2>1, <2>2, <2>3
<1> QED
    BY <1>1, <1>3, <1>4, <1>5, <1>6, <1>7 DEF DashboardInv

LEMMA DashboardStops == ASSUME DashboardInv, Dsh!InvalidateFails \/ UNCHANGED records PROVE DashboardInv'
<1>1. CASE Dsh!InvalidateFails
    BY <1>1 DEF Dsh!InvalidateFails, DashboardInv, DashboardFresh
<1>2. CASE UNCHANGED records
    BY <1>2 DEF records, DashboardInv, DashboardFresh
<1> QED
    BY <1>1, <1>2

LEMMA DashboardTick == ASSUME DashboardInv, Dsh!Tick PROVE DashboardInv'
<1> DEFINE all(included) == [p \in Part |-> Dsh!Older(included[p])]
           m == [left |-> s1.left - 1, data |-> Dsh!Older(s1.data), parts |-> all(s1.parts)]
<1>1. /\ \A v \in Request : s3[v].stage # "none" => s3[v].took < MaxDelay
      /\ s1' = IF s1.left <= 1 THEN Dsh!NoMetrics ELSE m
      /\ s2' = [p \in Part |-> IF s2[p].left <= 1 THEN Dsh!Missing
                               ELSE [left |-> s2[p].left - 1, data |-> Dsh!Older(s2[p].data)]]
      /\ s3' = [v \in Request |->
                  IF s3[v].stage # "none"
                  THEN [s3[v] EXCEPT !.took = @ + 1, !.data = Dsh!Older(@), !.parts = Dsh!AllOlder(@), !.computed = Dsh!Older(@)]
                  ELSE s3[v]]
      /\ s4' = s4 /\ s5' = s5
    BY DEF Dsh!Tick, Dsh!Working, Dsh!AllOlder
<1>2. s1 \in Metrics /\ s2 \in [Part -> Entry] /\ s3 \in [Request -> View]
    BY DEF DashboardInv
<1>3. ASSUME NEW ps \in [Part -> Dsh!Data]
      PROVE  /\ all(ps) \in [Part -> Dsh!Data]
             /\ \A p \in Part : /\ all(ps)[p] = Dsh!Older(ps[p])
                                /\ all(ps)[p].age <= ps[p].age + 1 /\ all(ps)[p].stale = ps[p].stale
    BY OlderIs
<1>4. s1.left \in Nat /\ s1.data \in Dsh!Data /\ s1.parts \in [Part -> Dsh!Data] /\ all(s1.parts) \in [Part -> Dsh!Data]
    BY <1>2, <1>3 DEF Metrics
<1>5. ASSUME ~(s1.left <= 1)
      PROVE  /\ m \in Metrics /\ MetricsBounded(m) /\ (m.data.stale = s1.data.stale)
             /\ \A p \in Part : m.parts[p].stale = s1.parts[p].stale
    <2>1. m.left = s1.left - 1 /\ m.data = Dsh!Older(s1.data) /\ m.parts = all(s1.parts)
        OBVIOUS
    <2>2. s1.left - 1 \in Nat /\ s1.left - 1 >= 1
        BY <1>4, <1>5
    <2>3. m \in Metrics
        BY <1>4, <2>2, OlderIs DEF Metrics
    <2> HIDE DEF m
    <2>4. m.left \in Nat /\ m.left >= 1 /\ m.left <= TTL_METRICS
        BY <1>4, <2>1, <2>2, DashboardNumbers DEF DashboardInv, MetricsBounded
    <2>5. m.data.age + m.left <= TTL_METRICS + MaxDelay
        <3>1. s1.data.age \in Int /\ m.data.age \in Int /\ m.data.age <= s1.data.age + 1
            BY <1>4, <2>1, OlderIs, DataIs
        <3>2. s1.data.age + s1.left <= TTL_METRICS + MaxDelay
            BY DEF DashboardInv, MetricsBounded
        <3> QED
            BY <1>4, <2>1, <3>1, <3>2, DashboardNumbers
    <2>6. ASSUME NEW p \in Part PROVE m.parts[p].age + m.left < TTL_PART[p] + TTL_METRICS + 2 * MaxDelay
        <3>1. s1.parts[p] \in Dsh!Data /\ m.parts[p] = Dsh!Older(s1.parts[p])
            BY <1>4, <2>1
        <3>2. s1.parts[p].age \in Int /\ m.parts[p].age \in Int /\ m.parts[p].age <= s1.parts[p].age + 1
            BY <3>1, OlderIs, DataIs
        <3>3. s1.parts[p].age + s1.left < TTL_PART[p] + TTL_METRICS + 2 * MaxDelay
            BY DEF DashboardInv, MetricsBounded
        <3> QED
            BY <1>4, <2>1, <3>2, <3>3, DashboardNumbers
    <2>7. m.data.stale = s1.data.stale /\ \A p \in Part : m.parts[p].stale = s1.parts[p].stale
        BY <1>3, <1>4, <2>1, OlderIs
    <2> QED
        BY <2>3, <2>4, <2>5, <2>6, <2>7 DEF MetricsBounded
<1> HIDE DEF m
<1>6. /\ s1' \in Metrics /\ MetricsBounded(s1') /\ (s1'.data.stale => s1.data.stale)
      /\ \A p \in Part : s1'.parts[p].stale => s1.parts[p].stale
    BY <1>1, <1>5, NothingKept
<1>7. ASSUME NEW p \in Part PROVE s2'[p] \in Entry /\ EntryBounded(s2'[p], p) /\ (s2'[p].data.stale => s2[p].data.stale)
    <2> DEFINE e == [left |-> s2[p].left - 1, data |-> Dsh!Older(s2[p].data)]
    <2>1. s2[p] \in Entry /\ EntryBounded(s2[p], p) /\ s2[p].left \in Nat /\ s2[p].data \in Dsh!Data
        BY <1>2 DEF DashboardInv, Entry
    <2>2. CASE s2[p].left <= 1
        <3>1. s2'[p] = Dsh!Missing
            BY <1>1, <2>2
        <3> QED
            BY <3>1, NothingKept
    <2>3. CASE ~(s2[p].left <= 1)
        <3>1. s2'[p] = e
            BY <1>1, <2>3
        <3>2. e.left = s2[p].left - 1 /\ e.data = Dsh!Older(s2[p].data) /\ s2[p].left - 1 \in Nat /\ s2[p].left - 1 >= 1
            BY <2>1, <2>3
        <3>3. e \in Entry
            BY <2>1, <3>2, OlderIs DEF Entry
        <3> HIDE DEF e
        <3>4. e.data.age \in Int /\ s2[p].data.age \in Int /\ e.data.age <= s2[p].data.age + 1 /\ e.data.stale = s2[p].data.stale
            BY <2>1, <3>2, OlderIs, DataIs
        <3>5. EntryBounded(e, p)
            BY <2>1, <3>2, <3>4, DashboardNumbers DEF EntryBounded
        <3> QED
            BY <3>1, <3>3, <3>4, <3>5
    <2> QED
        BY <2>2, <2>3
<1>8. ASSUME NEW v \in Request
      PROVE  s3'[v] \in View /\ ViewBounded(s3'[v]) /\ s3'[v].stage = s3[v].stage /\ (ViewFresh(s3[v]) => ViewFresh(s3'[v]))
    <2>1. CASE s3[v].stage = "none"
        <3>1. s3'[v] = s3[v]
            BY <1>1, <2>1
        <3> QED
            BY <1>2, <3>1 DEF DashboardInv
    <2>2. CASE s3[v].stage # "none"
        <3> DEFINE w == s3[v]
                   t == [w EXCEPT !.took = @ + 1]
                   f == [t EXCEPT !.data = Dsh!Older(w.data)]
                   g == [f EXCEPT !.parts = all(w.parts)]
                   h == [g EXCEPT !.computed = Dsh!Older(w.computed)]
        <3>1. w \in View /\ ViewBounded(w) /\ w.stage = "counted" /\ w.took < MaxDelay /\ w.took \in Nat
            <4>1. w \in View /\ ViewBounded(w) /\ w.took < MaxDelay /\ w.stage # "none"
                BY <1>1, <1>2, <2>2 DEF DashboardInv
            <4> HIDE DEF w
            <4>2. w.stage = "counted" /\ w.took \in Nat
                BY <4>1, DashboardNumbers DEF View
            <4> QED
                BY <4>1, <4>2
        <3>2. s3'[v] = h
            BY <1>1, <2>2, <3>1 DEF Dsh!AllOlder, View
        <3> HIDE DEF w
        <3>3. /\ w.data \in Dsh!Data /\ w.parts \in [Part -> Dsh!Data] /\ w.computed \in Dsh!Data
              /\ all(w.parts) \in [Part -> Dsh!Data] /\ w.took + 1 \in 0..MaxDelay
            BY <1>3, <3>1, DashboardNumbers DEF View
        <3>4. t \in View /\ t.took = w.took + 1 /\ t.stage = w.stage
            BY <3>1, <3>3 DEF View
        <3> HIDE DEF t
        <3>5. f \in View /\ f.data = Dsh!Older(w.data) /\ f.took = w.took + 1 /\ f.stage = w.stage
            BY <3>3, <3>4, OlderIs DEF View
        <3> HIDE DEF f
        <3>6. g \in View /\ g.data = Dsh!Older(w.data) /\ g.parts = all(w.parts) /\ g.took = w.took + 1 /\ g.stage = w.stage
            <4> HIDE DEF all
            <4> QED
                BY <3>3, <3>5 DEF View
        <3> HIDE DEF g
        <3>7. /\ h \in View /\ h.data = Dsh!Older(w.data) /\ h.parts = all(w.parts) /\ h.computed = Dsh!Older(w.computed)
              /\ h.took = w.took + 1 /\ h.stage = w.stage
            <4> HIDE DEF all
            <4> QED
                BY <3>3, <3>6, OlderIs DEF View
        <3> HIDE DEF h
        <3>8. h.data.age <= h.took /\ h.computed.age <= h.took
            <4>1. /\ w.data.age \in Int /\ h.data.age \in Int /\ h.data.age <= w.data.age + 1
                  /\ w.computed.age \in Int /\ h.computed.age \in Int /\ h.computed.age <= w.computed.age + 1
                BY <3>3, <3>7, OlderIs, DataIs
            <4> QED
                BY <3>1, <3>7, <4>1 DEF ViewBounded
        <3>9. ASSUME NEW p \in Part PROVE h.parts[p].age < TTL_PART[p] + MaxDelay + h.took
            <4>1. w.parts[p] \in Dsh!Data /\ h.parts[p] = Dsh!Older(w.parts[p])
                BY <3>3, <3>7
            <4>2. w.parts[p].age \in Int /\ h.parts[p].age \in Int /\ h.parts[p].age <= w.parts[p].age + 1
                BY <4>1, OlderIs, DataIs
            <4>3. w.parts[p].age < TTL_PART[p] + MaxDelay + w.took
                BY <3>1 DEF ViewBounded
            <4> QED
                BY <3>1, <3>7, <4>2, <4>3, DashboardNumbers
        <3>10. ViewBounded(h)
            BY <3>8, <3>9 DEF ViewBounded
        <3>11. ViewFresh(w) => ViewFresh(h)
            BY <1>3, <3>3, <3>7, OlderIs DEF ViewFresh
        <3> QED
            BY <3>2, <3>7, <3>10, <3>11 DEF w
    <2> QED
        BY <2>1, <2>2
<1>9. s2' \in [Part -> Entry] /\ s3' \in [Request -> View]
    <2>1. s2' = [p \in Part |-> s2'[p]] /\ s3' = [v \in Request |-> s3'[v]]
        BY <1>1
    <2> QED
        BY <1>7, <1>8, <2>1
<1>10. DashboardFresh'
    BY <1>1, <1>6, <1>7, <1>8 DEF DashboardInv, DashboardFresh
<1> QED
    BY <1>1, <1>6, <1>7, <1>8, <1>9, <1>10 DEF DashboardInv

LEMMA DashboardStep == ASSUME DashboardInv, Dsh!Next \/ UNCHANGED records PROVE DashboardInv'
    BY DashboardMiss, DashboardPartHit, DashboardPartRead, DashboardPartSet, DashboardAnswer, DashboardChange,
       DashboardInvalidates, DashboardStops, DashboardTick DEF Dsh!Next

LEMMA DashboardIsRight == DashboardInv => Dsh!TypeOK /\ Dsh!DashboardIsFresh
<1> SUFFICES ASSUME DashboardInv PROVE Dsh!TypeOK /\ Dsh!DashboardIsFresh
    OBVIOUS
<1>1. /\ s1 \in Metrics /\ MetricsBounded(s1) /\ s2 \in [Part -> Entry] /\ s3 \in [Request -> View]
      /\ s4 \subseteq Part \cup {"metrics"} /\ s5 \in BOOLEAN
    BY DEF DashboardInv
<1>2. /\ s1.left \in 0..TTL_METRICS /\ s1.data \in Dsh!Data /\ s1.data.age \in Int
      /\ \A p \in Part : s1.parts[p] \in Dsh!Data /\ s1.parts[p].age \in Int
    BY <1>1, DataIs, DashboardNumbers DEF Metrics, MetricsBounded
<1>3. ASSUME NEW p \in Part PROVE s2[p].left \in 0..TTL_PART[p] /\ s2[p].data \in Dsh!Data /\ s2[p].data.age < TTL_PART[p] + MaxDelay
    <2>1. s2[p] \in Entry /\ EntryBounded(s2[p], p)
        BY <1>1 DEF DashboardInv
    <2>2. s2[p].left \in Nat /\ s2[p].data \in Dsh!Data /\ s2[p].data.age \in Int
        BY <2>1, DataIs DEF Entry
    <2> QED
        BY <2>1, <2>2, DataIs, DashboardNumbers DEF EntryBounded
<1>4. \A v \in Request : s3[v].stage \in {"none", "counted"} /\ s3[v].took \in 0..MaxDelay
    BY <1>1 DEF View
<1>5. s1.data.age < TTL_METRICS + MaxDelay
    BY <1>1, <1>2, DataIs, DashboardNumbers DEF MetricsBounded
<1>6. ASSUME NEW p \in Part PROVE s1.parts[p].age < TTL_PART[p] + TTL_METRICS + 2 * MaxDelay
    BY <1>1, <1>2, DataIs, DashboardNumbers DEF MetricsBounded
<1>7. Dsh!AgeIsBounded
    BY <1>3, <1>5, <1>6 DEF Dsh!AgeIsBounded
<1>8. Dsh!InvalidatedIsGone
    BY DEF DashboardInv, DashboardFresh, Dsh!InvalidatedIsGone
<1>9. Dsh!TypeOK
    BY <1>1, <1>2, <1>3, <1>4 DEF Dsh!TypeOK
<1> QED
    BY <1>7, <1>8, <1>9 DEF Dsh!DashboardIsFresh

(***************************************************************************)
(* Handoffs: the row s1, the requests s2, the reader s3, who has resolved   *)
(* it s4, whether two requests have overlapped s5.                          *)
(***************************************************************************)
HandoffRequest == {NoRecordRequest} \cup [op : {"read", "resolve", "delete"}, loaded : Hnd!Row]

\* What a request has loaded of a row that is now row: who has read it stays,
\* and it is not pending again.
HandoffLoaded(q, row) ==
    q.op # "none" =>
        /\ q.op \in {"read", "resolve", "delete"} /\ q.loaded \in Hnd!Row /\ ~q.loaded.deleted
        /\ q.op = "read" => q.loaded.readBy = Nobody
        /\ q.loaded.status # "pendente" => q.loaded.readBy # Nobody
        /\ q.loaded.status # "pendente" => row.status # "pendente"
        /\ q.loaded.readBy # Nobody => row.readBy # Nobody

HandoffSerial ==
    ~s5 =>
        /\ \A u, v \in Request : s2[u].op # "none" /\ s2[v].op # "none" => u = v
        /\ \A u \in Request : s2[u].op # "none" => s2[u].loaded = s1

HandoffInv ==
    /\ Hnd!TypeOK /\ Hnd!HandoffsAreSound
    /\ s2 \in [Request -> HandoffRequest]
    /\ \A u \in Request : HandoffLoaded(s2[u], s1)
    /\ HandoffSerial

LEMMA HandoffInit == Hnd!Init => HandoffInv
<1> SUFFICES ASSUME Hnd!Init PROVE HandoffInv
    OBVIOUS
<1>1. /\ s1 = [status |-> "pendente", readBy |-> Nobody, resolvedBy |-> Nobody, deleted |-> FALSE]
      /\ s2 = [u \in Request |-> NoRecordRequest] /\ s3 = Nobody /\ s4 = {} /\ s5 = FALSE
    BY DEF Hnd!Init, NoRecordRequest
<1>2. \A u \in Request : s2[u] = NoRecordRequest
    BY <1>1
<1>3. s1 \in Hnd!Row /\ s1.status = "pendente" /\ s1.readBy = Nobody /\ s1.resolvedBy = Nobody
    BY <1>1 DEF Hnd!Row, Hnd!Who
<1>4. Hnd!TypeOK
    BY <1>1, <1>3 DEF Hnd!TypeOK, Hnd!Who
<1>5. Hnd!HandoffsAreSound
    BY <1>1, <1>3 DEF Hnd!HandoffsAreSound, Hnd!ReadBeforeResolved, Hnd!ResolvedForGood
<1>6. s2 \in [Request -> HandoffRequest]
    BY <1>1 DEF HandoffRequest
<1>7. (\A u \in Request : HandoffLoaded(s2[u], s1)) /\ HandoffSerial
    BY <1>2, NoRecordRequestIs DEF HandoffLoaded, HandoffSerial
<1> QED
    BY <1>4, <1>5, <1>6, <1>7 DEF HandoffInv

LEMMA HandoffBegins ==
    ASSUME HandoffInv, NEW u \in Request, NEW op \in {"read", "resolve", "delete"}, Hnd!Begin(u, op),
           op = "read" => Hnd!Unread(s1)
    PROVE  HandoffInv'
<1> DEFINE r == [op |-> op, loaded |-> s1]
<1>1. /\ s2[u].op = "none" /\ ~s1.deleted /\ s2' = [s2 EXCEPT ![u] = r]
      /\ s5' = (s5 \/ \E v \in Request : s2[v].op # "none")
      /\ s1' = s1 /\ s3' = s3 /\ s4' = s4
    BY DEF Hnd!Begin, Hnd!Idle
<1>2. s1 \in Hnd!Row
    BY DEF HandoffInv, Hnd!TypeOK
<1>3. r \in HandoffRequest /\ HandoffLoaded(r, s1) /\ r.loaded = s1
    BY <1>1, <1>2 DEF HandoffInv, Hnd!HandoffsAreSound, Hnd!ReadBeforeResolved, HandoffRequest, HandoffLoaded, Hnd!Unread
<1> HIDE DEF r
<1>4. s2' \in [Request -> HandoffRequest] /\ s2'[u] = r /\ \A v \in Request : v # u => s2'[v] = s2[v]
    BY <1>1, <1>3, RequestSet DEF HandoffInv
<1>5. s5' \in BOOLEAN /\ (~s5' => ~s5 /\ \A v \in Request : s2[v].op = "none")
    BY <1>1 DEF HandoffInv, Hnd!TypeOK
<1>6. Hnd!TypeOK'
    BY <1>1, <1>4, <1>5 DEF HandoffInv, Hnd!TypeOK
<1>7. Hnd!HandoffsAreSound'
    BY <1>1, <1>5 DEF HandoffInv, Hnd!HandoffsAreSound, Hnd!ReadBeforeResolved, Hnd!ResolvedForGood, Hnd!Pending
<1>8. \A v \in Request : HandoffLoaded(s2'[v], s1')
    BY <1>1, <1>3, <1>4 DEF HandoffInv
<1>9. HandoffSerial'
    BY <1>1, <1>3, <1>4, <1>5 DEF HandoffSerial
<1> QED
    BY <1>4, <1>6, <1>7, <1>8, <1>9 DEF HandoffInv

\* What a commit leaves of the row.
LEMMA HandoffWritten ==
    ASSUME HandoffInv, NEW u \in Request, s2[u].op # "none", NEW new \in Hnd!Row
    PROVE  LET w == Hnd!Written(u, new)
               l == s2[u].loaded
           IN  /\ w \in Hnd!Row
               /\ w.status = (IF new.status # l.status THEN new.status ELSE s1.status)
               /\ w.readBy = (IF new.readBy # l.readBy THEN new.readBy ELSE s1.readBy)
               /\ w.resolvedBy = (IF new.resolvedBy # l.resolvedBy THEN new.resolvedBy ELSE s1.resolvedBy)
               /\ w.deleted = (IF new.deleted # l.deleted THEN new.deleted ELSE s1.deleted)
<1> DEFINE w == Hnd!Written(u, new)
           l == s2[u].loaded
<1>1. s1 \in Hnd!Row /\ l \in Hnd!Row
    BY DEF HandoffInv, Hnd!TypeOK, HandoffLoaded
<1>2. DOMAIN s1 = {"status", "readBy", "resolvedBy", "deleted"}
    BY <1>1 DEF Hnd!Row
<1>3. w = [c \in {"status", "readBy", "resolvedBy", "deleted"} |-> IF new[c] # l[c] THEN new[c] ELSE s1[c]]
    BY <1>2 DEF Hnd!Written
<1> HIDE DEF w, l
<1>4. /\ w.status = (IF new.status # l.status THEN new.status ELSE s1.status)
      /\ w.readBy = (IF new.readBy # l.readBy THEN new.readBy ELSE s1.readBy)
      /\ w.resolvedBy = (IF new.resolvedBy # l.resolvedBy THEN new.resolvedBy ELSE s1.resolvedBy)
      /\ w.deleted = (IF new.deleted # l.deleted THEN new.deleted ELSE s1.deleted)
    BY <1>3
<1>5. w = [status |-> w.status, readBy |-> w.readBy, resolvedBy |-> w.resolvedBy, deleted |-> w.deleted]
    BY <1>3
<1>6. w.status \in {"pendente", "lido", "resolvido"} /\ w.readBy \in Hnd!Who /\ w.resolvedBy \in Hnd!Who /\ w.deleted \in BOOLEAN
    BY <1>1, <1>4 DEF Hnd!Row
<1>7. w \in Hnd!Row
    BY <1>5, <1>6 DEF Hnd!Row
<1> QED
    BY <1>4, <1>7 DEF w, l

\* The end of a request that leaves who has read the row, and a row that is
\* sound.
LEMMA HandoffEnds ==
    ASSUME HandoffInv, NEW u \in Request, s2[u].op # "none", Hnd!Finish(u), s5' = s5,
           s1' \in Hnd!Row, s3' \in Hnd!Who, s4' \subseteq Request,
           s1.status # "pendente" => s1'.status # "pendente", s1.readBy # Nobody => s1'.readBy # Nobody,
           Hnd!ReadBeforeResolved',
           ~s5 => (s4' # {} => ~Hnd!Pending') /\ (s3' # Nobody => s1'.readBy = s3')
    PROVE  HandoffInv'
<1>1. NoRecordRequest \in HandoffRequest /\ s2' = [s2 EXCEPT ![u] = NoRecordRequest]
    BY DEF Hnd!Finish, NoRecordRequest, HandoffRequest
<1>2. s2' \in [Request -> HandoffRequest] /\ s2'[u] = NoRecordRequest /\ \A v \in Request : v # u => s2'[v] = s2[v]
    BY <1>1, RequestSet DEF HandoffInv
<1>3. Hnd!TypeOK'
    BY <1>2 DEF HandoffInv, Hnd!TypeOK
<1>4. Hnd!HandoffsAreSound'
    BY DEF Hnd!HandoffsAreSound, Hnd!ResolvedForGood
<1>5. ASSUME NEW v \in Request PROVE HandoffLoaded(s2'[v], s1')
    BY <1>2, NoRecordRequestIs DEF HandoffInv, HandoffLoaded
<1>6. HandoffSerial'
    <2> SUFFICES ASSUME ~s5 PROVE \A v \in Request : s2'[v].op = "none"
        BY DEF HandoffSerial
    <2> QED
        BY <1>2, NoRecordRequestIs DEF HandoffInv, HandoffSerial
<1> QED
    BY <1>2, <1>3, <1>4, <1>5, <1>6 DEF HandoffInv

LEMMA HandoffFacts ==
    ASSUME HandoffInv, NEW u \in Request, s2[u].op # "none"
    PROVE  /\ s1 \in Hnd!Row /\ s2[u].loaded \in Hnd!Row /\ s3 \in Hnd!Who /\ s4 \subseteq Request
           /\ HandoffLoaded(s2[u], s1) /\ Hnd!ReadBeforeResolved
           /\ u \in Hnd!Who /\ u # Nobody
           /\ ~s5 => /\ s2[u].loaded = s1 /\ (s4 # {} => ~Hnd!Pending) /\ (s3 # Nobody => s1.readBy = s3)
    BY NamesAssumption DEF HandoffInv, Hnd!TypeOK, Hnd!HandoffsAreSound, Hnd!ResolvedForGood, HandoffSerial, HandoffLoaded,
       NamesAssumption, Hnd!Who

LEMMA HandoffRead == ASSUME HandoffInv, NEW u \in Request, Hnd!ReadCommit(u) PROVE HandoffInv'
<1> DEFINE l == s2[u].loaded
           e == [l EXCEPT !.readBy = u]
           new == [e EXCEPT !.status = "lido"]
<1>1. /\ s2[u].op = "read" /\ s1' = Hnd!Written(u, new) /\ s3' = (IF s3 = Nobody THEN u ELSE s3)
      /\ Hnd!Finish(u) /\ s4' = s4 /\ s5' = s5
    BY DEF Hnd!ReadCommit, Hnd!FirstReader
<1>2. /\ s1 \in Hnd!Row /\ l \in Hnd!Row /\ s3 \in Hnd!Who /\ s4 \subseteq Request
      /\ HandoffLoaded(s2[u], s1) /\ Hnd!ReadBeforeResolved /\ u \in Hnd!Who /\ u # Nobody
      /\ ~s5 => /\ l = s1 /\ (s4 # {} => ~Hnd!Pending) /\ (s3 # Nobody => s1.readBy = s3)
    BY <1>1, HandoffFacts
<1>3. l.readBy = Nobody /\ l.status = "pendente" /\ ~l.deleted
    BY <1>1, <1>2 DEF HandoffLoaded, Hnd!Row
<1> HIDE DEF l
<1>4. e \in Hnd!Row /\ e.readBy = u /\ e.status = l.status /\ e.resolvedBy = l.resolvedBy /\ e.deleted = l.deleted
    BY <1>2 DEF Hnd!Row
<1> HIDE DEF e
<1>5. new \in Hnd!Row /\ new.readBy = u /\ new.status = "lido" /\ new.resolvedBy = l.resolvedBy /\ new.deleted = l.deleted
    BY <1>4 DEF Hnd!Row
<1> HIDE DEF new
<1>6. /\ s1' \in Hnd!Row /\ s1'.status = "lido" /\ s1'.readBy = u /\ s1'.resolvedBy = s1.resolvedBy
      /\ s1'.deleted = s1.deleted
    BY <1>1, <1>2, <1>3, <1>5, HandoffWritten DEF l
<1>7. Hnd!ReadBeforeResolved'
    BY <1>1, <1>2, <1>6 DEF Hnd!ReadBeforeResolved
<1>8. ~s5 => (s4' # {} => ~Hnd!Pending') /\ (s3' # Nobody => s1'.readBy = s3')
    BY <1>1, <1>2, <1>3, <1>6 DEF Hnd!Pending
<1>9. s3' \in Hnd!Who
    BY <1>1, <1>2
<1> QED
    BY <1>1, <1>2, <1>6, <1>7, <1>8, <1>9, HandoffEnds

LEMMA HandoffResolved == ASSUME HandoffInv, NEW u \in Request, Hnd!ResolveCommit(u) PROVE HandoffInv'
<1> DEFINE l == s2[u].loaded
           new == Hnd!Resolved(l, u)
<1>1. /\ s2[u].op = "resolve" /\ s1' = Hnd!Written(u, new)
      /\ s3' = (IF l.readBy = Nobody /\ s3 = Nobody THEN u ELSE s3)
      /\ s4' = s4 \cup {u} /\ Hnd!Finish(u) /\ s5' = s5
    BY DEF Hnd!ResolveCommit, Hnd!FirstReader
<1>2. /\ s1 \in Hnd!Row /\ l \in Hnd!Row /\ s3 \in Hnd!Who /\ s4 \subseteq Request
      /\ HandoffLoaded(s2[u], s1) /\ Hnd!ReadBeforeResolved /\ u \in Hnd!Who /\ u # Nobody
      /\ ~s5 => /\ l = s1 /\ (s4 # {} => ~Hnd!Pending) /\ (s3 # Nobody => s1.readBy = s3)
    BY <1>1, HandoffFacts
<1>3. /\ ~l.deleted /\ (l.status # "pendente" => s1.status # "pendente")
      /\ l.readBy # Nobody => s1.readBy # Nobody
    BY <1>1, <1>2 DEF HandoffLoaded
<1> HIDE DEF l
<1>4. /\ new \in Hnd!Row /\ new.status = "resolvido" /\ new.resolvedBy = u /\ new.deleted = l.deleted
      /\ new.readBy = IF l.readBy = Nobody THEN u ELSE l.readBy
    <2> DEFINE e == [l EXCEPT !.status = "resolvido"]
               f == [e EXCEPT !.resolvedBy = u]
               g == [f EXCEPT !.readBy = IF @ = Nobody THEN u ELSE @]
    <2>1. e \in Hnd!Row /\ e.status = "resolvido" /\ e.readBy = l.readBy /\ e.deleted = l.deleted
        BY <1>2 DEF Hnd!Row
    <2>2. new = g
        BY DEF Hnd!Resolved
    <2> HIDE DEF e, new
    <2>3. f \in Hnd!Row /\ f.status = "resolvido" /\ f.readBy = l.readBy /\ f.deleted = l.deleted /\ f.resolvedBy = u
        BY <1>2, <2>1 DEF Hnd!Row
    <2> HIDE DEF f
    <2>4. (IF f.readBy = Nobody THEN u ELSE f.readBy) \in Hnd!Who
        BY <1>2, <2>3 DEF Hnd!Row
    <2>5. /\ g \in Hnd!Row /\ g.status = "resolvido" /\ g.deleted = l.deleted /\ g.resolvedBy = u
          /\ g.readBy = IF l.readBy = Nobody THEN u ELSE l.readBy
        BY <2>3, <2>4 DEF Hnd!Row
    <2> QED
        BY <2>2, <2>5
<1> HIDE DEF new
<1>5. /\ s1' \in Hnd!Row
      /\ s1'.status = (IF "resolvido" # l.status THEN "resolvido" ELSE s1.status)
      /\ s1'.readBy = (IF l.readBy = Nobody THEN u ELSE s1.readBy)
      /\ s1'.resolvedBy = (IF u # l.resolvedBy THEN u ELSE s1.resolvedBy)
      /\ s1'.deleted = s1.deleted
    BY <1>1, <1>2, <1>4, HandoffWritten DEF l
<1>6. Hnd!ReadBeforeResolved'
    BY <1>1, <1>2, <1>3, <1>5 DEF Hnd!ReadBeforeResolved
<1>7. ~s5 => (s4' # {} => ~Hnd!Pending') /\ (s3' # Nobody => s1'.readBy = s3')
    BY <1>1, <1>2, <1>3, <1>5 DEF Hnd!Pending
<1>8. s3' \in Hnd!Who /\ s4' \subseteq Request
    BY <1>1, <1>2
<1>9. (s1.status # "pendente" => s1'.status # "pendente") /\ (s1.readBy # Nobody => s1'.readBy # Nobody)
    BY <1>2, <1>3, <1>5
<1> QED
    BY <1>1, <1>5, <1>6, <1>7, <1>8, <1>9, HandoffEnds

LEMMA HandoffDeleted == ASSUME HandoffInv, NEW u \in Request, Hnd!DeleteCommit(u) \/ Hnd!Abort(u) PROVE HandoffInv'
<1>1. CASE Hnd!DeleteCommit(u)
    <2> DEFINE l == s2[u].loaded
               new == [l EXCEPT !.deleted = TRUE]
    <2>1. /\ s2[u].op = "delete" /\ s1' = Hnd!Written(u, new) /\ Hnd!Finish(u) /\ s3' = s3 /\ s4' = s4 /\ s5' = s5
        BY <1>1 DEF Hnd!DeleteCommit
    <2>2. /\ s1 \in Hnd!Row /\ l \in Hnd!Row /\ s3 \in Hnd!Who /\ s4 \subseteq Request
          /\ HandoffLoaded(s2[u], s1) /\ Hnd!ReadBeforeResolved
          /\ ~s5 => /\ l = s1 /\ (s4 # {} => ~Hnd!Pending) /\ (s3 # Nobody => s1.readBy = s3)
        BY <2>1, HandoffFacts
    <2> HIDE DEF l
    <2>3. new \in Hnd!Row /\ new.deleted = TRUE /\ new.status = l.status /\ new.readBy = l.readBy /\ new.resolvedBy = l.resolvedBy
        BY <2>2 DEF Hnd!Row
    <2> HIDE DEF new
    <2>4. /\ s1' \in Hnd!Row /\ s1'.status = s1.status /\ s1'.readBy = s1.readBy /\ s1'.resolvedBy = s1.resolvedBy
          /\ s1.deleted => s1'.deleted
        BY <2>1, <2>3, HandoffWritten DEF l
    <2>5. Hnd!ReadBeforeResolved'
        BY <2>1, <2>2, <2>4 DEF Hnd!ReadBeforeResolved
    <2>6. ~s5 => (s4' # {} => ~Hnd!Pending') /\ (s3' # Nobody => s1'.readBy = s3')
        BY <2>1, <2>2, <2>4 DEF Hnd!Pending
    <2> QED
        BY <2>1, <2>2, <2>4, <2>5, <2>6, HandoffEnds
<1>2. CASE Hnd!Abort(u)
    <2>1. s2[u].op # "none" /\ Hnd!Finish(u) /\ s1' = s1 /\ s3' = s3 /\ s4' = s4 /\ s5' = s5
        BY <1>2 DEF Hnd!Abort, Hnd!Idle
    <2>2. /\ s1 \in Hnd!Row /\ s3 \in Hnd!Who /\ s4 \subseteq Request /\ Hnd!ReadBeforeResolved
          /\ ~s5 => (s4 # {} => ~Hnd!Pending) /\ (s3 # Nobody => s1.readBy = s3)
        BY <2>1, HandoffFacts
    <2>3. Hnd!ReadBeforeResolved' /\ (Hnd!Pending' <=> Hnd!Pending)
        BY <2>1, <2>2 DEF Hnd!ReadBeforeResolved, Hnd!Pending
    <2> QED
        BY <2>1, <2>2, <2>3, HandoffEnds
<1> QED
    BY <1>1, <1>2

LEMMA HandoffStep == ASSUME HandoffInv, Hnd!Next \/ UNCHANGED records PROVE HandoffInv'
<1>1. ASSUME NEW u \in Request, Hnd!ReadBegin(u) \/ Hnd!ResolveBegin(u) \/ Hnd!DeleteBegin(u) PROVE HandoffInv'
    BY <1>1, HandoffBegins DEF Hnd!ReadBegin, Hnd!ResolveBegin, Hnd!DeleteBegin
<1>2. CASE UNCHANGED records
    BY <1>2 DEF records, HandoffInv, Hnd!TypeOK, Hnd!HandoffsAreSound, Hnd!ReadBeforeResolved, Hnd!ResolvedForGood,
                Hnd!Pending, HandoffSerial
<1> QED
    BY <1>1, <1>2, HandoffRead, HandoffResolved, HandoffDeleted DEF Hnd!Next

(***************************************************************************)
(* Lists: the record s1, the rows s2, the saves s3, whether the record was  *)
(* deleted s4, the requests s5, the list saved last s6, whether saves have  *)
(* slipped s7, whether two requests have overlapped s8.                     *)
(***************************************************************************)
RowsOf(n) == [save : 1..n, who : Person]

Save(n) == [stage : {"none", "loaded", "deleted"}, touches : BOOLEAN, list : SUBSET Person, doomed : SUBSET RowsOf(n)]

IsWriting(u) == s5[u].stage = "deleted"

MeetingInv ==
    /\ s1 \in {"meeting", "report"} /\ s2 \subseteq RowsOf(s3) /\ s3 \in 0..MaxSave
    /\ s4 \in BOOLEAN /\ s6 \subseteq Person /\ s7 \in BOOLEAN /\ s8 \in BOOLEAN
    /\ s5 \in [Request -> Save(s3)]
    /\ s1 = "meeting" => \A r, s \in s2 : r.who = s.who => r = s
    /\ ~s7 => s2 = [save : {s3}, who : s6]
    /\ ~s7 => \A u, v \in Request : IsWriting(u) /\ IsWriting(v) => u = v
    /\ ~s7 => \A u \in Request : IsWriting(u) => s5[u].doomed = s2

LEMMA MeetingNumbers == MaxSave \in Nat /\ IsFiniteSet(Person)
    BY CapsAssumption, DataAssumption DEF CapsAssumption, DataAssumption

LEMMA NoSaveIs == ASSUME NEW n PROVE Mtg!NoSave \in Save(n) /\ Mtg!NoSave.stage = "none"
    BY DEF Mtg!NoSave, Save

LEMMA MeetingInit == Mtg!Init => MeetingInv
<1> SUFFICES ASSUME Mtg!Init PROVE MeetingInv
    OBVIOUS
<1>1. /\ s1 \in {"meeting", "report"} /\ s2 = {} /\ s3 = 0 /\ s4 = FALSE
      /\ s5 = [u \in Request |-> Mtg!NoSave] /\ s6 = {} /\ s7 = FALSE /\ s8 = FALSE
    BY DEF Mtg!Init
<1>2. \A u \in Request : ~IsWriting(u)
    BY <1>1, NoSaveIs DEF IsWriting
<1>3. s5 \in [Request -> Save(s3)]
    BY <1>1, NoSaveIs
<1>4. s3 \in 0..MaxSave
    BY <1>1, MeetingNumbers
<1>5. s2 = [save : {s3}, who : s6]
    BY <1>1
<1> QED
    BY <1>1, <1>2, <1>3, <1>4, <1>5 DEF MeetingInv

LEMMA SaveSet ==
    ASSUME MeetingInv, NEW u \in Request, NEW r \in Save(s3), s5' = [s5 EXCEPT ![u] = r]
    PROVE  /\ s5' \in [Request -> Save(s3)] /\ s5'[u] = r
           /\ \A v \in Request : v # u => s5'[v] = s5[v]
    BY DEF MeetingInv

\* A request that does not write begins, or ends.
LEMMA SaveMoves ==
    ASSUME MeetingInv, NEW u \in Request, NEW r \in Save(s3), s5' = [s5 EXCEPT ![u] = r], r.stage # "deleted",
           UNCHANGED <<s1, s2, s3, s4, s6, s7>>, s8' \in BOOLEAN
    PROVE  MeetingInv'
<1>1. s5' \in [Request -> Save(s3)] /\ \A v \in Request : IsWriting(v)' => IsWriting(v) /\ s5'[v] = s5[v]
    BY SaveSet DEF IsWriting
<1> QED
    BY <1>1 DEF MeetingInv

LEMMA MeetingBegins == ASSUME MeetingInv, NEW u \in Request, Mtg!SaveBegin(u) \/ Mtg!Abort(u) PROVE MeetingInv'
<1>1. CASE Mtg!SaveBegin(u)
    <2>1. PICK list \in SUBSET Person, touches \in BOOLEAN :
            s5' = [s5 EXCEPT ![u] = [stage |-> "loaded", touches |-> touches, list |-> list, doomed |-> {}]]
        BY <1>1 DEF Mtg!SaveBegin
    <2> DEFINE r == [stage |-> "loaded", touches |-> touches, list |-> list, doomed |-> {}]
    <2>2. UNCHANGED <<s1, s2, s3, s4, s6, s7>> /\ s8' \in BOOLEAN
        BY <1>1 DEF Mtg!SaveBegin, MeetingInv
    <2>3. r \in Save(s3) /\ r.stage # "deleted"
        BY DEF Save
    <2>4. s5' = [s5 EXCEPT ![u] = r]
        BY <2>1
    <2> HIDE DEF r
    <2> QED
        BY <2>2, <2>3, <2>4, SaveMoves
<1>2. CASE Mtg!Abort(u)
    <2>1. s5' = [s5 EXCEPT ![u] = Mtg!NoSave] /\ UNCHANGED <<s1, s2, s3, s4, s6, s7>> /\ s8' \in BOOLEAN
        BY <1>2 DEF Mtg!Abort, Mtg!Finish, MeetingInv
    <2> QED
        BY <2>1, NoSaveIs, SaveMoves
<1> QED
    BY <1>1, <1>2

LEMMA MeetingDeletes == ASSUME MeetingInv, NEW u \in Request, Mtg!SaveDelete(u) PROVE MeetingInv'
<1> DEFINE e == [s5[u] EXCEPT !.stage = "deleted"]
           r == [e EXCEPT !.doomed = s2]
           slip == \E v \in Mtg!Writing : ~s5[u].touches \/ ~s5[v].touches
<1>1. /\ s5[u].stage = "loaded" /\ (s5[u].touches => \A v \in Mtg!Writing : ~s5[v].touches)
      /\ s5' = [s5 EXCEPT ![u].stage = "deleted", ![u].doomed = s2]
      /\ s7' = (s7 \/ slip) /\ UNCHANGED <<s1, s2, s3, s4, s6, s8>>
    BY DEF Mtg!SaveDelete, Mtg!Waits, Mtg!Doomed
<1>2. s5[u] \in Save(s3) /\ s5 \in [Request -> Save(s3)] /\ s2 \subseteq RowsOf(s3) /\ s7 \in BOOLEAN
    BY DEF MeetingInv
<1>3. s5' = [s5 EXCEPT ![u] = r]
    BY <1>1, <1>2
<1>4. e \in Save(s3)
    BY <1>2 DEF Save
<1> HIDE DEF e
<1>5. r \in Save(s3) /\ r.doomed = s2
    BY <1>2, <1>4 DEF Save
<1> HIDE DEF r
<1>6. s5' \in [Request -> Save(s3)] /\ s5'[u] = r /\ \A v \in Request : v # u => s5'[v] = s5[v]
    BY <1>3, <1>5, SaveSet
<1>7. \A v \in Request : IsWriting(v) => slip
    <2> SUFFICES ASSUME NEW v \in Request, IsWriting(v) PROVE slip
        OBVIOUS
    <2>1. v \in Mtg!Writing
        BY DEF IsWriting, Mtg!Writing
    <2> QED
        BY <1>1, <2>1
<1>8. s7' \in BOOLEAN /\ (~s7' => ~s7 /\ ~slip)
    BY <1>1, <1>2
<1> HIDE DEF slip
<1>9. ~s7' => \A v \in Request : IsWriting(v)' => v = u
    BY <1>6, <1>7, <1>8 DEF IsWriting
<1> QED
    BY <1>1, <1>5, <1>6, <1>8, <1>9 DEF MeetingInv

LEMMA MeetingCommits == ASSUME MeetingInv, NEW u \in Request, Mtg!SaveCommit(u) PROVE MeetingInv'
<1> DEFINE list == s5[u].list
           kept == s2 \ s5[u].doomed
<1>1. /\ s5[u].stage = "deleted" /\ s3 < MaxSave /\ (s1 = "meeting" => \A r \in kept : r.who \notin list)
      /\ s2' = kept \cup [save : {s3 + 1}, who : list] /\ s3' = s3 + 1 /\ s6' = list
      /\ s5' = [s5 EXCEPT ![u] = Mtg!NoSave] /\ s1' = s1 /\ s4' = s4 /\ s7' = s7 /\ s8' = s8
    BY DEF Mtg!SaveCommit, Mtg!Unlisted, Mtg!Finish
<1>2. s5[u] \in Save(s3) /\ list \subseteq Person /\ s3 \in Nat /\ s2 \subseteq RowsOf(s3) /\ kept \subseteq s2
    BY MeetingNumbers DEF MeetingInv, Save
<1>3. \A x : x \in RowsOf(s3) => x \in RowsOf(s3')
    BY <1>1, <1>2 DEF RowsOf
<1>4. s5' \in [Request -> Save(s3)] /\ \A v \in Request : IsWriting(v)' => v # u /\ IsWriting(v)
    BY <1>1, NoSaveIs, SaveSet DEF IsWriting
<1>5. s5' \in [Request -> Save(s3')]
    <2>1. \A q : q \in Save(s3) => q \in Save(s3')
        BY <1>3 DEF Save
    <2> QED
        BY <1>4, <2>1
<1>6. s3' \in 0..MaxSave
    BY <1>1, <1>2, MeetingNumbers
<1>7. s2' \subseteq RowsOf(s3')
    <2>1. [save : {s3 + 1}, who : list] \subseteq RowsOf(s3')
        BY <1>1, <1>2 DEF RowsOf
    <2> QED
        BY <1>1, <1>2, <1>3, <2>1
<1>8. s1' = "meeting" => \A r, s \in s2' : r.who = s.who => r = s
    <2> SUFFICES ASSUME s1 = "meeting", NEW r \in s2', NEW s \in s2', r.who = s.who PROVE r = s
        BY <1>1
    <2>1. ASSUME NEW x \in s2', x \notin kept PROVE x \in [save : {s3 + 1}, who : list] /\ x.who \in list
        BY <1>1, <2>1
    <2>2. CASE r \in kept /\ s \in kept
        BY <1>2, <2>2 DEF MeetingInv
    <2>3. CASE r \notin kept /\ s \notin kept
        BY <2>1, <2>3
    <2>4. CASE ~(r \in kept <=> s \in kept)
        BY <1>1, <2>1, <2>4
    <2> QED
        BY <2>2, <2>3, <2>4
<1>9. ASSUME ~s7' PROVE s2' = [save : {s3'}, who : s6'] /\ \A v \in Request : ~IsWriting(v)'
    <2>1. IsWriting(u)
        BY <1>1 DEF IsWriting
    <2>2. s5[u].doomed = s2 /\ \A v \in Request : IsWriting(v) => v = u
        BY <1>1, <1>9, <2>1 DEF MeetingInv
    <2> QED
        BY <1>1, <1>4, <2>2
<1> QED
    BY <1>1, <1>2, <1>5, <1>6, <1>7, <1>8, <1>9 DEF MeetingInv

LEMMA MeetingStep == ASSUME MeetingInv, Mtg!Next \/ UNCHANGED records PROVE MeetingInv'
<1>1. ASSUME NEW u \in Request, Mtg!Delete(u) PROVE MeetingInv'
    <2>1. UNCHANGED <<s1, s2, s3, s5, s6, s7>> /\ s4' \in BOOLEAN /\ s8' \in BOOLEAN
        BY <1>1 DEF Mtg!Delete, MeetingInv
    <2> QED
        BY <2>1 DEF MeetingInv, IsWriting
<1>2. CASE UNCHANGED records
    BY <1>2 DEF records, MeetingInv, IsWriting
<1> QED
    BY <1>1, <1>2, MeetingBegins, MeetingDeletes, MeetingCommits DEF Mtg!Next

LEMMA MeetingIsRight == MeetingInv => Mtg!TypeOK /\ Mtg!ListIsWhole
<1> SUFFICES ASSUME MeetingInv PROVE Mtg!TypeOK /\ Mtg!ListIsWhole
    OBVIOUS
<1>1. Mtg!TypeOK
    <2>1. ASSUME NEW u \in Request
          PROVE  s5[u].stage \in {"none", "loaded", "deleted"} /\ s5[u].doomed \subseteq RowsOf(s3)
        BY DEF MeetingInv, Save
    <2> QED
        BY <2>1 DEF MeetingInv, RowsOf, Mtg!TypeOK
<1>2. ASSUME ~s7 PROVE Mtg!Listed = s6 /\ Mtg!Cardinality(s2) = Mtg!Cardinality(s6)
    <2>1. s2 = [save : {s3}, who : s6]
        BY <1>2 DEF MeetingInv
    <2>2. ASSUME NEW x \in s6 PROVE [save |-> s3, who |-> x] \in s2 /\ [save |-> s3, who |-> x].who = x
        BY <2>1
    <2>3. ASSUME NEW r \in s2 PROVE r = [save |-> s3, who |-> r.who] /\ r.who \in s6
        BY <2>1
    <2>4. Mtg!Listed = s6
        BY <2>2, <2>3 DEF Mtg!Listed
    <2> DEFINE f == [x \in s6 |-> [save |-> s3, who |-> x]]
    <2>5. f \in [s6 -> s2]
        BY <2>2
    <2>6. \A a, b \in s6 : f[a] = f[b] => a = b
        BY <2>2
    <2>7. \A r \in s2 : \E x \in s6 : f[x] = r
        BY <2>3
    <2>8. ExistsBijection(s6, s2)
        <3> HIDE DEF f
        <3>1. f \in Injection(s6, s2)
            BY <2>5, <2>6 DEF Injection, IsInjective
        <3>2. f \in Surjection(s6, s2)
            BY <2>5, <2>7 DEF Surjection
        <3>3. f \in Bijection(s6, s2)
            BY <3>1, <3>2 DEF Bijection
        <3> QED
            BY <3>3 DEF ExistsBijection
    <2>9. IsFiniteSet(s6)
        BY MeetingNumbers, FS_Subset DEF MeetingInv
    <2>10. Cardinality(s2) = Cardinality(s6)
        BY <2>8, <2>9, FS_Bijection
    <2> QED
        BY <2>4, <2>10 DEF Mtg!Cardinality, Cardinality
<1> QED
    BY <1>1, <1>2 DEF MeetingInv, Mtg!ListIsWhole

(***************************************************************************)
(* The registry: whether the supplier is there s1, its contacts s2, the     *)
(* contracts s3, the requests s4, whether they race s5, have overlapped s6, *)
(* whether a contract was deleted s7, and whether a number was given or     *)
(* taken by hand s8.                                                        *)
(***************************************************************************)
Numbered == [number : 0..MaxContract, deleted : BOOLEAN]

CreateRequest == [op : {"create"}, alone : BOOLEAN, primary : BOOLEAN, replaced : SUBSET Nat]

UpdateRequest ==
    [op : {"update"}, alone : BOOLEAN, id : Nat, primary : BOOLEAN, changes : BOOLEAN, replaced : SUBSET Nat]

ContractRequest == [op : {"contract"}, alone : BOOLEAN, number : Nat, byHand : BOOLEAN]

NumberRequest == [op : {"number"}, alone : BOOLEAN, id : Nat, number : Nat]

RegistryRequest == {NoRecordRequest} \cup CreateRequest \cup UpdateRequest \cup ContractRequest \cup NumberRequest

Marked(list, i) == list[i].primary /\ ~list[i].deleted

\* What the request q has seen of the contacts: when it was alone all along, it
\* will replace whatever is the primary contact now.
RegistryRight(q, list, others) ==
    /\ q.op = "create" => (~q.primary => q.replaced = {})
                          /\ (q.alone /\ q.primary => \A i \in DOMAIN list : Marked(list, i) => i \in q.replaced)
    /\ q.op = "update" => (~q.primary => q.replaced = {}) /\ q.id \in DOMAIN list /\ q.id \notin q.replaced
                          /\ (q.alone /\ q.primary => \A i \in DOMAIN list : Marked(list, i) => i \in q.replaced \/ i = q.id)
    /\ q.op = "contract" => q.number <= Len(others) + 1 \/ q.number <= MaxContract
    /\ q.op = "number" => q.id \in DOMAIN others /\ q.number <= MaxContract

Busy(u) == s4[u].op # "none"

OneMarked(list) == \A i, j \in DOMAIN list : Marked(list, i) /\ Marked(list, j) => i = j

Numbers(list) == {i \in DOMAIN list : list[i].number # 0}

\* The numbers of contracts are those up to their count, each of one contract.
InTurn(others) ==
    /\ \A i \in DOMAIN others : ~others[i].deleted /\ others[i].number <= Cardinality(Numbers(others))
    /\ \A i, j \in Numbers(others) : others[i].number = others[j].number => i = j

\* What a request that creates a contract asks for, a number of the form not being
\* given by hand.
NextNumber(q, others) == q.byHand \/ q.number = 0 \/ q.number = Cardinality(Numbers(others)) + 1

RegistrySerial ==
    /\ \A u, v \in Request : Busy(u) /\ s4[u].alone /\ Busy(v) => u = v
    /\ ~s5 => OneMarked(s2) /\ \A u \in Request : Busy(u) => s4[u].alone
    /\ ~s6 => \A u, v \in Request : Busy(u) /\ Busy(v) => u = v
    /\ ~s6 /\ ~s7 /\ ~s8 => InTurn(s3) /\ \A u \in Request : s4[u].op = "contract" => NextNumber(s4[u], s3)

RegistryInv ==
    /\ Reg!TypeOK /\ s4 \in [Request -> RegistryRequest]
    /\ \A u \in Request : RegistryRight(s4[u], s2, s3)
    /\ RegistrySerial

LEMMA RegistryNumbers == MaxContact \in Nat /\ MaxContract \in Nat
    BY CapsAssumption DEF CapsAssumption

LEMMA RegistryInit == Reg!Init => RegistryInv
<1> SUFFICES ASSUME Reg!Init PROVE RegistryInv
    OBVIOUS
<1>1. /\ s1 = TRUE /\ s2 = <<>> /\ s3 = <<>> /\ s4 = [u \in Request |-> NoRecordRequest]
      /\ s5 = FALSE /\ s6 = FALSE /\ s7 = FALSE /\ s8 = FALSE
    BY DEF Reg!Init, NoRecordRequest
<1>2. \A u \in Request : s4[u] = NoRecordRequest
    BY <1>1
<1>3. /\ s2 \in Seq(Reg!Contact) /\ Len(s2) = 0 /\ s3 \in Seq(Numbered) /\ Len(s3) = 0
      /\ DOMAIN s2 = {} /\ DOMAIN s3 = {}
    BY <1>1
<1>4. s4 \in [Request -> RegistryRequest]
    BY <1>1 DEF RegistryRequest
<1>5. Reg!TypeOK
    <2>1. Len(s2) <= MaxContact /\ Len(s3) <= MaxContract /\ DOMAIN s4 = Request
        BY <1>1, <1>3, RegistryNumbers
    <2> QED
        BY <1>1, <1>3, <2>1 DEF Reg!TypeOK, Numbered, Reg!Number
<1>6. RegistrySerial /\ \A u \in Request : RegistryRight(s4[u], s2, s3)
    BY <1>2, <1>3, NoRecordRequestIs DEF RegistryRight, RegistrySerial, Busy, OneMarked, InTurn, Numbers
<1> QED
    BY <1>4, <1>5, <1>6 DEF RegistryInv

LEMMA RegistryTypes ==
    ASSUME RegistryInv
    PROVE  /\ s1 \in BOOLEAN /\ s2 \in Seq(Reg!Contact) /\ Len(s2) <= MaxContact /\ Len(s2) \in Nat
           /\ s3 \in Seq(Numbered) /\ Len(s3) <= MaxContract /\ Len(s3) \in Nat
           /\ s4 \in [Request -> RegistryRequest] /\ s5 \in BOOLEAN /\ s6 \in BOOLEAN /\ s7 \in BOOLEAN
           /\ s8 \in BOOLEAN
           /\ DOMAIN s2 = 1..Len(s2) /\ DOMAIN s3 = 1..Len(s3)
           /\ \A i \in DOMAIN s2 : s2[i] \in Reg!Contact
           /\ \A i \in DOMAIN s3 : s3[i] \in Numbered
<1>1. /\ s1 \in BOOLEAN /\ s2 \in Seq(Reg!Contact) /\ Len(s2) <= MaxContact
      /\ s3 \in Seq(Numbered) /\ Len(s3) <= MaxContract
      /\ s4 \in [Request -> RegistryRequest] /\ s5 \in BOOLEAN /\ s6 \in BOOLEAN /\ s7 \in BOOLEAN
      /\ s8 \in BOOLEAN
    BY DEF RegistryInv, Reg!TypeOK, Numbered, Reg!Number
<1>2. Len(s2) \in Nat /\ DOMAIN s2 = 1..Len(s2) /\ \A i \in DOMAIN s2 : s2[i] \in Reg!Contact
    BY <1>1
<1>3. Len(s3) \in Nat /\ DOMAIN s3 = 1..Len(s3) /\ \A i \in DOMAIN s3 : s3[i] \in Numbered
    BY <1>1
<1> QED
    BY <1>1, <1>2, <1>3

\* A request that loses or has its solitude.
LEMMA AloneIs ==
    ASSUME NEW q \in RegistryRequest, q.op # "none", NEW a \in BOOLEAN
    PROVE  LET r == [q EXCEPT !.alone = a]
           IN  /\ r \in RegistryRequest /\ r.op = q.op /\ r.alone = a
               /\ q.op \in {"create", "update"} => r.primary = q.primary /\ r.replaced = q.replaced
               /\ q.op = "update" => r.id = q.id
               /\ q.op = "contract" => r.number = q.number /\ r.byHand = q.byHand
               /\ q.op = "number" => r.number = q.number /\ r.id = q.id
<1> DEFINE r == [q EXCEPT !.alone = a]
<1>1. CASE q \in CreateRequest
    <2>1. r \in CreateRequest /\ r.op = q.op /\ r.alone = a /\ r.primary = q.primary /\ r.replaced = q.replaced /\ q.op = "create"
        BY <1>1 DEF CreateRequest
    <2> QED
        BY <2>1 DEF RegistryRequest
<1>2. CASE q \in UpdateRequest
    <2>1. /\ r \in UpdateRequest /\ r.op = q.op /\ r.alone = a /\ r.primary = q.primary /\ r.replaced = q.replaced
          /\ r.id = q.id /\ q.op = "update"
        BY <1>2 DEF UpdateRequest
    <2> QED
        BY <2>1 DEF RegistryRequest
<1>3. CASE q \in ContractRequest
    <2>1. /\ r \in ContractRequest /\ r.op = q.op /\ r.alone = a /\ r.number = q.number /\ r.byHand = q.byHand
          /\ q.op = "contract"
        BY <1>3 DEF ContractRequest
    <2> QED
        BY <2>1 DEF RegistryRequest
<1>4. CASE q \in NumberRequest
    <2>1. r \in NumberRequest /\ r.op = q.op /\ r.alone = a /\ r.number = q.number /\ r.id = q.id /\ q.op = "number"
        BY <1>4 DEF NumberRequest
    <2> QED
        BY <2>1 DEF RegistryRequest
<1> QED
    BY <1>1, <1>2, <1>3, <1>4, NoRecordRequestIs DEF RegistryRequest

LEMMA RegistryBegins ==
    ASSUME RegistryInv, NEW u \in Request, NEW r \in RegistryRequest, r.op # "none", Reg!Begin(u, r),
           \A a \in BOOLEAN : RegistryRight([r EXCEPT !.alone = a], s2, s3),
           ~s6 /\ ~s7 /\ ~s8 => (r.op = "contract" => NextNumber(r, s3))
    PROVE  RegistryInv'
<1> DEFINE others == \E v \in Request \ {u} : Busy(v)
           a == ~others
           q == [r EXCEPT !.alone = a]
<1>1. /\ ~Busy(u)
      /\ s4' = [v \in Request |-> IF v = u THEN q ELSE IF ~Busy(v) THEN s4[v] ELSE [s4[v] EXCEPT !.alone = FALSE]]
      /\ s5' = (s5 \/ others) /\ s6' = (s6 \/ others) /\ s1' = s1 /\ s2' = s2 /\ s3' = s3 /\ s7' = s7 /\ s8' = s8
    BY DEF Reg!Begin, Reg!Idle, Reg!Others, Busy
<1>2. a \in BOOLEAN /\ (a <=> ~others) /\ s4 \in [Request -> RegistryRequest] /\ s5 \in BOOLEAN /\ s6 \in BOOLEAN
    BY RegistryTypes
<1>3. \A v \in Request : v # u /\ Busy(v) => others
    OBVIOUS
<1> HIDE DEF others, a
<1>4. /\ q \in RegistryRequest /\ q.op = r.op /\ q.alone = a
      /\ q.op = "contract" => q.number = r.number /\ q.byHand = r.byHand
    BY <1>2, AloneIs
<1>5. RegistryRight(q, s2, s3)
    BY <1>2
<1> HIDE DEF q
<1>6. s4'[u] = q
    BY <1>1
<1>7. ASSUME NEW v \in Request, v # u
      PROVE  /\ s4'[v] \in RegistryRequest /\ s4'[v].op = s4[v].op /\ RegistryRight(s4'[v], s2, s3)
             /\ s4[v].op # "none" => ~s4'[v].alone
             /\ s4[v].op = "contract" => s4'[v].number = s4[v].number /\ s4'[v].byHand = s4[v].byHand
    <2>1. s4[v] \in RegistryRequest /\ RegistryRight(s4[v], s2, s3)
        BY <1>2 DEF RegistryInv
    <2>2. CASE ~Busy(v)
        BY <1>1, <1>7, <2>1, <2>2 DEF Busy
    <2>3. CASE Busy(v)
        <3> DEFINE w == [s4[v] EXCEPT !.alone = FALSE]
        <3>1. s4'[v] = w
            BY <1>1, <1>7, <2>3
        <3>2. /\ w \in RegistryRequest /\ w.op = s4[v].op /\ w.alone = FALSE
              /\ s4[v].op \in {"create", "update"} => w.primary = s4[v].primary /\ w.replaced = s4[v].replaced
              /\ s4[v].op = "update" => w.id = s4[v].id
              /\ s4[v].op = "contract" => w.number = s4[v].number /\ w.byHand = s4[v].byHand
              /\ s4[v].op = "number" => w.number = s4[v].number /\ w.id = s4[v].id
            BY <2>1, <2>3, AloneIs DEF Busy
        <3> HIDE DEF w
        <3>3. RegistryRight(w, s2, s3)
            BY <2>1, <3>2 DEF RegistryRight
        <3> QED
            BY <3>1, <3>2, <3>3
    <2> QED
        BY <2>2, <2>3
<1>8. s4' \in [Request -> RegistryRequest]
    <2>1. s4' = [v \in Request |-> s4'[v]]
        BY <1>1
    <2>2. \A v \in Request : s4'[v] \in RegistryRequest
        BY <1>4, <1>6, <1>7
    <2> QED
        BY <2>1, <2>2
<1>9. Reg!TypeOK'
    BY <1>1, <1>2, <1>8 DEF RegistryInv, Reg!TypeOK
<1>10. \A v \in Request : RegistryRight(s4'[v], s2', s3')
    BY <1>1, <1>5, <1>6, <1>7
<1>11. \A v \in Request : Busy(v)' <=> Busy(v) \/ v = u
    BY <1>4, <1>6, <1>7 DEF Busy
<1>12. RegistrySerial'
    <2>1. \A v, w \in Request : Busy(v)' /\ s4'[v].alone /\ Busy(w)' => v = w
        BY <1>2, <1>3, <1>4, <1>6, <1>7, <1>11 DEF Busy
    <2>2. ~s5' => OneMarked(s2') /\ \A v \in Request : Busy(v)' => s4'[v].alone
        BY <1>1, <1>2, <1>3, <1>4, <1>6, <1>11 DEF RegistryInv, RegistrySerial
    <2>3. ~s6' => \A v, w \in Request : Busy(v)' /\ Busy(w)' => v = w
        BY <1>1, <1>2, <1>3, <1>11
    <2>4. ~s6' /\ ~s7' /\ ~s8' => InTurn(s3') /\ \A v \in Request : s4'[v].op = "contract" => NextNumber(s4'[v], s3')
        BY <1>1, <1>2, <1>4, <1>6, <1>7 DEF RegistryInv, RegistrySerial, NextNumber
    <2> QED
        BY <2>1, <2>2, <2>3, <2>4 DEF RegistrySerial
<1> QED
    BY <1>8, <1>9, <1>10, <1>12 DEF RegistryInv

\* The number that is generated follows those there are.
LEMMA GeneratedIs ==
    ASSUME RegistryInv
    PROVE  /\ Reg!GeneratedNumber \in Nat /\ Reg!GeneratedNumber <= Len(s3) + 1
           /\ ~s6 /\ ~s7 /\ ~s8 => Reg!GeneratedNumber = Cardinality(Numbers(s3)) + 1
<1>1. Reg!GeneratedNumber = Cardinality(Reg!Counted) + 1
    BY DEF Reg!GeneratedNumber, Reg!Cardinality, Cardinality
<1>2. DOMAIN s3 = 1..Len(s3) /\ Len(s3) \in Nat
    BY RegistryTypes
<1>3. IsFiniteSet(DOMAIN s3) /\ Cardinality(DOMAIN s3) = Len(s3)
    <2>1. IsFiniteSet(1..Len(s3)) /\ Cardinality(1..Len(s3)) = IF 1 > Len(s3) THEN 0 ELSE Len(s3) - 1 + 1
        BY <1>2, FS_Interval
    <2> QED
        BY <1>2, <2>1
<1>4. Reg!Counted \subseteq DOMAIN s3
    BY DEF Reg!Counted
<1>5. Cardinality(Reg!Counted) \in Nat /\ Cardinality(Reg!Counted) <= Len(s3)
    BY <1>3, <1>4, FS_Subset, FS_CardinalityType
<1>6. ~s6 /\ ~s7 /\ ~s8 => Reg!Counted = Numbers(s3)
    BY DEF RegistryInv, RegistrySerial, InTurn, Reg!Counted, Numbers
<1> QED
    BY <1>1, <1>2, <1>5, <1>6

LEMMA RegistryAsks ==
    ASSUME RegistryInv, NEW u \in Request, Reg!CreateBegin(u) \/ Reg!UpdateBegin(u) \/ Reg!ContractBegin(u) \/ Reg!NumberBegin(u)
    PROVE  RegistryInv'
<1>1. CASE Reg!CreateBegin(u)
    <2>1. PICK primary \in BOOLEAN :
            Reg!Begin(u, [op |-> "create", alone |-> TRUE, primary |-> primary,
                          replaced |-> IF primary THEN Reg!Replaced(0) ELSE {}])
        BY <1>1 DEF Reg!CreateBegin
    <2> DEFINE set == IF primary THEN Reg!Replaced(0) ELSE {}
               r == [op |-> "create", alone |-> TRUE, primary |-> primary, replaced |-> set]
    <2>2. set \subseteq Nat /\ (~primary => set = {}) /\ (primary => \A i \in DOMAIN s2 : Marked(s2, i) => i \in set)
        BY RegistryTypes DEF Reg!Replaced, Reg!Primaries, Reg!Live, Marked
    <2>5. Reg!Begin(u, r)
        BY <2>1
    <2> HIDE DEF set
    <2>3. r \in CreateRequest /\ r.op = "create"
        BY <2>2 DEF CreateRequest
    <2>4. ASSUME NEW a \in BOOLEAN PROVE RegistryRight([r EXCEPT !.alone = a], s2, s3)
        <3> DEFINE w == [r EXCEPT !.alone = a]
        <3>1. w.op = "create" /\ w.primary = primary /\ w.replaced = set
            OBVIOUS
        <3> HIDE DEF w
        <3>2. RegistryRight(w, s2, s3)
            BY <2>2, <3>1 DEF RegistryRight
        <3> QED
            BY <3>2 DEF w
    <2> HIDE DEF r
    <2>6. r \in RegistryRequest
        BY <2>3 DEF RegistryRequest
    <2> QED
        BY <2>3, <2>4, <2>5, <2>6, RegistryBegins
<1>2. CASE Reg!UpdateBegin(u)
    <2>1. PICK i \in Reg!Live, primary \in BOOLEAN :
            Reg!Begin(u, [op |-> "update", alone |-> TRUE, id |-> i, primary |-> primary,
                          changes |-> s2[i].primary # primary, replaced |-> IF primary THEN Reg!Replaced(i) ELSE {}])
        BY <1>2 DEF Reg!UpdateBegin
    <2> DEFINE set == IF primary THEN Reg!Replaced(i) ELSE {}
               changes == s2[i].primary # primary
               r == [op |-> "update", alone |-> TRUE, id |-> i, primary |-> primary, changes |-> changes, replaced |-> set]
    <2>2. i \in DOMAIN s2 /\ i \in Nat
        BY RegistryTypes DEF Reg!Live
    <2>3. /\ set \subseteq Nat /\ (~primary => set = {}) /\ i \notin set
          /\ primary => \A k \in DOMAIN s2 : Marked(s2, k) => k \in set \/ k = i
        BY RegistryTypes DEF Reg!Replaced, Reg!Primaries, Reg!Live, Marked
    <2>4. changes \in BOOLEAN
        OBVIOUS
    <2>5. Reg!Begin(u, r)
        BY <2>1
    <2> HIDE DEF set, changes
    <2>6. r \in UpdateRequest /\ r.op = "update"
        BY <2>2, <2>3, <2>4 DEF UpdateRequest
    <2>7. ASSUME NEW a \in BOOLEAN PROVE RegistryRight([r EXCEPT !.alone = a], s2, s3)
        <3> DEFINE w == [r EXCEPT !.alone = a]
        <3>1. w.op = "update" /\ w.id = i /\ w.primary = primary /\ w.replaced = set
            OBVIOUS
        <3> HIDE DEF w
        <3>2. RegistryRight(w, s2, s3)
            BY <2>2, <2>3, <3>1 DEF RegistryRight
        <3> QED
            BY <3>2 DEF w
    <2> HIDE DEF r
    <2>8. r \in RegistryRequest
        BY <2>6 DEF RegistryRequest
    <2> QED
        BY <2>5, <2>6, <2>7, <2>8, RegistryBegins
<1>3. CASE Reg!ContractBegin(u)
    <2>1. PICK n, h : /\ Reg!Begin(u, [op |-> "contract", alone |-> TRUE, number |-> n, byHand |-> h])
                      /\ (n = Reg!GeneratedNumber /\ h = FALSE) \/ (n \in Reg!Number /\ h = (n # 0))
        BY <1>3 DEF Reg!ContractBegin
    <2> DEFINE r == [op |-> "contract", alone |-> TRUE, number |-> n, byHand |-> h]
    <2>2. /\ Reg!GeneratedNumber \in Nat /\ Reg!GeneratedNumber <= Len(s3) + 1
          /\ ~s6 /\ ~s7 /\ ~s8 => Reg!GeneratedNumber = Cardinality(Numbers(s3)) + 1
        BY GeneratedIs
    <2>3. h \in BOOLEAN /\ n \in Nat /\ (n <= Len(s3) + 1 \/ n <= MaxContract)
        <3>1. CASE n = Reg!GeneratedNumber /\ h = FALSE
            BY <2>2, <3>1
        <3>2. CASE n \in Reg!Number /\ h = (n # 0)
            <4>1. n \in 0..MaxContract
                BY <3>2 DEF Reg!Number
            <4> QED
                BY <3>2, <4>1, RegistryNumbers
        <3> QED
            BY <2>1, <3>1, <3>2
    <2>4. ~s6 /\ ~s7 /\ ~s8 => h \/ n = 0 \/ n = Cardinality(Numbers(s3)) + 1
        BY <2>1, <2>2
    <2>5. r \in ContractRequest /\ r.op = "contract" /\ Reg!Begin(u, r)
        BY <2>1, <2>3 DEF ContractRequest
    <2>6. ~s6 /\ ~s7 /\ ~s8 => NextNumber(r, s3)
        BY <2>4 DEF NextNumber
    <2>7. ASSUME NEW a \in BOOLEAN PROVE RegistryRight([r EXCEPT !.alone = a], s2, s3)
        <3> DEFINE w == [r EXCEPT !.alone = a]
        <3>1. w.op = "contract" /\ w.number = n
            OBVIOUS
        <3> HIDE DEF w
        <3>2. RegistryRight(w, s2, s3)
            BY <2>3, <3>1 DEF RegistryRight
        <3> QED
            BY <3>2 DEF w
    <2> HIDE DEF r
    <2>8. r \in RegistryRequest
        BY <2>5 DEF RegistryRequest
    <2> QED
        BY <2>5, <2>6, <2>7, <2>8, RegistryBegins
<1>4. CASE Reg!NumberBegin(u)
    <2>1. PICK i \in DOMAIN s3, n \in Reg!Number : Reg!Begin(u, [op |-> "number", alone |-> TRUE, id |-> i, number |-> n])
        BY <1>4 DEF Reg!NumberBegin
    <2> DEFINE r == [op |-> "number", alone |-> TRUE, id |-> i, number |-> n]
    <2>2. i \in DOMAIN s3 /\ i \in Nat /\ n \in Nat /\ n <= MaxContract
        BY RegistryTypes, RegistryNumbers DEF Reg!Number
    <2>3. r \in NumberRequest /\ r.op = "number" /\ Reg!Begin(u, r)
        BY <2>1, <2>2 DEF NumberRequest
    <2>4. ASSUME NEW a \in BOOLEAN PROVE RegistryRight([r EXCEPT !.alone = a], s2, s3)
        <3> DEFINE w == [r EXCEPT !.alone = a]
        <3>1. w.op = "number" /\ w.number = n /\ w.id = i
            OBVIOUS
        <3> HIDE DEF w
        <3>2. RegistryRight(w, s2, s3)
            BY <2>2, <3>1 DEF RegistryRight
        <3> QED
            BY <3>2 DEF w
    <2> HIDE DEF r
    <2>5. r \in RegistryRequest
        BY <2>3 DEF RegistryRequest
    <2> QED
        BY <2>3, <2>4, <2>5, RegistryBegins
<1> QED
    BY <1>1, <1>2, <1>3, <1>4

\* The end of a request.
LEMMA RegistryEnds ==
    ASSUME RegistryInv, NEW u \in Request, Busy(u), Reg!Finish(u), s1' = s1, s6' = s6, s7' = s7, s8' \in BOOLEAN, s8 => s8',
           s2' \in Seq(Reg!Contact), Len(s2') <= MaxContact, DOMAIN s2 \subseteq DOMAIN s2',
           s3' \in Seq(Numbered), Len(s3') <= MaxContract, Len(s3') >= Len(s3),
           s5' \in BOOLEAN, s5 \/ ~s5', ~s5' => OneMarked(s2') /\ (s5 => s4[u].alone),
           ~s6 /\ ~s7 /\ ~s8' => InTurn(s3')
    PROVE  RegistryInv'
<1>1. NoRecordRequest \in RegistryRequest /\ s4' = [s4 EXCEPT ![u] = NoRecordRequest]
    BY DEF Reg!Finish, NoRecordRequest, RegistryRequest
<1>2. s4' \in [Request -> RegistryRequest] /\ s4'[u] = NoRecordRequest /\ \A v \in Request : v # u => s4'[v] = s4[v]
    BY <1>1, RequestSet, RegistryTypes
<1>3. Reg!TypeOK'
    BY <1>2 DEF RegistryInv, Reg!TypeOK, Numbered, Reg!Number
<1>4. ASSUME NEW v \in Request PROVE RegistryRight(s4'[v], s2', s3')
    <2>1. CASE v = u
        BY <1>2, <2>1, NoRecordRequestIs DEF RegistryRight
    <2>2. CASE v # u
        <3>1. s4'[v] = s4[v] /\ RegistryRight(s4[v], s2, s3)
            BY <1>2, <2>2 DEF RegistryInv
        <3>2. s4[v].op # "none" => ~s4[v].alone
            BY <2>2 DEF RegistryInv, RegistrySerial, Busy
        <3>3. /\ \A n \in Nat : n <= Len(s3) + 1 => n <= Len(s3') + 1
              /\ DOMAIN s3 \subseteq DOMAIN s3'
            BY RegistryTypes
        <3>4. s4[v].op \in {"contract", "number"} => s4[v].number \in Nat
            BY NoRecordRequestIs, RegistryTypes DEF RegistryRequest, CreateRequest, UpdateRequest, ContractRequest, NumberRequest
        <3> QED
            BY <3>1, <3>2, <3>3, <3>4 DEF RegistryRight
    <2> QED
        BY <2>1, <2>2
<1>5. \A v \in Request : Busy(v)' => v # u /\ Busy(v) /\ s4'[v] = s4[v]
    BY <1>2, NoRecordRequestIs DEF Busy
<1>6. RegistrySerial'
    <2>1. \A v, w \in Request : Busy(v)' /\ s4'[v].alone /\ Busy(w)' => v = w
        BY <1>5 DEF RegistryInv, RegistrySerial
    <2>2. ASSUME ~s5' PROVE OneMarked(s2') /\ \A v \in Request : Busy(v)' => s4'[v].alone
        BY <1>5, <2>2 DEF RegistryInv, RegistrySerial
    <2>3. ~s6' => \A v, w \in Request : Busy(v)' /\ Busy(w)' => v = w
        BY <1>5 DEF RegistryInv, RegistrySerial
    <2>4. ASSUME ~s6', ~s7', ~s8'
          PROVE  InTurn(s3') /\ \A v \in Request : s4'[v].op = "contract" => NextNumber(s4'[v], s3')
        BY <1>2, <2>4, NoRecordRequestIs DEF RegistryInv, RegistrySerial, Busy
    <2> QED
        BY <2>1, <2>2, <2>3, <2>4 DEF RegistrySerial
<1> QED
    BY <1>2, <1>3, <1>4, <1>6 DEF RegistryInv

\* Those that lose the mark.
LEMMA UnmarkedIs ==
    ASSUME RegistryInv, NEW u \in Request
    PROVE  /\ Reg!Unmarked(u) \in Seq(Reg!Contact) /\ Len(Reg!Unmarked(u)) = Len(s2) /\ DOMAIN Reg!Unmarked(u) = DOMAIN s2
           /\ \A i \in DOMAIN s2 :
                /\ Reg!Unmarked(u)[i] \in Reg!Contact /\ Reg!Unmarked(u)[i].deleted = s2[i].deleted
                /\ Reg!Unmarked(u)[i].primary = (i \notin s4[u].replaced /\ s2[i].primary)
<1> DEFINE t == Reg!Unmarked(u)
<1>1. t = [i \in DOMAIN s2 |-> IF i \in s4[u].replaced THEN [s2[i] EXCEPT !.primary = FALSE] ELSE s2[i]]
    BY DEF Reg!Unmarked
<1> HIDE DEF t
<1>2. DOMAIN t = DOMAIN s2 /\ t = [i \in DOMAIN s2 |-> t[i]]
    BY <1>1
<1>3. ASSUME NEW i \in DOMAIN s2
      PROVE  /\ t[i] \in Reg!Contact /\ t[i].deleted = s2[i].deleted
             /\ t[i].primary = (i \notin s4[u].replaced /\ s2[i].primary)
    <2>1. s2[i] \in Reg!Contact
        BY RegistryTypes
    <2>2. CASE i \in s4[u].replaced
        <3>1. t[i] = [s2[i] EXCEPT !.primary = FALSE]
            BY <1>1, <2>2
        <3> QED
            BY <2>1, <2>2, <3>1 DEF Reg!Contact
    <2>3. CASE i \notin s4[u].replaced
        <3>1. t[i] = s2[i]
            BY <1>1, <2>3
        <3>2. s2[i].primary \in BOOLEAN
            BY <2>1 DEF Reg!Contact
        <3> QED
            BY <2>1, <2>3, <3>1, <3>2
    <2> QED
        BY <2>2, <2>3
<1>4. t \in Seq(Reg!Contact) /\ Len(t) = Len(s2)
    <2>1. s2 \in Seq(Reg!Contact)
        BY RegistryTypes
    <2> QED
        BY <1>2, <1>3, <2>1, SameLength
<1> QED
    BY <1>2, <1>3, <1>4 DEF t

LEMMA RegistryCreates == ASSUME RegistryInv, NEW u \in Request, Reg!CreateCommit(u) PROVE RegistryInv'
<1> DEFINE t == Reg!Unmarked(u)
           x == [primary |-> s4[u].primary, deleted |-> FALSE]
<1>1. /\ s4[u].op = "create" /\ Len(s2) < MaxContact /\ s2' = Append(t, x)
      /\ s5' = (s5 /\ ~(s4[u].primary /\ s4[u].alone)) /\ Reg!Finish(u) /\ s1' = s1 /\ s3' = s3 /\ s6' = s6 /\ s7' = s7 /\ s8' = s8
    BY DEF Reg!CreateCommit, Reg!Settled
<1>2. /\ t \in Seq(Reg!Contact) /\ Len(t) = Len(s2) /\ DOMAIN t = DOMAIN s2
      /\ \A i \in DOMAIN s2 : t[i].deleted = s2[i].deleted /\ t[i].primary = (i \notin s4[u].replaced /\ s2[i].primary)
    BY UnmarkedIs
<1>3. s4[u] \in CreateRequest /\ RegistryRight(s4[u], s2, s3)
    BY <1>1, NoRecordRequestIs, RegistryTypes DEF RegistryInv, RegistryRequest, UpdateRequest, ContractRequest, NumberRequest
<1>4. s4[u].primary \in BOOLEAN /\ s4[u].alone \in BOOLEAN /\ Len(s2) \in Nat /\ s5 \in BOOLEAN /\ DOMAIN s2 = 1..Len(s2)
    BY <1>3, RegistryTypes DEF CreateRequest
<1> HIDE DEF t
<1>5. x \in Reg!Contact /\ x.primary = s4[u].primary
    BY <1>4 DEF Reg!Contact
<1> HIDE DEF x
<1>6. /\ s2' \in Seq(Reg!Contact) /\ Len(s2') = Len(s2) + 1 /\ DOMAIN s2' = 1..(Len(s2) + 1)
      /\ \A i \in 1..Len(s2) : s2'[i] = t[i]
      /\ s2'[Len(s2) + 1] = x
    BY <1>1, <1>2, <1>5, AppendTo
<1>7. Len(s2') <= MaxContact /\ DOMAIN s2 \subseteq DOMAIN s2'
    BY <1>1, <1>4, <1>6, RegistryNumbers
<1>8. ~s5' => OneMarked(s2') /\ (s5 => s4[u].alone)
    <2> SUFFICES ASSUME ~s5' PROVE OneMarked(s2') /\ (s5 => s4[u].alone)
        OBVIOUS
    <2>1. CASE s4[u].primary /\ s4[u].alone
        <3>1. \A i \in DOMAIN s2 : ~Marked(t, i)
            BY <1>1, <1>2, <1>3, <2>1 DEF RegistryRight, Marked
        <3>2. \A i \in DOMAIN s2' : Marked(s2', i) => i = Len(s2) + 1
            BY <1>4, <1>6, <3>1 DEF Marked
        <3> QED
            BY <2>1, <3>2 DEF OneMarked
    <2>2. CASE ~(s4[u].primary /\ s4[u].alone)
        <3>1. ~s5 /\ s4[u].alone
            BY <1>1, <1>4, <2>2 DEF RegistryInv, RegistrySerial, Busy
        <3>2. \A i \in DOMAIN s2' : Marked(s2', i) => i \in DOMAIN s2 /\ Marked(s2, i)
            BY <1>2, <1>4, <1>5, <1>6, <2>2, <3>1 DEF Marked
        <3> QED
            BY <3>1, <3>2 DEF RegistryInv, RegistrySerial, OneMarked
    <2> QED
        BY <2>1, <2>2
<1>9. Busy(u) /\ s5' \in BOOLEAN /\ (s5 \/ ~s5') /\ (~s6 /\ ~s7 /\ ~s8' => InTurn(s3')) /\ s8' \in BOOLEAN /\ (s8 => s8')
    BY <1>1, <1>4, RegistryTypes DEF RegistryInv, RegistrySerial, Busy
<1>10. s3' \in Seq(Numbered) /\ Len(s3') <= MaxContract /\ Len(s3') >= Len(s3)
    BY <1>1, RegistryTypes
<1> QED
    BY <1>1, <1>6, <1>7, <1>8, <1>9, <1>10, RegistryEnds

LEMMA RegistryUpdates == ASSUME RegistryInv, NEW u \in Request, Reg!UpdateCommit(u) PROVE RegistryInv'
<1> DEFINE t == Reg!Unmarked(u)
           k == s4[u].id
           x == [t[k] EXCEPT !.primary = IF s4[u].changes THEN s4[u].primary ELSE @]
<1>1. /\ s4[u].op = "update" /\ s2' = [t EXCEPT ![k].primary = IF s4[u].changes THEN s4[u].primary ELSE @]
      /\ s5' = (s5 /\ ~(s4[u].primary /\ s4[u].alone)) /\ Reg!Finish(u) /\ s1' = s1 /\ s3' = s3 /\ s6' = s6 /\ s7' = s7 /\ s8' = s8
    BY DEF Reg!UpdateCommit, Reg!Settled
<1>2. /\ t \in Seq(Reg!Contact) /\ Len(t) = Len(s2) /\ DOMAIN t = DOMAIN s2
      /\ \A i \in DOMAIN s2 : /\ t[i] \in Reg!Contact /\ t[i].deleted = s2[i].deleted
                              /\ t[i].primary = (i \notin s4[u].replaced /\ s2[i].primary)
    BY UnmarkedIs
<1>3. s4[u] \in UpdateRequest /\ RegistryRight(s4[u], s2, s3)
    BY <1>1, NoRecordRequestIs, RegistryTypes DEF RegistryInv, RegistryRequest, CreateRequest, ContractRequest, NumberRequest
<1>4. /\ s4[u].primary \in BOOLEAN /\ s4[u].alone \in BOOLEAN /\ s4[u].changes \in BOOLEAN
      /\ s5 \in BOOLEAN /\ DOMAIN s2 = 1..Len(s2) /\ Len(s2) \in Nat /\ Len(s2) <= MaxContact
    BY <1>3, RegistryTypes DEF UpdateRequest
<1>5. k \in DOMAIN s2 /\ k \notin s4[u].replaced
    BY <1>1, <1>3 DEF RegistryRight
<1>6. s2' = [t EXCEPT ![k] = x]
    BY <1>1, <1>2, <1>5
<1> HIDE DEF t, k
<1>7. t[k].primary = s2[k].primary /\ t[k].deleted = s2[k].deleted /\ t[k] \in Reg!Contact
    <2>1. s2[k] \in Reg!Contact
        BY <1>5, RegistryTypes
    <2>2. s2[k].primary \in BOOLEAN
        BY <2>1 DEF Reg!Contact
    <2> QED
        BY <1>2, <1>5, <2>2
<1>8. x \in Reg!Contact /\ x.deleted = s2[k].deleted /\ x.primary = IF s4[u].changes THEN s4[u].primary ELSE s2[k].primary
    BY <1>4, <1>7 DEF Reg!Contact
<1> HIDE DEF x
<1>9. /\ s2' \in Seq(Reg!Contact) /\ Len(s2') = Len(s2) /\ DOMAIN s2' = DOMAIN s2
      /\ \A i \in DOMAIN s2 : s2'[i] = IF i = k THEN x ELSE t[i]
    BY <1>2, <1>4, <1>5, <1>6, <1>8, ExceptSeq
<1>10. ~s5' => OneMarked(s2') /\ (s5 => s4[u].alone)
    <2> SUFFICES ASSUME ~s5' PROVE OneMarked(s2') /\ (s5 => s4[u].alone)
        OBVIOUS
    <2>1. CASE s4[u].primary /\ s4[u].alone
        <3>1. \A i \in DOMAIN s2 : i # k => ~Marked(t, i)
            BY <1>1, <1>2, <1>3, <2>1 DEF RegistryRight, Marked, k
        <3>2. \A i \in DOMAIN s2' : Marked(s2', i) => i = k
            BY <1>9, <3>1 DEF Marked
        <3> QED
            BY <2>1, <3>2 DEF OneMarked
    <2>2. CASE ~(s4[u].primary /\ s4[u].alone)
        <3>1. ~s5 /\ s4[u].alone /\ ~s4[u].primary
            BY <1>1, <1>4, <2>2 DEF RegistryInv, RegistrySerial, Busy
        <3>2. ASSUME NEW i \in DOMAIN s2', Marked(s2', i) PROVE i \in DOMAIN s2 /\ Marked(s2, i)
            BY <1>2, <1>8, <1>9, <3>1, <3>2 DEF Marked
        <3> QED
            BY <3>1, <3>2 DEF RegistryInv, RegistrySerial, OneMarked
    <2> QED
        BY <2>1, <2>2
<1>11. Busy(u) /\ s5' \in BOOLEAN /\ (s5 \/ ~s5') /\ (~s6 /\ ~s7 /\ ~s8' => InTurn(s3')) /\ s8' \in BOOLEAN /\ (s8 => s8')
    BY <1>1, <1>4, RegistryTypes DEF RegistryInv, RegistrySerial, Busy
<1>12. s3' \in Seq(Numbered) /\ Len(s3') <= MaxContract /\ Len(s3') >= Len(s3) /\ Len(s2') <= MaxContact
    BY <1>1, <1>4, <1>9, RegistryTypes
<1> QED
    BY <1>1, <1>9, <1>10, <1>11, <1>12, RegistryEnds

LEMMA RegistryContracts ==
    ASSUME RegistryInv, NEW u \in Request, Reg!ContractCommit(u) \/ Reg!NumberCommit(u) \/ Reg!Abort(u)
    PROVE  RegistryInv'
<1>1. s2' = s2 /\ s5' = s5 /\ s1' = s1 /\ s6' = s6 /\ s7' = s7 /\ Busy(u) /\ Reg!Finish(u)
    BY DEF Reg!ContractCommit, Reg!NumberCommit, Reg!Abort, Reg!Idle, Busy
<1>0. s3 \in Seq(Numbered) /\ Len(s3) \in Nat /\ DOMAIN s3 = 1..Len(s3) /\ s8 \in BOOLEAN /\ Len(s3) <= MaxContract
    BY RegistryTypes
<1>2. /\ s3' \in Seq(Numbered) /\ Len(s3') <= MaxContract /\ Len(s3') >= Len(s3) /\ (~s6 /\ ~s7 /\ ~s8' => InTurn(s3'))
      /\ s8' \in BOOLEAN /\ (s8 => s8')
    <2>1. CASE Reg!Abort(u)
        BY <2>1, RegistryTypes DEF Reg!Abort, RegistryInv, RegistrySerial
    <2>2. CASE Reg!ContractCommit(u)
        <3> DEFINE n == s4[u].number
                   x == [number |-> n, deleted |-> FALSE]
        <3>1. /\ s4[u].op = "contract" /\ Len(s3) < MaxContract /\ s3' = Append(s3, x)
              /\ s8' = (s8 \/ s4[u].byHand)
            BY <2>2 DEF Reg!ContractCommit
        <3>2. s4[u].byHand \in BOOLEAN /\ n \in Nat
            BY <3>1, NoRecordRequestIs, RegistryTypes
            DEF RegistryRequest, CreateRequest, UpdateRequest, ContractRequest, NumberRequest
        <3>3. /\ n <= Len(s3) + 1 \/ n <= MaxContract
              /\ ~s6 /\ ~s7 /\ ~s8' => InTurn(s3) /\ (n = 0 \/ n = Cardinality(Numbers(s3)) + 1)
            BY <1>0, <3>1, <3>2 DEF RegistryInv, RegistryRight, RegistrySerial, NextNumber
        <3> HIDE DEF n
        <3>4. n \in 0..MaxContract
            BY <1>0, <3>1, <3>2, <3>3, RegistryNumbers
        <3>5. x \in Numbered /\ x.number = n /\ x.deleted = FALSE
            BY <3>4 DEF Numbered
        <3> HIDE DEF x
        <3>6. /\ s3' \in Seq(Numbered) /\ Len(s3') = Len(s3) + 1 /\ DOMAIN s3' = 1..(Len(s3) + 1)
              /\ \A i \in 1..Len(s3) : s3'[i] = s3[i]
              /\ s3'[Len(s3) + 1] = x
            BY <1>0, <3>1, <3>5, AppendTo
        <3>7. ASSUME ~s6, ~s7, ~s8' PROVE InTurn(s3')
            <4>1. IsFiniteSet(Numbers(s3)) /\ Cardinality(Numbers(s3)) \in Nat /\ Len(s3) + 1 \notin Numbers(s3)
                <5>1. Numbers(s3) \subseteq 1..Len(s3)
                    BY <1>0 DEF Numbers
                <5>2. IsFiniteSet(1..Len(s3))
                    BY <1>0, FS_Interval
                <5>3. IsFiniteSet(Numbers(s3))
                    BY <5>1, <5>2, FS_Subset
                <5>4. Cardinality(Numbers(s3)) \in Nat
                    BY <5>3, FS_CardinalityType
                <5>5. Len(s3) + 1 \notin 1..Len(s3)
                    BY <1>0
                <5> QED
                    BY <5>1, <5>3, <5>4, <5>5
            <4>2. \A i \in 1..Len(s3) : s3[i].number \in Nat
                <5>1. \A i \in 1..Len(s3) : s3[i] \in Numbered
                    BY <1>0
                <5>2. \A c \in Numbered : c.number \in Nat
                    BY RegistryNumbers DEF Numbered
                <5> QED
                    BY <5>1, <5>2
            <4>3. CASE n = 0
                <5>1. Numbers(s3') = Numbers(s3)
                    BY <1>0, <3>5, <3>6, <4>3 DEF Numbers
                <5>2. \A i \in DOMAIN s3' : ~s3'[i].deleted /\ s3'[i].number <= Cardinality(Numbers(s3))
                    BY <1>0, <3>3, <3>5, <3>6, <3>7, <4>1, <4>3 DEF InTurn
                <5>3. \A i, j \in Numbers(s3) : s3'[i].number = s3'[j].number => i = j
                    BY <1>0, <3>3, <3>6, <3>7 DEF InTurn, Numbers
                <5> QED
                    BY <5>1, <5>2, <5>3 DEF InTurn
            <4>4. CASE n = Cardinality(Numbers(s3)) + 1
                <5>1. Numbers(s3') = Numbers(s3) \cup {Len(s3) + 1}
                    BY <1>0, <3>5, <3>6, <4>1, <4>4 DEF Numbers
                <5>2. Cardinality(Numbers(s3')) = n
                    BY <4>1, <4>4, <5>1, FS_AddElement
                <5>3. \A i \in DOMAIN s3' : ~s3'[i].deleted /\ s3'[i].number <= n
                    BY <1>0, <3>3, <3>5, <3>6, <3>7, <4>1, <4>2, <4>4 DEF InTurn
                <5>4. \A i \in 1..Len(s3) : s3'[i].number # n
                    BY <1>0, <3>3, <3>6, <3>7, <4>1, <4>2, <4>4 DEF InTurn
                <5>5. \A i, j \in Numbers(s3') : s3'[i].number = s3'[j].number => i = j
                    BY <1>0, <3>3, <3>5, <3>6, <3>7, <5>1, <5>4 DEF InTurn, Numbers
                <5> QED
                    BY <5>2, <5>3, <5>5 DEF InTurn
            <4> QED
                BY <3>3, <3>7, <4>3, <4>4
        <3> QED
            BY <1>0, <3>1, <3>2, <3>6, <3>7, RegistryNumbers
    <2>3. CASE Reg!NumberCommit(u)
        <3> DEFINE i == s4[u].id
                   n == s4[u].number
                   x == [s3[i] EXCEPT !.number = n]
        <3>1. s4[u].op = "number" /\ s3' = [s3 EXCEPT ![i].number = n] /\ s8' = TRUE
            BY <2>3 DEF Reg!NumberCommit
        <3>2. i \in DOMAIN s3 /\ n \in 0..MaxContract
            <4>1. n \in Nat
                BY <3>1, NoRecordRequestIs, RegistryTypes
                DEF RegistryRequest, CreateRequest, UpdateRequest, ContractRequest, NumberRequest
            <4> QED
                BY <3>1, <4>1, RegistryNumbers DEF RegistryInv, RegistryRight
        <3> HIDE DEF i, n
        <3>3. x \in Numbered
            <4>1. s3[i] \in Numbered
                BY <1>0, <3>2
            <4> QED
                BY <3>2, <4>1 DEF Numbered
        <3>4. s3' = [s3 EXCEPT ![i] = x]
            BY <1>0, <3>1, <3>2
        <3> HIDE DEF x
        <3>5. s3' \in Seq(Numbered) /\ Len(s3') = Len(s3)
            BY <1>0, <3>2, <3>3, <3>4, ExceptSeq
        <3> QED
            BY <1>0, <3>1, <3>5
    <2> QED
        BY <2>1, <2>2, <2>3
<1>3. s5' \in BOOLEAN /\ (s5 \/ ~s5') /\ (~s5' => OneMarked(s2') /\ (s5 => s4[u].alone))
    BY <1>1, RegistryTypes DEF RegistryInv, RegistrySerial
<1>4. s2' \in Seq(Reg!Contact) /\ Len(s2') <= MaxContact /\ DOMAIN s2 \subseteq DOMAIN s2'
    BY <1>1, RegistryTypes
<1> QED
    BY <1>1, <1>2, <1>3, <1>4, RegistryEnds

\* What happens beside the requests.
LEMMA RegistryDeletes ==
    ASSUME RegistryInv, (\E u \in Request : Reg!DeleteContact(u) \/ Reg!DeleteContract(u)) \/ Reg!DeleteSupplier \/ UNCHANGED records
    PROVE  RegistryInv'
<1>1. ASSUME NEW u \in Request, Reg!DeleteContact(u) PROVE RegistryInv'
    <2>1. PICK i \in Reg!Live : s2' = [s2 EXCEPT ![i].deleted = TRUE]
        BY <1>1 DEF Reg!DeleteContact
    <2>2. s1' = s1 /\ s3' = s3 /\ s4' = s4 /\ s5' = s5 /\ s6' = s6 /\ s7' = s7 /\ s8' = s8
        BY <1>1 DEF Reg!DeleteContact
    <2> DEFINE x == [s2[i] EXCEPT !.deleted = TRUE]
    <2>3. i \in DOMAIN s2 /\ s2[i] \in Reg!Contact /\ s2 \in Seq(Reg!Contact) /\ DOMAIN s2 = 1..Len(s2)
        BY RegistryTypes DEF Reg!Live
    <2>4. s2' = [s2 EXCEPT ![i] = x]
        BY <2>1, <2>3
    <2>5. x \in Reg!Contact /\ x.deleted
        BY <2>3 DEF Reg!Contact
    <2> HIDE DEF x
    <2>6. /\ s2' \in Seq(Reg!Contact) /\ Len(s2') = Len(s2) /\ DOMAIN s2' = DOMAIN s2
          /\ \A k \in DOMAIN s2 : s2'[k] = IF k = i THEN x ELSE s2[k]
        BY <2>3, <2>4, <2>5, ExceptSeq
    <2>7. \A k \in DOMAIN s2 : Marked(s2', k) => Marked(s2, k)
        BY <2>5, <2>6 DEF Marked
    <2>8. Reg!TypeOK'
        BY <2>2, <2>6 DEF RegistryInv, Reg!TypeOK
    <2>9. \A v \in Request : RegistryRight(s4'[v], s2', s3')
        BY <2>2, <2>6, <2>7 DEF RegistryInv, RegistryRight
    <2>10. OneMarked(s2) => OneMarked(s2')
        BY <2>6, <2>7 DEF OneMarked
    <2>11. RegistrySerial'
        BY <2>2, <2>10 DEF RegistryInv, RegistrySerial, Busy
    <2> QED
        BY <2>2, <2>8, <2>9, <2>11 DEF RegistryInv
<1>2. ASSUME NEW u \in Request, Reg!DeleteContract(u) PROVE RegistryInv'
    <2>1. PICK i \in DOMAIN s3 : s3' = [s3 EXCEPT ![i].deleted = TRUE]
        BY <1>2 DEF Reg!DeleteContract
    <2>2. s1' = s1 /\ s2' = s2 /\ s4' = s4 /\ s5' = s5 /\ s6' = s6 /\ s7' = TRUE /\ s8' = s8
        BY <1>2 DEF Reg!DeleteContract
    <2> DEFINE x == [s3[i] EXCEPT !.deleted = TRUE]
    <2>3. s3[i] \in Numbered /\ s3 \in Seq(Numbered) /\ DOMAIN s3 = 1..Len(s3)
        BY RegistryTypes
    <2>4. s3' = [s3 EXCEPT ![i] = x]
        BY <2>1, <2>3
    <2>5. x \in Numbered
        BY <2>3 DEF Numbered
    <2> HIDE DEF x
    <2>6. s3' \in Seq(Numbered) /\ Len(s3') = Len(s3)
        BY <2>3, <2>4, <2>5, ExceptSeq
    <2>7. Reg!TypeOK'
        BY <2>2, <2>6 DEF RegistryInv, Reg!TypeOK, Numbered, Reg!Number
    <2>8. \A v \in Request : RegistryRight(s4'[v], s2', s3')
        BY <2>2, <2>6 DEF RegistryInv, RegistryRight
    <2>9. RegistrySerial'
        BY <2>2 DEF RegistryInv, RegistrySerial, Busy
    <2> QED
        BY <2>2, <2>7, <2>8, <2>9 DEF RegistryInv
<1>3. CASE Reg!DeleteSupplier
    BY <1>3 DEF Reg!DeleteSupplier, RegistryInv, Reg!TypeOK, RegistrySerial, Busy
<1>4. CASE UNCHANGED records
    BY <1>4 DEF records, RegistryInv, Reg!TypeOK, RegistrySerial, Busy
<1> QED
    BY <1>1, <1>2, <1>3, <1>4

LEMMA RegistryStep == ASSUME RegistryInv, Reg!Next \/ UNCHANGED records PROVE RegistryInv'
    BY RegistryAsks, RegistryCreates, RegistryUpdates, RegistryContracts, RegistryDeletes DEF Reg!Next

LEMMA RegistryIsRight == RegistryInv => Reg!TypeOK /\ Reg!RegistryIsSound
<1> SUFFICES ASSUME RegistryInv PROVE Reg!RegistryIsSound
    BY DEF RegistryInv
<1>1. Reg!OnePrimary
    <2> SUFFICES ASSUME ~s5 PROVE Reg!Cardinality(Reg!Primaries) <= 1
        BY DEF Reg!OnePrimary
    <2>1. \A i, j \in Reg!Primaries : i = j
        BY DEF RegistryInv, RegistrySerial, OneMarked, Marked, Reg!Primaries, Reg!Live
    <2>2. Reg!Cardinality(Reg!Primaries) = Cardinality(Reg!Primaries)
        BY DEF Reg!Cardinality, Cardinality
    <2> QED
        BY <2>1, <2>2, OneAtMost
<1>2. Reg!NumbersAreDistinct
    BY DEF RegistryInv, RegistrySerial, InTurn, Numbers, Reg!NumbersAreDistinct
<1> QED
    BY <1>1, <1>2 DEF Reg!RegistryIsSound

(***************************************************************************)
(* The records.                                                             *)
(***************************************************************************)
RecordsInv ==
    /\ area = "accounts" => AccountsInv
    /\ area = "employees" => EmployeesInv
    /\ area = "erp" => ErpInv
    /\ area = "dashboard" => DashboardInv
    /\ area = "handoff" => HandoffInv
    /\ area = "meeting" => MeetingInv
    /\ area = "registry" => RegistryInv

LEMMA RecordsBegin == MCInit => RecordsInv
<1> SUFFICES ASSUME MCInit PROVE RecordsInv
    OBVIOUS
<1>1. area \in {"billing", "pin", "mobile", "vacation", "payslip"} \/ RecordsInit
    BY DEF MCInit
<1>2. /\ area = "accounts" => Acc!Init
      /\ area = "employees" => Emp!Init
      /\ area = "erp" => Erp!Init
      /\ area = "dashboard" => Dsh!Init
      /\ area = "handoff" => Hnd!Init
      /\ area = "meeting" => Mtg!Init
      /\ area = "registry" => Reg!Init
    BY <1>1 DEF RecordsInit
<1> QED
    BY <1>2, AccountsInit, EmployeesInit, ErpInit, DashboardInit, HandoffInit, MeetingInit, RegistryInit
    DEF RecordsInv

LEMMA RecordsStep ==
    ASSUME RecordsInv, MCNext \/ UNCHANGED <<area, vars, pin, mobile, leave, pay, records>>
    PROVE  RecordsInv'
<1>1. area' = area /\ (RecordsNext \/ UNCHANGED records)
    BY DEF MCNext
<1>2. CASE UNCHANGED records
    BY <1>1, <1>2, AccountsStep, EmployeesStep, ErpStep, DashboardStep, HandoffStep, MeetingStep, RegistryStep
    DEF RecordsInv
<1>3. CASE RecordsNext
    <2>1. /\ area = "accounts" => Acc!Next
          /\ area = "employees" => Emp!Next
          /\ area = "erp" => Erp!Next
          /\ area = "dashboard" => Dsh!Next
          /\ area = "handoff" => Hnd!Next
          /\ area = "meeting" => Mtg!Next
          /\ area = "registry" => Reg!Next
        BY <1>3 DEF RecordsNext
    <2> QED
        BY <1>1, <2>1, AccountsStep, EmployeesStep, ErpStep, DashboardStep, HandoffStep, MeetingStep, RegistryStep
        DEF RecordsInv
<1> QED
    BY <1>1, <1>2, <1>3

\* For any requests, e-mails, people, files, pushes, names and limits: e-mails
\* and roles stay apart, everybody in a file read to its end is an employee
\* until an edit or a push gives that employee another CPF, the ERP's are as it
\* pushed them, no change of a contract is skipped by a pull that no transaction
\* was open during, the dashboard is not older than its two lifetimes, a handoff
\* is read before it is resolved, a list is saved whole, there is one primary
\* contact, and a number that the program gives is of one contract as long as
\* none of its form was given by hand and no contract was deleted (users,
\* employees, integrations_erpsolid, cache, handoffs, meetings and suppliers).
THEOREM RecordsAreCoherentHolds == MCSpec => []RecordsAreCoherent
<1>1. RecordsInv => RecordsAreCoherent
    BY AccountsAreRight, EmployeesAreRight, ErpIsRight, DashboardIsRight, MeetingIsRight, RegistryIsRight
    DEF RecordsInv, HandoffInv, RecordsAreCoherent
<1>2. RecordsInv /\ [MCNext]_<<area, vars, pin, mobile, leave, pay, records>> => RecordsInv'
    BY RecordsStep
<1> QED
    BY <1>1, <1>2, RecordsBegin, PTL DEF MCSpec
=============================================================================
