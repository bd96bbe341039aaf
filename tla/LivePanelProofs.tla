--------------------------- MODULE LivePanelProofs ---------------------------
(* Proofs about LivePanel: an account comes back only with the session     *)
(* that was found good, a session that was handed out stays marked, the    *)
(* counters of a live check agree, and the Grok check kills no account     *)
(* without an answer that says so.                                         *)
EXTENDS LivePanel, FiniteSetTheorems, TLAPS

\* Records with the fields of the module's; what they hold, the actions say.
RowOK(r)    == DOMAIN r = {"status", "auth", "oauth", "arp", "shipped", "alive"}
CheckOK(k)  == DOMAIN k = {"pc", "one", "todo", "restoring", "judged"}
ExportOK(x) == DOMAIN x = {"pc", "convert", "unshipped", "todo", "ok"}

\* A session of a row that some request has read: one that was obtained.
ItemOK(x) == x = [id |-> x.id, auth |-> x.auth] /\ x.id \in Rows /\ x.auth \in 1..gen

Rowwise ==
    /\ gen \in Nat
    /\ row = [id \in Rows |-> row[id]]
    /\ \A id \in Rows : RowOK(row[id]) /\ row[id].auth \in 0..gen
                        /\ (row[id].status = "none" => row[id].auth = 0)

Checkwise ==
    /\ check = [c \in Checks |-> check[c]]
    /\ \A c \in Checks : /\ CheckOK(check[c])
                         /\ \A x \in check[c].todo \cup check[c].restoring : ItemOK(x)

Exportwise ==
    /\ export = [e \in Exports |-> export[e]]
    /\ \A e \in Exports : /\ ExportOK(export[e])
                          /\ \A x \in export[e].todo \cup export[e].ok : ItemOK(x)
    /\ \A x \in handed : ItemOK(x)

Shape == Rowwise /\ Checkwise /\ Exportwise

\* What a start has read of a row is what a row may hold.
WasOK(k) ==
    /\ k.id \in Rows /\ k = [id |-> k.id, was |-> k.was]
    /\ RowOK(k.was) /\ k.was.auth \in 0..gen /\ (k.was.arp => platform = "adobe")
Claimwise == \A k \in claiming : WasOK(k)

\* An Adobe account that was created and given up keeps the session of its
\* creation: no check has read another of it, and no export any; unless a
\* start has put the session back.
Intact(id) ==
    /\ \A c \in Checks : \A x \in check[c].todo \cup check[c].restoring : x.id = id => x.auth = row[id].auth
    /\ \A e \in Exports : \A x \in export[e].todo \cup export[e].ok : x.id # id
    /\ \A x \in handed : x.id # id

Untouched(id) == Intact(id) \/ Item(id) \in putBack
Cookies ==
    \A id \in Rows :
        /\ row[id].arp => platform = "adobe" /\ row[id].status # "registered"
        /\ row[id].status = "running" /\ ~row[id].arp /\ platform = "adobe" => row[id].auth = 0
        /\ row[id].arp /\ row[id].auth # 0 => Untouched(id)

\* A session that some response has carried is marked in its row, unless an
\* export that converts it has put it back and is about to mark it, or a
\* start has put it back.
Converts(e) == export[e].pc = "converting" /\ export[e].convert
Kept(x) ==
    row[x.id].auth = x.auth =>
        row[x.id].shipped \/ x \in putBack \/ \E e \in Exports : Converts(e) /\ x \in export[e].ok

Shipping ==
    /\ \A x \in handed : Kept(x)
    /\ \A e \in Exports : export[e].pc = "marked" => \A x \in export[e].ok : Kept(x)
    /\ \A e \in Exports : IF export[e].convert
                          THEN platform = "grok" /\ export[e].todo \cap export[e].ok = {}
                          ELSE export[e].todo = {}

-----------------------------------------------------------------------------
(* What the producers and the checks do to a row.                          *)

\* Only one row changes.
OneRow(id) ==
    /\ id \in Rows
    /\ row' = [i \in Rows |-> row'[i]]
    /\ \A i \in Rows \ {id} : row'[i] = row[i]
    /\ RowOK(row'[id])

\* What a start leaves in the row: the cookies it has read, if the account
\* had been made by then.
LEMMA ClaimRow ==
  ASSUME Shape, Claimwise, NEW k \in claiming, row' = [row EXCEPT ![k.id] = Claimed(k.was)]
  PROVE  /\ OneRow(k.id)
         /\ row'[k.id].status = "running" /\ row'[k.id].arp = k.was.arp
         /\ row'[k.id].auth = IF k.was.arp THEN k.was.auth ELSE 0
         /\ ~row'[k.id].shipped
<1>1. k.id \in Rows /\ RowOK(k.was)
  BY DEF Claimwise, WasOK
<1>2. /\ RowOK(Claimed(k.was)) /\ Claimed(k.was).status = "running" /\ Claimed(k.was).arp = k.was.arp
      /\ Claimed(k.was).auth = (IF k.was.arp THEN k.was.auth ELSE 0) /\ Claimed(k.was).shipped = FALSE
  BY <1>1 DEF RowOK, Claimed
<1> QED BY <1>1, <1>2 DEF Shape, Rowwise, OneRow

\* A run that succeeds saves new cookies.
LEMMA RegisterRow ==
  ASSUME Shape, NEW id \in Rows, Register(id)
  PROVE  /\ OneRow(id)
         /\ row'[id].status = "registered" /\ ~row'[id].arp
         /\ row'[id].auth = gen + 1 /\ gen' = gen + 1
<1>1. PICK oauth : Set(id, [status |-> "registered", auth |-> gen + 1, oauth |-> oauth, arp |-> FALSE])
  BY Zenon DEF Register
<1>2. OneRow(id)
  BY <1>1 DEF Shape, Rowwise, RowOK, OneRow, Set
<1>3. row'[id].status = "registered" /\ ~row'[id].arp /\ row'[id].auth = gen + 1
  BY <1>1 DEF Shape, Rowwise, RowOK, Set
<1> QED BY <1>2, <1>3 DEF Register

\* A run that fails touches neither cookies nor the shipped mark.
LEMMA FailRow ==
  ASSUME Shape, NEW id \in Rows, Fail(id)
  PROVE  /\ OneRow(id)
         /\ row[id].status = "running" /\ row'[id].status \in {"failed", "exists"}
         /\ row'[id].arp => row[id].arp \/ platform = "adobe"
         /\ row'[id].auth = row[id].auth /\ row'[id].shipped = row[id].shipped
<1>1. CASE Set(id, [status |-> "failed"])
  BY <1>1 DEF Shape, Rowwise, RowOK, OneRow, Fail, Set
<1>2. CASE platform = "adobe" /\ Set(id, [status |-> "exists", arp |-> TRUE])
  BY <1>2 DEF Shape, Rowwise, RowOK, OneRow, Fail, Set
<1> QED BY <1>1, <1>2 DEF Fail

\* Nothing is left of a row that is deleted.
LEMMA DeleteRow ==
  ASSUME Shape, NEW id \in Rows, Delete(id)
  PROVE  /\ OneRow(id)
         /\ row'[id].status = "none" /\ row'[id].auth = 0 /\ ~row'[id].arp
BY DEF Shape, Rowwise, RowOK, OneRow, Delete, NoRow

\* A verdict is no matter of the properties here.
LEMMA AliveRow ==
  ASSUME Shape, NEW id \in Rows, NEW v, Update(id, [alive |-> v])
  PROVE  /\ row' = [i \in Rows |-> row'[i]]
         /\ \A i \in Rows : /\ RowOK(row'[i]) /\ row'[i].status = row[i].status
                            /\ row'[i].auth = row[i].auth /\ row'[i].arp = row[i].arp
                            /\ row'[i].shipped = row[i].shipped
<1>1. CASE UNCHANGED row
  BY <1>1 DEF Shape, Rowwise
<1>2. CASE Set(id, [alive |-> v])
  BY <1>2 DEF Shape, Rowwise, RowOK, Set
<1> QED BY <1>1, <1>2 DEF Update

\* A restored row keeps its cookies and its shipped mark.
LEMMA RestoredRow ==
  ASSUME Shape, NEW id \in Rows, Set(id, [status |-> "registered", arp |-> FALSE])
  PROVE  /\ OneRow(id)
         /\ row'[id].status = "registered" /\ ~row'[id].arp
         /\ row'[id].auth = row[id].auth /\ row'[id].shipped = row[id].shipped
BY DEF Shape, Rowwise, RowOK, OneRow, Set

\* The session that was read is put back.
LEMMA SavedRow ==
  ASSUME Shape, NEW id \in Rows, NEW a, Set(id, [auth |-> a, oauth |-> TRUE])
  PROVE  /\ OneRow(id)
         /\ row'[id].status = row[id].status /\ row'[id].arp = row[id].arp
         /\ row'[id].auth = a /\ row'[id].shipped = row[id].shipped
BY DEF Shape, Rowwise, RowOK, OneRow, Set

\* An export marks rows as shipped and writes nothing else.
LEMMA MarkRow ==
  ASSUME Shape, NEW e \in Exports, Mark(e)
  PROVE  /\ row' = [i \in Rows |-> row'[i]]
         /\ \A i \in Rows : /\ RowOK(row'[i]) /\ row'[i].status = row[i].status
                            /\ row'[i].auth = row[i].auth /\ row'[i].arp = row[i].arp
                            /\ row[i].shipped => row'[i].shipped
                            /\ row[i].status # "none" /\ i \in {x.id : x \in export[e].ok} => row'[i].shipped
BY DEF Shape, Rowwise, RowOK, Mark

-----------------------------------------------------------------------------
(* One row changes, and nobody reads.                                      *)

NobodyReads == UNCHANGED <<platform, check, export, handed>> /\ putBack \subseteq putBack'

\* A step of one row keeps the shape.
LEMMA ShapeOfOne ==
  ASSUME Shape, NEW id \in Rows, OneRow(id), NobodyReads, gen' \in Nat, gen <= gen',
         row'[id].auth \in 0..gen', row'[id].status = "none" => row'[id].auth = 0
  PROVE  Shape'
<1>1. Rowwise'
  <2>1. ASSUME NEW i \in Rows
        PROVE  RowOK(row'[i]) /\ row'[i].auth \in 0..gen' /\ (row'[i].status = "none" => row'[i].auth = 0)
    BY DEF Shape, Rowwise, OneRow
  <2> QED BY <2>1 DEF Rowwise, OneRow
<1>2. \A x : ItemOK(x) => ItemOK(x)'
  BY DEF ItemOK, Shape, Rowwise
<1>3. Checkwise' /\ Exportwise'
  BY <1>2 DEF Shape, Checkwise, Exportwise, NobodyReads
<1> QED BY <1>1, <1>3 DEF Shape

\* A step of one row keeps what is known of the cookies of the others.
LEMMA CookiesOfOne ==
  ASSUME Shape, Cookies, NEW id \in Rows, OneRow(id), NobodyReads,
         row'[id].arp => platform = "adobe" /\ row'[id].status # "registered",
         row'[id].status = "running" /\ ~row'[id].arp /\ platform = "adobe" => row'[id].auth = 0,
         row'[id].arp /\ row'[id].auth # 0 =>
             \/ Untouched(id) /\ row'[id].auth = row[id].auth
             \/ [id |-> id, auth |-> row'[id].auth] \in putBack'
  PROVE  Cookies'
<1>1. ASSUME NEW i \in Rows, Untouched(i), row'[i].auth = row[i].auth PROVE Untouched(i)'
  BY <1>1 DEF Untouched, Item, Intact, NobodyReads
<1>2. row'[id].arp /\ row'[id].auth # 0 => Untouched(id)'
  BY <1>1 DEF Untouched, Item
<1>3. ASSUME NEW i \in Rows, i # id, row'[i].arp, row'[i].auth # 0 PROVE Untouched(i)'
  BY <1>1, <1>3 DEF Cookies, OneRow
<1> QED BY <1>2, <1>3 DEF Cookies, OneRow, NobodyReads

\* What a response has carried, or may.
Given(x) == x \in handed \/ \E e \in Exports : x \in export[e].ok

\* A step of one row keeps the shipped marks, if it keeps that row's for the same cookies.
LEMMA ShippingOfOne ==
  ASSUME Shape, Shipping, NEW id \in Rows, OneRow(id), UNCHANGED <<platform, export, handed>>,
         putBack \subseteq putBack',
         \A x : ItemOK(x) /\ Given(x) /\ x.id = id /\ x.auth = row'[id].auth
                => x \in putBack' \/ (row[id].auth = x.auth /\ (row[id].shipped => row'[id].shipped))
  PROVE  Shipping'
<1>1. ASSUME NEW x, ItemOK(x), Given(x), Kept(x) PROVE Kept(x)'
  BY <1>1 DEF Kept, Converts, OneRow, ItemOK
<1>2. ASSUME NEW x \in handed PROVE ItemOK(x) /\ Given(x) /\ Kept(x)
  BY DEF Given, Shape, Exportwise, Shipping
<1>3. ASSUME NEW e \in Exports, export[e].pc = "marked", NEW x \in export[e].ok
      PROVE ItemOK(x) /\ Given(x) /\ Kept(x)
  BY <1>3 DEF Given, Shape, Exportwise, Shipping
<1> QED BY <1>1, <1>2, <1>3 DEF Shipping

\* A start that saves what it has read: the cookies it puts back either
\* stood there, or are noted as put back.
LEMMA ClaimsKeep ==
  ASSUME Shape, Claimwise, Cookies, Shipping, NEW k \in claiming, ClaimSave(k)
  PROVE  Shape' /\ Cookies' /\ Shipping'
<1>1. k.id \in Rows /\ k.was.auth \in 0..gen /\ (k.was.arp => platform = "adobe") /\ gen \in Nat
  BY DEF Claimwise, WasOK, Shape, Rowwise
<1>2. CASE UNCHANGED <<row, putBack>>
  <2>1. UNCHANGED <<platform, gen, check, export, handed, row, putBack>>
    BY <1>2 DEF ClaimSave
  <2> QED BY <2>1 DEF Shape, Rowwise, Checkwise, Exportwise, ItemOK, Cookies, Untouched, Item, Intact,
                      Shipping, Kept, Converts
<1>3. CASE /\ row' = [row EXCEPT ![k.id] = Claimed(k.was)]
           /\ putBack' = putBack \cup (IF PutsBack(k) THEN {[id |-> k.id, auth |-> k.was.auth]} ELSE {})
  <2> DEFINE id == k.id
  <2>1. NobodyReads /\ gen' = gen
    BY <1>3 DEF ClaimSave, NobodyReads
  <2>2. /\ OneRow(id) /\ row'[id].status = "running" /\ row'[id].arp = k.was.arp
        /\ row'[id].auth = (IF k.was.arp THEN k.was.auth ELSE 0)
    BY <1>3, ClaimRow
  <2>3. row'[id].auth # 0 =>
            \/ [id |-> id, auth |-> row'[id].auth] \in putBack'
            \/ row[id].arp /\ row'[id].auth = row[id].auth
    BY <1>3, <2>2 DEF PutsBack
  <2>4. Shape'
    BY <1>1, <2>1, <2>2, ShapeOfOne
  <2>5. Cookies'
    <3>1. row'[id].auth # 0 =>
             \/ Untouched(id) /\ row'[id].auth = row[id].auth
             \/ [id |-> id, auth |-> row'[id].auth] \in putBack'
      BY <1>1, <2>3 DEF Cookies
    <3> QED BY <1>1, <2>1, <2>2, <3>1, CookiesOfOne
  <2>6. Shipping'
    <3>1. ASSUME NEW x, ItemOK(x), Given(x), x.id = id, x.auth = row'[id].auth PROVE x \in putBack'
      <4>1. row'[id].auth # 0 /\ x = [id |-> id, auth |-> row'[id].auth]
        BY <3>1 DEF ItemOK
      <4>2. row[id].arp /\ row'[id].auth = row[id].auth => Untouched(id)
        BY <1>1, <4>1 DEF Cookies
      <4>3. ~Intact(id)
        BY <3>1 DEF Intact, Given
      <4>4. row'[id].auth = row[id].auth /\ Untouched(id) => x \in putBack
        BY <4>1, <4>3 DEF Untouched, Item
      <4> QED BY <2>1, <2>3, <4>1, <4>2, <4>4 DEF NobodyReads
    <3> QED BY <1>1, <2>1, <2>2, <3>1, ShippingOfOne DEF NobodyReads
  <2> QED BY <2>4, <2>5, <2>6
<1> QED BY <1>2, <1>3 DEF ClaimSave

\* The other steps of the producers.
LEMMA ProducersKeep ==
  ASSUME Shape, Cookies, Shipping, NEW id \in Rows,
         ClaimRead(id) \/ Register(id) \/ Fail(id) \/ Delete(id)
  PROVE  Shape' /\ Cookies' /\ Shipping'
<1>1. CASE ClaimRead(id)
  <2>1. UNCHANGED <<platform, gen, check, export, handed, row, putBack>>
    BY <1>1 DEF ClaimRead
  <2> QED BY <2>1 DEF Shape, Rowwise, Checkwise, Exportwise, ItemOK, Cookies, Untouched, Item, Intact,
                      Shipping, Kept, Converts
<1>2. CASE Register(id)
  <2>1. NobodyReads
    BY <1>2 DEF Register, NobodyReads
  <2>2. Shape'
    BY <1>2, <2>1, RegisterRow, ShapeOfOne DEF Shape, Rowwise
  <2>3. Cookies'
    BY <1>2, <2>1, RegisterRow, CookiesOfOne
  <2>4. Shipping'
    <3>1. \A x : ItemOK(x) => x.auth # gen + 1
      BY DEF ItemOK, Shape, Rowwise
    <3> QED BY <1>2, <2>1, <3>1, RegisterRow, ShippingOfOne DEF NobodyReads
  <2> QED BY <2>2, <2>3, <2>4
<1>3. CASE Fail(id)
  <2>1. NobodyReads /\ gen' = gen
    BY <1>3 DEF Fail, NobodyReads
  <2>2. Shape'
    BY <1>3, <2>1, FailRow, ShapeOfOne DEF Shape, Rowwise
  <2>3. Cookies'
    BY <1>3, <2>1, FailRow, CookiesOfOne DEF Cookies
  <2>4. Shipping'
    BY <1>3, <2>1, FailRow, ShippingOfOne DEF NobodyReads
  <2> QED BY <2>2, <2>3, <2>4
<1>4. CASE Delete(id)
  <2>1. NobodyReads /\ gen' = gen
    BY <1>4 DEF Delete, NobodyReads
  <2>2. Shape'
    BY <1>4, <2>1, DeleteRow, ShapeOfOne DEF Shape, Rowwise
  <2>3. Cookies'
    BY <1>4, <2>1, DeleteRow, CookiesOfOne
  <2>4. Shipping'
    BY <1>4, <2>1, DeleteRow, ShippingOfOne DEF NobodyReads, ItemOK
  <2> QED BY <2>2, <2>3, <2>4
<1> QED BY <1>1, <1>2, <1>3, <1>4

-----------------------------------------------------------------------------
(* Live checks: rows and sessions.                                         *)

\* A check that neither changes a row nor reads one.
LEMMA CheckOfRead ==
  ASSUME Shape, Cookies, Shipping, CheckOnly, Checkwise',
         row' = [i \in Rows |-> row'[i]],
         \A i \in Rows : /\ RowOK(row'[i]) /\ row'[i].status = row[i].status
                         /\ row'[i].auth = row[i].auth /\ row'[i].arp = row[i].arp
                         /\ row'[i].shipped = row[i].shipped,
         \A c \in Checks : \A x \in check'[c].todo \cup check'[c].restoring :
             x \in check[c].todo \cup check[c].restoring \/ x.auth = row[x.id].auth
  PROVE  Shape' /\ Cookies' /\ Shipping'
<1>1. Shape'
  <2>1. Rowwise'
    BY DEF Shape, Rowwise, CheckOnly
  <2>2. Exportwise'
    BY DEF Shape, Exportwise, ItemOK, CheckOnly
  <2> QED BY <2>1, <2>2 DEF Shape
<1>2. Cookies'
  <2>1. ASSUME NEW i \in Rows, Untouched(i) PROVE Untouched(i)'
    BY <2>1 DEF Untouched, Item, Intact, CheckOnly
  <2> QED BY <2>1 DEF Cookies, CheckOnly
<1>3. Shipping'
  <2>1. \A x : ItemOK(x) /\ Kept(x) => Kept(x)'
    BY DEF Kept, Converts, ItemOK, CheckOnly
  <2> QED BY <2>1 DEF Shipping, Shape, Exportwise, CheckOnly
<1> QED BY <1>1, <1>2, <1>3

\* What a step makes of one check: it reads nothing that it had not.
OneCheck(c) ==
    /\ c \in Checks
    /\ check' = [d \in Checks |-> check'[d]]
    /\ \A d \in Checks \ {c} : check'[d] = check[d]
    /\ CheckOK(check'[c])

\* A step of one check keeps the items of all of them in order.
LEMMA CheckOfOne ==
  ASSUME Shape, NEW c \in Checks, OneCheck(c), CheckOnly,
         \A x \in check'[c].todo \cup check'[c].restoring :
             x \in check[c].todo \cup check[c].restoring \/ (ItemOK(x) /\ x.auth = row[x.id].auth)
  PROVE  /\ Checkwise'
         /\ \A d \in Checks : \A x \in check'[d].todo \cup check'[d].restoring :
             x \in check[d].todo \cup check[d].restoring \/ x.auth = row[x.id].auth
<1>1. \A x : ItemOK(x) => ItemOK(x)'
  BY DEF ItemOK, CheckOnly
<1>2. ASSUME NEW d \in Checks PROVE CheckOK(check'[d])
  BY DEF OneCheck, Shape, Checkwise
<1>3. ASSUME NEW d \in Checks, NEW x \in check'[d].todo \cup check'[d].restoring
      PROVE  ItemOK(x) /\ (x \in check[d].todo \cup check[d].restoring \/ x.auth = row[x.id].auth)
  <2>1. CASE d = c
    BY <2>1, <1>3 DEF Shape, Checkwise
  <2>2. CASE d # c
    BY <2>2, <1>3 DEF Shape, Checkwise, OneCheck
  <2> QED BY <2>1, <2>2
<1> QED BY <1>1, <1>2, <1>3 DEF OneCheck, Checkwise

\* A row of which a session can be read.
LEMMA ItemRead ==
  ASSUME Shape, NEW id \in Rows, row[id].auth /= 0
  PROVE  ItemOK(Item(id)) /\ Item(id).id = id /\ Item(id).auth = row[id].auth
BY DEF Item, ItemOK, Shape, Rowwise

\* A table that is not written is the same, field by field.
LEMMA SameRows ==
  ASSUME Shape, UNCHANGED row
  PROVE  /\ row' = [i \in Rows |-> row'[i]]
         /\ \A i \in Rows : /\ RowOK(row'[i]) /\ row'[i].status = row[i].status
                            /\ row'[i].auth = row[i].auth /\ row'[i].arp = row[i].arp
                            /\ row'[i].shipped = row[i].shipped
BY DEF Shape, Rowwise

\* The start of a check, of all accounts or of one.
LEMMA StartsKeep ==
  ASSUME Shape, Cookies, Shipping, NEW c \in Checks,
         TryStart(c) \/ Load(c) \/ \E id \in Rows : LoadOne(c, id)
  PROVE  Shape' /\ Cookies' /\ Shipping'
<1>1. CheckOnly /\ UNCHANGED row
  BY DEF TryStart, Load, LoadOne
<1>2. /\ OneCheck(c)
      /\ \A x \in check'[c].todo \cup check'[c].restoring :
            x \in check[c].todo \cup check[c].restoring \/ (ItemOK(x) /\ x.auth = row[x.id].auth)
  <2>1. ASSUME NEW pc, check' = [check EXCEPT ![c].pc = pc]
        PROVE  OneCheck(c) /\ check'[c].todo = check[c].todo /\ check'[c].restoring = check[c].restoring
    BY <2>1 DEF Shape, Checkwise, CheckOK, OneCheck
  <2>2. CASE TryStart(c)
    BY <2>1, <2>2 DEF TryStart
  <2>3. ASSUME NEW ids \in SUBSET Checkable,
               check' = [check EXCEPT ![c].pc = "probing", ![c].todo = {Item(id) : id \in ids}]
        PROVE  /\ OneCheck(c)
               /\ check'[c].todo = {Item(id) : id \in ids} /\ check'[c].restoring = check[c].restoring
    BY <2>3 DEF Shape, Checkwise, CheckOK, OneCheck
  <2>4. CASE Load(c)
    BY <2>1, <2>3, <2>4, ItemRead DEF Load, Checkable
  <2>5. ASSUME NEW id \in Rows, LoadOne(c, id)
        PROVE  OneCheck(c) /\ check'[c].todo = {Item(id)} /\ check'[c].restoring = check[c].restoring
    BY <2>5 DEF LoadOne, Shape, Checkwise, CheckOK, OneCheck
  <2>6. CASE \E id \in Rows : LoadOne(c, id)
    <3>1. PICK id \in Rows : LoadOne(c, id)
      BY <2>6
    <3>2. ItemOK(Item(id)) /\ Item(id).id = id /\ Item(id).auth = row[id].auth
      BY <3>1, ItemRead DEF LoadOne, Checkable
    <3> QED BY <2>5, <3>1, <3>2
  <2> QED BY <2>2, <2>4, <2>6
<1> QED BY <1>1, <1>2, CheckOfOne, CheckOfRead, SameRows

\* A verdict is saved; what is left to restore or to count comes of what was
\* to be checked.
LEMMA VerdictsKeep ==
  ASSUME Shape, Cookies, Shipping, NEW c \in Checks, NEW item \in check[c].todo, NEW o,
         Apply(c, item, o),
         \/ Judged(c, item, o)
         \/ check' = [check EXCEPT ![c].todo = @ \ {item}, ![c].restoring = @ \cup {item}]
  PROVE  Shape' /\ Cookies' /\ Shipping'
<1>1. CheckOnly /\ item.id \in Rows /\ Update(item.id, [alive |-> o.verdict])
  BY DEF Apply, Shape, Checkwise, ItemOK
<1>2. /\ OneCheck(c)
      /\ check'[c].todo \cup check'[c].restoring \subseteq check[c].todo \cup check[c].restoring
  <2>1. CASE Judged(c, item, o)
    BY <2>1 DEF Judged, Shape, Checkwise, CheckOK, OneCheck
  <2>2. CASE check' = [check EXCEPT ![c].todo = @ \ {item}, ![c].restoring = @ \cup {item}]
    BY <2>2 DEF Shape, Checkwise, CheckOK, OneCheck
  <2> QED BY <2>1, <2>2
<1> QED BY <1>1, <1>2, AliveRow, CheckOfOne, CheckOfRead

\* The count of a verdict, and the end of a check.
LEMMA CountsKeep ==
  ASSUME Shape, Cookies, Shipping, NEW c \in Checks,
         Finish(c) \/ \E j \in check[c].judged : Tally(c, j)
  PROVE  Shape' /\ Cookies' /\ Shipping'
<1>1. CheckOnly /\ UNCHANGED row
  BY DEF Finish, Tally
<1>2. /\ OneCheck(c)
      /\ check'[c].todo \cup check'[c].restoring \subseteq check[c].todo \cup check[c].restoring
  <2>1. CASE Finish(c)
    <3>1. CheckOK([NoCheck EXCEPT !.pc = "over"])
          /\ [NoCheck EXCEPT !.pc = "over"].todo = {} /\ [NoCheck EXCEPT !.pc = "over"].restoring = {}
      BY DEF NoCheck, CheckOK
    <3> QED BY <2>1, <3>1 DEF Finish, Shape, Checkwise, OneCheck
  <2>2. ASSUME NEW j, Tally(c, j)
        PROVE  OneCheck(c) /\ check'[c].todo = check[c].todo /\ check'[c].restoring = check[c].restoring
    BY <2>2 DEF Tally, Shape, Checkwise, CheckOK, OneCheck
  <2> QED BY <2>1, <2>2
<1> QED BY <1>1, <1>2, CheckOfOne, CheckOfRead, SameRows

\* An account comes back: with the session of its creation, which no export
\* can have read before.
LEMMA RestoreKeeps ==
  ASSUME Shape, Cookies, Shipping, NEW c \in Checks, NEW item \in check[c].restoring, Restore(c, item)
  PROVE  Shape' /\ Cookies' /\ Shipping'
<1>1. /\ CheckOnly /\ OneCheck(c)
      /\ check'[c].todo \cup check'[c].restoring \subseteq check[c].todo \cup check[c].restoring
  BY DEF Restore, Shape, Checkwise, CheckOK, OneCheck
<1>2. CASE UNCHANGED row
  BY <1>1, <1>2, CheckOfOne, CheckOfRead, SameRows
<1>3. CASE Restorable(item.id) /\ Set(item.id, [status |-> "registered", arp |-> FALSE])
  <2> DEFINE id == item.id
  <2>1. id \in Rows
    BY DEF Shape, Checkwise, ItemOK
  <2>2. /\ OneRow(id) /\ row'[id].status = "registered" /\ ~row'[id].arp
        /\ row'[id].auth = row[id].auth /\ row'[id].shipped = row[id].shipped
    BY <1>3, <2>1, RestoredRow
  <2>3. Shape'
    <3>1. Rowwise'
      BY <1>1, <2>2 DEF Shape, Rowwise, OneRow, CheckOnly
    <3>2. Exportwise'
      BY <1>1 DEF Shape, Exportwise, ItemOK, CheckOnly
    <3> QED BY <1>1, <3>1, <3>2, CheckOfOne DEF Shape
  <2>4. Cookies'
    <3>1. ASSUME NEW i \in Rows, i # id, Untouched(i) PROVE Untouched(i)'
      BY <1>1, <2>2, <3>1 DEF Untouched, Item, Intact, OneCheck, OneRow, CheckOnly
    <3> QED BY <1>1, <2>2, <3>1 DEF Cookies, OneRow, CheckOnly
  <2>5. Shipping'
    BY <1>1, <2>1, <2>2, ShippingOfOne DEF CheckOnly
  <2> QED BY <2>3, <2>4, <2>5
<1> QED BY <1>2, <1>3 DEF Restore

-----------------------------------------------------------------------------
(* Exports.                                                                *)

\* Only one export changes.
OneExport(e) ==
    /\ e \in Exports
    /\ export' = [d \in Exports |-> export'[d]]
    /\ \A d \in Exports \ {e} : export'[d] = export[d]
    /\ ExportOK(export'[e])

\* The registered accounts are read, never one that was given up.
LEMMA ReadKeeps ==
  ASSUME Shape, Cookies, Shipping, NEW e \in Exports, NEW convert \in BOOLEAN, Read(e, convert),
         convert => platform = "grok"
  PROVE  Shape' /\ Cookies' /\ Shipping'
<1>1. PICK todo, ok, pc, unshipped :
        /\ export' = [export EXCEPT ![e] = [pc |-> pc, convert |-> convert, unshipped |-> unshipped,
                                            todo |-> todo, ok |-> ok]]
        /\ pc \in {"over", "converting"}
        /\ \A x \in todo \cup ok : \E id \in Rows :
              x = Item(id) /\ row[id].status = "registered" /\ row[id].auth /= 0
        /\ todo \cap ok = {} /\ (~convert => todo = {})
  <2>1. PICK unshipped \in BOOLEAN, ids \in SUBSET Rows :
          LET found == {id \in Rows : row[id].status = "registered" /\ row[id].auth /= 0
                                      /\ IF unshipped THEN ~row[id].shipped ELSE id \in ids}
              now == IF convert THEN {id \in found : row[id].oauth} ELSE found
          IN  export' = [export EXCEPT ![e] =
                    [pc |-> IF found = {} THEN "over" ELSE "converting",
                     convert |-> convert, unshipped |-> unshipped,
                     todo |-> {Item(id) : id \in found \ now}, ok |-> {Item(id) : id \in now}]]
    BY DEF Read
  <2> DEFINE found == {id \in Rows : row[id].status = "registered" /\ row[id].auth /= 0
                                      /\ IF unshipped THEN ~row[id].shipped ELSE id \in ids}
             now == IF convert THEN {id \in found : row[id].oauth} ELSE found
             todo == {Item(id) : id \in found \ now}
             ok == {Item(id) : id \in now}
  <2>2. \A x \in todo \cup ok : \E id \in Rows :
              x = Item(id) /\ row[id].status = "registered" /\ row[id].auth /= 0
    OBVIOUS
  <2>3. todo \cap ok = {}
    BY ItemRead
  <2>4. ~convert => todo = {}
    OBVIOUS
  <2> HIDE DEF todo, ok
  <2> WITNESS todo, ok, IF found = {} THEN "over" ELSE "converting", unshipped
  <2> QED BY <2>1, <2>2, <2>3, <2>4 DEF todo, ok
<1>2. /\ OneExport(e) /\ export'[e].todo = todo /\ export'[e].ok = ok
      /\ export'[e].pc = pc /\ export'[e].convert = convert
  BY <1>1 DEF Shape, Exportwise, ExportOK, OneExport
<1>3. ExportOnly /\ UNCHANGED <<row, handed>> /\ export[e].pc = "idle"
  BY DEF Read
<1>4. \A x \in todo \cup ok : ItemOK(x) /\ row[x.id].status = "registered"
  BY <1>1, ItemRead
<1>5. Shape'
  BY <1>2, <1>3, <1>4 DEF Shape, Rowwise, Checkwise, Exportwise, ItemOK, OneExport, ExportOnly
<1>6. Cookies'
  BY <1>2, <1>3, <1>4 DEF Cookies, Untouched, Item, Intact, OneExport, ExportOnly
<1>7. Shipping'
  <2>1. \A x : Kept(x) => Kept(x)'
    BY <1>2, <1>3 DEF Kept, Converts, ExportOnly, OneExport
  <2> QED BY <1>1, <1>2, <1>3, <2>1 DEF Shipping, OneExport, ExportOnly
<1> QED BY <1>5, <1>6, <1>7

\* What an export leaves out.
LEMMA LeftKeeps ==
  ASSUME Shape, Cookies, Shipping, NEW e \in Exports, NEW item,
         downloadGrokOAuth(e, item) \/ downloadGrokConsole(e, item)
  PROVE  Shape' /\ Cookies' /\ Shipping'
<1>1. ExportOnly /\ UNCHANGED <<row, handed>> /\ export[e].pc = "converting"
  BY DEF downloadGrokOAuth, downloadGrokConsole, Left
<1>2. /\ OneExport(e) /\ export'[e].todo = export[e].todo \ {item}
      /\ export'[e].ok = export[e].ok \ {item}
      /\ export'[e].pc = "converting" /\ export'[e].convert = export[e].convert
  <2>1. /\ export' = [export EXCEPT ![e].todo = @ \ {item}, ![e].ok = @ \ {item}]
        /\ export[e].pc = "converting"
    BY DEF downloadGrokOAuth, downloadGrokConsole, Left
  <2> QED BY <2>1 DEF Shape, Exportwise, ExportOK, OneExport
<1>3. export[e].convert => item \notin export[e].ok
  BY DEF downloadGrokOAuth, downloadGrokConsole, Shipping
<1>4. Shape'
  BY <1>1, <1>2 DEF Shape, Rowwise, Checkwise, Exportwise, ItemOK, OneExport, ExportOnly
<1>5. Cookies'
  BY <1>1, <1>2 DEF Cookies, Untouched, Item, Intact, OneExport, ExportOnly
<1>6. Shipping'
  <2>1. \A x : Kept(x) => Kept(x)'
    BY <1>1, <1>2, <1>3 DEF Kept, Converts, ExportOnly, OneExport
  <2> QED BY <1>1, <1>2, <2>1 DEF Shipping, OneExport, ExportOnly
<1> QED BY <1>4, <1>5, <1>6

\* An export puts the session that it has read back: from now on it answers
\* for the mark.
LEMMA SaveKeeps ==
  ASSUME Shape, Cookies, Shipping, NEW e \in Exports, NEW item \in export[e].todo, saveGrokOAuth(e, item)
  PROVE  Shape' /\ Cookies' /\ Shipping'
<1>1. ExportOnly /\ UNCHANGED handed /\ export[e].pc = "converting"
  BY DEF saveGrokOAuth
<1>2. /\ OneExport(e) /\ export'[e].todo = export[e].todo \ {item}
      /\ export'[e].ok = export[e].ok \cup {item}
      /\ export'[e].pc = "converting" /\ export'[e].convert = export[e].convert
  BY DEF saveGrokOAuth, Shape, Exportwise, ExportOK, OneExport
<1>3. platform = "grok" /\ export[e].convert /\ ItemOK(item)
  BY DEF Shipping, Shape, Exportwise
<1>4. \A x : ItemOK(x) => ItemOK(x)'
  BY <1>1 DEF ItemOK, ExportOnly
<1>5. Checkwise' /\ Exportwise'
  <2>1. Checkwise'
    BY <1>1, <1>4 DEF Shape, Checkwise, ExportOnly
  <2> QED BY <1>1, <1>2, <1>3, <1>4, <2>1 DEF Shape, Exportwise, OneExport
<1>6. \A i \in Rows : ~row[i].arp
  BY <1>3 DEF Cookies
<1>7. ASSUME NEW x, Kept(x), ItemOK(x), row'[x.id].auth = row[x.id].auth,
             row'[x.id].shipped = row[x.id].shipped
      PROVE  Kept(x)'
  BY <1>1, <1>2, <1>7 DEF Kept, Converts, ExportOnly, OneExport
<1>8. CASE UNCHANGED row
  <2>1. \A x : ItemOK(x) /\ Kept(x) => Kept(x)'
    BY <1>7, <1>8 DEF ItemOK
  <2>2. Shape'
    BY <1>1, <1>5, <1>8 DEF Shape, Rowwise, ExportOnly
  <2>3. Cookies'
    BY <1>1, <1>3, <1>6, <1>8 DEF Cookies, ExportOnly
  <2>4. Shipping'
    BY <1>1, <1>2, <1>3, <2>1 DEF Shipping, Shape, Exportwise, OneExport, ExportOnly
  <2> QED BY <2>2, <2>3, <2>4
<1>9. CASE row[item.id].status /= "none" /\ Set(item.id, [auth |-> item.auth, oauth |-> TRUE])
  <2> DEFINE id == item.id
  <2>1. id \in Rows
    BY <1>3 DEF ItemOK
  <2>2. /\ OneRow(id) /\ row'[id].status = row[id].status /\ row'[id].arp = row[id].arp
        /\ row'[id].auth = item.auth /\ row'[id].shipped = row[id].shipped
    BY <1>9, <2>1, SavedRow
  <2>3. Shape'
    <3>1. Rowwise'
      BY <1>1, <1>3, <1>9, <2>2 DEF Shape, Rowwise, OneRow, ItemOK, ExportOnly
    <3> QED BY <1>5, <3>1 DEF Shape
  <2>4. Cookies'
    BY <1>1, <1>3, <1>6, <2>2 DEF Cookies, OneRow, ExportOnly
  <2>5. ASSUME NEW x, ItemOK(x), Kept(x) PROVE Kept(x)'
    <3>1. CASE x.id # id
      BY <1>7, <2>2, <2>5, <3>1 DEF OneRow, ItemOK
    <3>2. CASE x.id = id /\ x.auth = item.auth
      <4>1. x = item
        BY <1>3, <2>5, <3>2 DEF ItemOK
      <4> QED BY <1>2, <1>3, <4>1 DEF Kept, Converts
    <3>3. CASE x.id = id /\ x.auth # item.auth
      BY <2>2, <3>3 DEF Kept
    <3> QED BY <3>1, <3>2, <3>3
  <2>6. Shipping'
    BY <1>1, <1>2, <1>3, <2>5 DEF Shipping, Shape, Exportwise, OneExport, ExportOnly
  <2> QED BY <2>3, <2>4, <2>6
<1> QED BY <1>8, <1>9 DEF saveGrokOAuth, Update

\* The rows of an export are marked: whatever stands in them by then.
LEMMA MarkKeeps ==
  ASSUME Shape, Cookies, Shipping, NEW e \in Exports, Mark(e)
  PROVE  Shape' /\ Cookies' /\ Shipping'
<1>1. ExportOnly /\ UNCHANGED handed /\ export[e].pc = "converting" /\ export[e].todo = {}
  BY DEF Mark
<1>2. /\ OneExport(e) /\ export'[e].todo = export[e].todo /\ export'[e].ok = export[e].ok
      /\ export'[e].pc \in {"over", "marked"} /\ export'[e].convert = export[e].convert
  BY DEF Mark, Shape, Exportwise, ExportOK, OneExport
<1>3. /\ row' = [i \in Rows |-> row'[i]]
      /\ \A i \in Rows : /\ RowOK(row'[i]) /\ row'[i].status = row[i].status
                         /\ row'[i].auth = row[i].auth /\ row'[i].arp = row[i].arp
                         /\ row[i].shipped => row'[i].shipped
                         /\ row[i].status # "none" /\ i \in {x.id : x \in export[e].ok} => row'[i].shipped
  BY MarkRow
<1>4. Shape'
  <2>1. \A x : ItemOK(x) => ItemOK(x)'
    BY <1>1 DEF ItemOK, ExportOnly
  <2>2. Rowwise'
    BY <1>1, <1>3 DEF Shape, Rowwise, ExportOnly
  <2>3. Checkwise' /\ Exportwise'
    BY <1>1, <1>2, <2>1 DEF Shape, Checkwise, Exportwise, OneExport, ExportOnly
  <2> QED BY <2>2, <2>3 DEF Shape
<1>5. Cookies'
  <2>1. ASSUME NEW i \in Rows, Untouched(i) PROVE Untouched(i)'
    BY <1>1, <1>2, <1>3, <2>1 DEF Untouched, Item, Intact, OneExport, ExportOnly
  <2> QED BY <1>1, <1>3, <2>1 DEF Cookies, ExportOnly
<1>6. ASSUME NEW x \in export[e].ok PROVE Kept(x)'
  <2>1. ItemOK(x)
    BY DEF Shape, Exportwise
  <2>2. row[x.id].status = "none" => row'[x.id].auth # x.auth
    BY <1>3, <2>1 DEF Shape, Rowwise, ItemOK
  <2>3. row[x.id].status # "none" => row'[x.id].shipped
    BY <1>3, <2>1 DEF ItemOK
  <2> QED BY <2>2, <2>3 DEF Kept
<1>7. ASSUME NEW x, ItemOK(x), Kept(x) PROVE Kept(x)'
  <2>1. CASE x \in export[e].ok
    BY <1>6, <2>1
  <2>2. CASE x \notin export[e].ok
    <3>1. /\ row'[x.id].auth = row[x.id].auth /\ (row[x.id].shipped => row'[x.id].shipped)
          /\ UNCHANGED putBack
      BY <1>1, <1>3, <1>7 DEF ItemOK, ExportOnly
    <3>2. ASSUME NEW d \in Exports, Converts(d), x \in export[d].ok PROVE Converts(d)' /\ x \in export'[d].ok
      BY <1>2, <2>2, <3>2 DEF Converts, OneExport
    <3> QED BY <1>7, <3>1, <3>2 DEF Kept
  <2> QED BY <2>1, <2>2
<1>8. Shipping'
  BY <1>1, <1>2, <1>6, <1>7 DEF Shipping, Shape, Exportwise, OneExport, ExportOnly
<1> QED BY <1>4, <1>5, <1>8

\* The response: what was marked is handed out.
LEMMA RespondKeeps ==
  ASSUME Shape, Cookies, Shipping, NEW e \in Exports, Respond(e)
  PROVE  Shape' /\ Cookies' /\ Shipping'
<1>1. /\ ExportOnly /\ UNCHANGED row /\ export[e].pc = "marked"
      /\ handed' = handed \cup export[e].ok
  BY DEF Respond
<1>2. /\ OneExport(e) /\ export'[e].todo = {} /\ export'[e].ok = {}
      /\ export'[e].pc = "over" /\ ~export'[e].convert
  <2>1. /\ ExportOK([NoExport EXCEPT !.pc = "over"]) /\ ~[NoExport EXCEPT !.pc = "over"].convert
        /\ [NoExport EXCEPT !.pc = "over"].pc = "over"
        /\ [NoExport EXCEPT !.pc = "over"].todo = {} /\ [NoExport EXCEPT !.pc = "over"].ok = {}
    BY DEF NoExport, ExportOK
  <2> QED BY <2>1 DEF Respond, Shape, Exportwise, OneExport
<1>3. Shape'
  BY <1>1, <1>2 DEF Shape, Rowwise, Checkwise, Exportwise, ItemOK, OneExport, ExportOnly
<1>4. Cookies'
  BY <1>1, <1>2 DEF Cookies, Untouched, Item, Intact, OneExport, ExportOnly
<1>5. Shipping'
  <2>1. \A x : Kept(x) => Kept(x)'
    BY <1>1, <1>2 DEF Kept, Converts, ExportOnly, OneExport
  <2> QED BY <1>1, <1>2, <2>1 DEF Shipping, OneExport, ExportOnly
<1> QED BY <1>3, <1>4, <1>5

-----------------------------------------------------------------------------
(* Verdicts.                                                               *)

\* Whatever the answers, a check ends with one of the three verdicts, and a
\* Grok check with "dead" only after an answer that denies the account.
LEMMA JudgeTallied ==
  ASSUME NEW a, NEW S, NEW T
  PROVE  Judge(a, S, T) \in Tallied
BY DEF Judge, Tallied

\* Every verdict has a counter.
LEMMA OutcomeTallied ==
  ASSUME NEW o \in CheckAdobe \cup CheckGrok \cup CheckLeonardo \cup CheckLovart
  PROVE  o.verdict \in Tallied
<1>1. \A v, S : Outcome(v, S).verdict = v
  BY DEF Outcome
<1>2. "unknown" \in Tallied
  BY DEF Tallied
<1>3. \A a : /\ probeAdobeToken(a) \in Tallied /\ probeLeonardoSession(a) \in Tallied
             /\ callLovartUserInfo(a) \in Tallied /\ consoleStatusFor(a) \in Tallied
             /\ probeGrokRefresh(a) \in Tallied
  BY JudgeTallied DEF probeAdobeToken, probeLeonardoSession, callLovartUserInfo,
                      consoleStatusFor, probeGrokRefresh
<1>4. \A p, q, r, s : probeLovartSession(p, q, r, s) \in Tallied
  BY <1>2, <1>3 DEF probeLovartSession
<1>5. \A t, u : ProbeConsole(t, u) \in Tallied
  BY <1>3 DEF ProbeConsole, Tallied
<1>6. \A p, q, r, s, t : probeGrokOne(p, q, r, s, t) \in Tallied
  BY <1>2, <1>3, <1>5 DEF probeGrokOne
<1>7. \E v, S : o = Outcome(v, S) /\ v \in Tallied
  <2>1. CASE o = Outcome("unknown", {})
    BY <1>2, <2>1
  <2>2. ASSUME NEW a \in Answers, o = Outcome(probeAdobeToken(a), {a}) PROVE  \E v, S : o = Outcome(v, S) /\ v \in Tallied
    BY <1>3, <2>2
  <2>3. ASSUME NEW a \in Answers, o = Outcome(probeLeonardoSession(a), {a}) PROVE  \E v, S : o = Outcome(v, S) /\ v \in Tallied
    BY <1>3, <2>3
  <2>4. ASSUME NEW x, o = Outcome(probeLovartSession(x[1], x[2], x[3], x[4]), {x[3], x[4]})
        PROVE  \E v, S : o = Outcome(v, S) /\ v \in Tallied
    BY <1>4, <2>4
  <2>5. ASSUME NEW x, o = Outcome(probeGrokOne(x[1], x[2], x[3], x[4], x[5]), {x[3], x[4], x[5]})
        PROVE  \E v, S : o = Outcome(v, S) /\ v \in Tallied
    BY <1>6, <2>5
  <2> QED BY <2>1, <2>2, <2>3, <2>4, <2>5 DEF CheckAdobe, CheckLeonardo, CheckLovart, CheckGrok
<1> QED BY <1>1, <1>7

\* A Grok account is called dead only on an answer that denies it.
LEMMA GrokDeadIsDenied ==
  ASSUME NEW o \in CheckGrok, o.verdict = "dead"
  PROVE  o.denied
<1>1. \A v, S : Outcome(v, S).verdict = v /\ (Outcome(v, S).denied <=> S \cap Denials /= {})
  BY DEF Outcome
<1>2. ASSUME NEW p, NEW q, NEW t, NEW u, NEW w, probeGrokOne(p, q, t, u, w) = "dead"
      PROVE  {t, u, w} \cap Denials /= {}
  <2>1. \A a : consoleStatusFor(a) = "dead" => a \in Denials
    BY DEF consoleStatusFor, Judge, Denials
  <2>2. \A a : probeGrokRefresh(a) = "dead" => a \in Denials
    BY DEF probeGrokRefresh, Judge, Denials
  <2>3. ProbeConsole(t, u) = "dead" => t \in Denials \/ u \in Denials
    BY <2>1 DEF ProbeConsole
  <2>4. t \in Denials \/ u \in Denials \/ w \in Denials
    BY <1>2, <2>2, <2>3 DEF probeGrokOne
  <2> QED BY <2>4
<1>3. CASE o = Outcome("unknown", {})
  BY <1>1, <1>3
<1>4. ASSUME NEW x \in BOOLEAN \X BOOLEAN \X Answers \X Answers \X Answers,
             o = Outcome(probeGrokOne(x[1], x[2], x[3], x[4], x[5]), {x[3], x[4], x[5]})
      PROVE  o.denied
  BY <1>1, <1>2, <1>4
<1> QED BY <1>3, <1>4 DEF CheckGrok

-----------------------------------------------------------------------------
(* The counters.                                                           *)

\* A check's own books: an account is in one place only, and its verdict is one
\* of the three that are counted.
Loads(k) ==
    /\ IsFiniteSet(k.todo) /\ IsFiniteSet(k.restoring) /\ IsFiniteSet(k.judged)
    /\ k.todo \cap k.restoring = {}
    /\ \A x, y \in k.todo \cup k.restoring : x.id = y.id => x = y
    /\ \A x \in k.todo \cup k.restoring, j \in k.judged : x.id # j[1]
    /\ \A j \in k.judged : j[2] \in Tallied
    /\ k.pc # "probing" => k.todo = {} /\ k.restoring = {} /\ k.judged = {}
    /\ k.pc \in {"idle", "loading"} => ~k.one

Waiting(k) == Cardinality(k.todo \cup k.restoring) + Cardinality(k.judged)

RunnerOK ==
    /\ DOMAIN runner = {"running", "total", "done", "alive", "dead", "unknown"}
    /\ runner.running \in BOOLEAN
    /\ runner.total \in Nat /\ runner.done \in Nat
    /\ runner.alive \in Nat /\ runner.dead \in Nat /\ runner.unknown \in Nat
    /\ runner.done = runner.alive + runner.dead + runner.unknown

\* One batch at a time, and the runner runs just as long; the total is what
\* is counted and what is on its way.
Counted ==
    /\ RunnerOK
    /\ \A c \in Checks : Loads(check[c])
    /\ \A c, d \in Batches : c = d
    /\ runner.running <=> Batches # {}
    /\ \A c \in Batches : IF check[c].pc = "loading" THEN runner.total = 0 /\ runner.done = 0
                          ELSE runner.total = runner.done + Waiting(check[c])
    /\ ~runner.running => runner.done = runner.total

\* One account less on one side, one verdict more on the other.
LEMMA WaitingMoves ==
  ASSUME NEW k, Loads(k), NEW x \in k.todo \cup k.restoring, NEW j, j \notin k.judged
  PROVE  /\ Cardinality((k.todo \cup k.restoring) \ {x}) + Cardinality(k.judged \cup {j}) = Waiting(k)
         /\ IsFiniteSet(k.judged \cup {j})
<1> DEFINE U == k.todo \cup k.restoring
<1>1. IsFiniteSet(U) /\ IsFiniteSet(k.judged)
  BY FS_Union DEF Loads
<1>2. Cardinality(U) \in Nat /\ Cardinality(k.judged) \in Nat
  BY <1>1, FS_CardinalityType
<1>3. Cardinality(U \ {x}) = Cardinality(U) - 1
  BY <1>1, FS_RemoveElement
<1>4. Cardinality(k.judged \cup {j}) = Cardinality(k.judged) + 1 /\ IsFiniteSet(k.judged \cup {j})
  BY <1>1, FS_AddElement
<1> HIDE DEF U
<1>5. Cardinality(U \ {x}) + Cardinality(k.judged \cup {j}) = Cardinality(U) + Cardinality(k.judged)
  BY <1>2, <1>3, <1>4
<1> QED BY <1>4, <1>5 DEF U, Waiting

\* One verdict less.
LEMMA WaitingCounts ==
  ASSUME NEW k, Loads(k), NEW j \in k.judged
  PROVE  /\ Cardinality(k.todo \cup k.restoring) + Cardinality(k.judged \ {j}) + 1 = Waiting(k)
         /\ IsFiniteSet(k.judged \ {j})
         /\ Waiting(k) \in Nat
         /\ Cardinality(k.todo \cup k.restoring) + Cardinality(k.judged \ {j}) \in Nat
<1>1. IsFiniteSet(k.todo \cup k.restoring) /\ IsFiniteSet(k.judged)
  BY FS_Union DEF Loads
<1>2. Cardinality(k.todo \cup k.restoring) \in Nat /\ Cardinality(k.judged) \in Nat
  BY <1>1, FS_CardinalityType
<1>3. Cardinality(k.judged \ {j}) = Cardinality(k.judged) - 1 /\ IsFiniteSet(k.judged \ {j})
  BY <1>1, FS_RemoveElement
<1>4. Cardinality(k.judged \ {j}) \in Nat
  BY <1>3, FS_CardinalityType
<1> QED BY <1>2, <1>3, <1>4 DEF Waiting

\* As many accounts are loaded as were found.
LEMMA LoadedAll ==
  ASSUME NEW ids \in SUBSET Rows
  PROVE  /\ IsFiniteSet(ids) /\ Cardinality(ids) \in Nat
         /\ IsFiniteSet({Item(id) : id \in ids})
         /\ Cardinality({Item(id) : id \in ids}) = Cardinality(ids)
<1>1. IsFiniteSet(ids)
  BY PanelAssumption, FS_Subset
<1> DEFINE S == {Item(id) : id \in ids}
           f == [id \in ids |-> Item(id)]
<1>2. f \in Bijection(ids, S)
  <2>1. f \in [ids -> S]
    OBVIOUS
  <2>2. \A a, b \in ids : f[a] = f[b] => a = b
    BY DEF Item
  <2>3. \A s \in S : \E a \in ids : f[a] = s
    OBVIOUS
  <2> QED BY <2>1, <2>2, <2>3 DEF Bijection, Injection, Surjection, IsInjective
<1>3. ExistsBijection(ids, S)
  BY <1>2 DEF ExistsBijection
<1> QED BY <1>1, <1>3, FS_Bijection, FS_CardinalityType

\* An account that was checked waits to be counted, or to be restored first.
LEMMA MoveCounted ==
  ASSUME Counted, NEW c \in Checks, OneCheck(c), UNCHANGED runner,
         check'[c].pc = check[c].pc, check'[c].one = check[c].one,
         Loads(check'[c]), Waiting(check'[c]) = Waiting(check[c])
  PROVE  Counted'
<1>1. Batches' = Batches
  BY DEF Batches, OneCheck
<1>2. ASSUME NEW d \in Checks
      PROVE  /\ Loads(check'[d]) /\ Waiting(check'[d]) = Waiting(check[d])
             /\ check'[d].pc = check[d].pc
  BY DEF Counted, OneCheck
<1>3. RunnerOK' /\ Batches \subseteq Checks
  BY DEF Counted, RunnerOK, Batches
<1> QED BY <1>1, <1>2, <1>3 DEF Counted

\* A verdict moves its item from the list to the judged.
LEMMA VerdictCounted ==
  ASSUME Shape, Counted, NEW c \in Checks, NEW item \in check[c].todo, NEW o, o.verdict \in Tallied,
         Apply(c, item, o),
         \/ Judged(c, item, o)
         \/ check' = [check EXCEPT ![c].todo = @ \ {item}, ![c].restoring = @ \cup {item}]
  PROVE  Counted'
<1> DEFINE k == check[c]
           j == <<item.id, o.verdict, o.verdict = "dead" /\ o.denied>>
<1>1. UNCHANGED runner /\ k.pc = "probing" /\ Loads(k) /\ CheckOK(k) /\ item \in k.todo
  BY DEF Apply, Counted, Shape, Checkwise
<1>2. j \notin k.judged /\ j[1] = item.id /\ j[2] = o.verdict
  BY <1>1 DEF Loads
<1>3. CASE Judged(c, item, o)
  <2>1. /\ OneCheck(c) /\ check'[c].pc = k.pc /\ check'[c].one = k.one
        /\ check'[c].todo = k.todo \ {item} /\ check'[c].restoring = k.restoring
        /\ check'[c].judged = k.judged \cup {j}
    BY <1>3 DEF Judged, Shape, Checkwise, CheckOK, OneCheck
  <2>2. (k.todo \ {item}) \cup k.restoring = (k.todo \cup k.restoring) \ {item}
    BY <1>1 DEF Loads
  <2>3. Waiting(check'[c]) = Waiting(k) /\ IsFiniteSet(k.judged \cup {j})
    <3> HIDE DEF j, k
    <3>1. /\ Cardinality((k.todo \cup k.restoring) \ {item}) + Cardinality(k.judged \cup {j}) = Waiting(k)
          /\ IsFiniteSet(k.judged \cup {j})
      BY <1>1, <1>2, WaitingMoves
    <3> QED BY <2>1, <2>2, <3>1 DEF Waiting
  <2>4. Loads(check'[c])
    <3>1. IsFiniteSet(k.todo \ {item})
      BY <1>1, FS_RemoveElement DEF Loads
    <3> HIDE DEF j, k
    <3>2. ASSUME NEW x \in (k.todo \ {item}) \cup k.restoring, NEW l \in k.judged \cup {j} PROVE x.id # l[1]
      BY <1>1, <1>2 DEF Loads
    <3> QED BY <1>1, <1>2, <2>1, <2>3, <3>1, <3>2 DEF Loads
  <2> QED BY <1>1, <2>1, <2>3, <2>4, MoveCounted
<1>4. CASE check' = [check EXCEPT ![c].todo = @ \ {item}, ![c].restoring = @ \cup {item}]
  <2>1. /\ OneCheck(c) /\ check'[c].pc = k.pc /\ check'[c].one = k.one
        /\ check'[c].todo = k.todo \ {item} /\ check'[c].restoring = k.restoring \cup {item}
        /\ check'[c].judged = k.judged
    BY <1>4 DEF Shape, Checkwise, CheckOK, OneCheck
  <2>2. (k.todo \ {item}) \cup (k.restoring \cup {item}) = k.todo \cup k.restoring
    OBVIOUS
  <2>3. IsFiniteSet(k.todo \ {item}) /\ IsFiniteSet(k.restoring \cup {item})
    BY <1>1, FS_RemoveElement, FS_AddElement DEF Loads
  <2>4. Loads(check'[c]) /\ Waiting(check'[c]) = Waiting(k)
    BY <1>1, <2>1, <2>2, <2>3 DEF Loads, Waiting
  <2> QED BY <1>1, <2>1, <2>4, MoveCounted
<1> QED BY <1>3, <1>4

\* A restore moves its item to the judged ones.
LEMMA RestoreCounted ==
  ASSUME Shape, Counted, NEW c \in Checks, NEW item \in check[c].restoring, Restore(c, item)
  PROVE  Counted'
<1> DEFINE k == check[c]
           j == <<item.id, "alive", FALSE>>
<1>1. UNCHANGED runner /\ k.pc = "probing" /\ Loads(k) /\ CheckOK(k) /\ item \in k.restoring
  BY DEF Restore, Counted, Loads, Shape, Checkwise
<1>2. j \notin k.judged /\ j[1] = item.id /\ j[2] \in Tallied
  BY <1>1 DEF Loads, Tallied
<1>3. /\ OneCheck(c) /\ check'[c].pc = k.pc /\ check'[c].one = k.one
      /\ check'[c].todo = k.todo /\ check'[c].restoring = k.restoring \ {item}
      /\ check'[c].judged = k.judged \cup {j}
  BY DEF Restore, Shape, Checkwise, CheckOK, OneCheck
<1>4. k.todo \cup (k.restoring \ {item}) = (k.todo \cup k.restoring) \ {item}
  BY <1>1 DEF Loads
<1>5. Waiting(check'[c]) = Waiting(k) /\ IsFiniteSet(k.judged \cup {j})
  <2> HIDE DEF j, k
  <2>1. /\ Cardinality((k.todo \cup k.restoring) \ {item}) + Cardinality(k.judged \cup {j}) = Waiting(k)
        /\ IsFiniteSet(k.judged \cup {j})
    BY <1>1, <1>2, WaitingMoves
  <2> QED BY <1>3, <1>4, <2>1 DEF Waiting
<1>6. Loads(check'[c])
  <2>1. IsFiniteSet(k.restoring \ {item})
    BY <1>1, FS_RemoveElement DEF Loads
  <2> HIDE DEF j, k
  <2>2. ASSUME NEW x \in k.todo \cup (k.restoring \ {item}), NEW l \in k.judged \cup {j} PROVE x.id # l[1]
    BY <1>1, <1>2 DEF Loads
  <2> QED BY <1>1, <1>2, <1>3, <1>5, <2>1, <2>2 DEF Loads
<1> QED BY <1>1, <1>3, <1>5, <1>6, MoveCounted

\* The verdict is counted under its name, and no other counter moves.
LEMMA TallyCounted ==
  ASSUME Shape, Counted, NEW c \in Checks, NEW j \in check[c].judged, Tally(c, j)
  PROVE  Counted'
<1> DEFINE k == check[c]
<1>1. Loads(k) /\ CheckOK(k) /\ k.pc = "probing" /\ j[2] \in Tallied
  BY DEF Counted, Loads, Shape, Checkwise
<1>2. /\ OneCheck(c) /\ check'[c].pc = k.pc /\ check'[c].one = k.one
      /\ check'[c].todo = k.todo /\ check'[c].restoring = k.restoring
      /\ check'[c].judged = k.judged \ {j}
  BY DEF Tally, Shape, Checkwise, CheckOK, OneCheck
<1>3. /\ Waiting(check'[c]) + 1 = Waiting(k) /\ IsFiniteSet(k.judged \ {j})
      /\ Waiting(k) \in Nat /\ Waiting(check'[c]) \in Nat
  BY <1>1, <1>2, WaitingCounts DEF Waiting
<1>4. Loads(check'[c])
  BY <1>1, <1>2, <1>3 DEF Loads
<1>5. Batches' = Batches /\ Batches \subseteq Checks
  BY <1>2 DEF Batches, OneCheck
<1>6. ASSUME NEW d \in Checks PROVE Loads(check'[d]) /\ check'[d].pc = check[d].pc
  BY <1>2, <1>4 DEF Counted, OneCheck
<1>7. CASE k.one
  <2>1. UNCHANGED runner /\ c \notin Batches
    BY <1>7 DEF Tally, Batches
  <2>2. \A d \in Batches : check'[d] = check[d]
    BY <1>2, <1>5, <2>1 DEF OneCheck
  <2> QED BY <1>5, <1>6, <2>1, <2>2 DEF Counted, RunnerOK
<1>8. CASE ~k.one
  <2>1. c \in Batches /\ Batches = {c}
    BY <1>1, <1>8 DEF Batches, Counted
  <2>2. /\ DOMAIN runner = {"running", "total", "done", "alive", "dead", "unknown"}
        /\ runner' = [f \in DOMAIN runner |-> IF f \in {"done", j[2]} THEN runner[f] + 1 ELSE runner[f]]
    BY <1>8 DEF Tally, Counted, RunnerOK
  <2>3. /\ runner'.running = runner.running /\ runner'.total = runner.total
        /\ runner'.done = runner.done + 1
        /\ runner'.alive = IF j[2] = "alive" THEN runner.alive + 1 ELSE runner.alive
        /\ runner'.dead = IF j[2] = "dead" THEN runner.dead + 1 ELSE runner.dead
        /\ runner'.unknown = IF j[2] = "unknown" THEN runner.unknown + 1 ELSE runner.unknown
    BY <1>1, <2>2 DEF Tallied
  <2>4. /\ runner.running \in BOOLEAN /\ runner.total \in Nat /\ runner.done \in Nat
        /\ runner.alive \in Nat /\ runner.dead \in Nat /\ runner.unknown \in Nat
        /\ runner.done = runner.alive + runner.dead + runner.unknown
    BY DEF Counted, RunnerOK
  <2>5. runner'.done = runner'.alive + runner'.dead + runner'.unknown
    BY <1>1, <2>3, <2>4 DEF Tallied
  <2>6. RunnerOK'
    <3>1. DOMAIN runner' = {"running", "total", "done", "alive", "dead", "unknown"}
      BY <2>2, <2>3, <2>4
    <3> QED BY <2>3, <2>4, <2>5, <3>1 DEF RunnerOK
  <2>7. runner'.total = runner'.done + Waiting(check'[c])
    BY <1>1, <1>3, <2>1, <2>3, <2>4 DEF Counted
  <2> QED BY <1>1, <1>2, <1>5, <1>6, <2>1, <2>3, <2>6, <2>7 DEF Counted
<1> QED BY <1>7, <1>8

\* A check that is no batch does not count.
LEMMA OtherCounted ==
  ASSUME Counted, NEW c \in Checks, OneCheck(c), UNCHANGED runner,
         c \notin Batches, ~(~check'[c].one /\ check'[c].pc \in {"loading", "probing"}),
         Loads(check'[c])
  PROVE  Counted'
<1>1. Batches' = Batches /\ \A d \in Batches : d \in Checks /\ check'[d] = check[d]
  BY DEF Batches, OneCheck
<1>2. \A d \in Checks : Loads(check'[d])
  BY DEF Counted, OneCheck
<1> QED BY <1>1, <1>2 DEF Counted, RunnerOK

\* The runner is taken by one batch, and given back by it.
LEMMA TryStartCounted ==
  ASSUME Shape, Counted, NEW c \in Checks, TryStart(c)
  PROVE  Counted'
<1>1. check[c].pc = "idle" /\ Loads(check[c]) /\ c \notin Batches /\ ~check[c].one
  BY DEF TryStart, NextCheck, Counted, Batches, Loads
<1>2. ASSUME NEW pc, check' = [check EXCEPT ![c].pc = pc]
      PROVE  /\ OneCheck(c) /\ check'[c].pc = pc /\ check'[c].one = check[c].one
             /\ check'[c].todo = check[c].todo /\ check'[c].restoring = check[c].restoring
             /\ check'[c].judged = check[c].judged
  BY <1>2 DEF Shape, Checkwise, CheckOK, OneCheck
<1>3. CASE runner.running
  <2>1. UNCHANGED runner /\ check' = [check EXCEPT ![c].pc = "over"]
    BY <1>3 DEF TryStart
  <2>2. Loads(check'[c])
    BY <1>1, <1>2, <2>1 DEF Loads
  <2>3. OneCheck(c) /\ check'[c].pc = "over"
    BY <1>2, <2>1
  <2> QED BY <1>1, <2>1, <2>2, <2>3, OtherCounted
<1>4. CASE ~runner.running
  <2>1. check' = [check EXCEPT ![c].pc = "loading"]
        /\ runner' = [f \in DOMAIN runner |-> IF f = "running" THEN TRUE ELSE 0]
    BY <1>4 DEF TryStart
  <2>2. Loads(check'[c])
    BY <1>1, <1>2, <2>1 DEF Loads
  <2>3. Batches' = {c}
    <3>1. OneCheck(c) /\ check'[c].pc = "loading" /\ ~check'[c].one
      BY <1>1, <1>2, <2>1
    <3>2. Batches = {}
      BY <1>4 DEF Counted
    <3> QED BY <3>1, <3>2 DEF Batches, OneCheck
  <2>4. /\ runner'.running = TRUE /\ runner'.total = 0 /\ runner'.done = 0
        /\ runner'.alive = 0 /\ runner'.dead = 0 /\ runner'.unknown = 0
    BY <2>1 DEF Counted, RunnerOK
  <2>5. RunnerOK'
    <3>1. DOMAIN runner' = {"running", "total", "done", "alive", "dead", "unknown"}
      BY <2>1 DEF Counted, RunnerOK
    <3>2. runner'.running \in BOOLEAN
      BY <2>4
    <3>3. /\ runner'.total \in Nat /\ runner'.done \in Nat
          /\ runner'.alive \in Nat /\ runner'.dead \in Nat /\ runner'.unknown \in Nat
          /\ runner'.done = runner'.alive + runner'.dead + runner'.unknown
      BY <2>4
    <3> QED BY <3>1, <3>2, <3>3 DEF RunnerOK
  <2>6. OneCheck(c) /\ check'[c].pc = "loading"
    BY <1>2, <2>1
  <2>7. \A d \in Checks : Loads(check'[d])
    BY <2>2, <2>6 DEF Counted, OneCheck
  <2> QED BY <2>3, <2>4, <2>5, <2>6, <2>7 DEF Counted
<1> QED BY <1>3, <1>4

\* The accounts are loaded: all of them are still to be counted.
LEMMA LoadCounted ==
  ASSUME Shape, Counted, NEW c \in Checks, Load(c)
  PROVE  Counted'
<1>1. /\ check[c].pc = "loading" /\ Loads(check[c]) /\ c \in Batches /\ Batches = {c}
      /\ runner.running /\ runner.total = 0 /\ runner.done = 0
  BY DEF Load, Counted, Batches, Loads
<1>2. check[c].todo = {} /\ check[c].restoring = {} /\ check[c].judged = {}
  BY <1>1 DEF Loads
<1>3. ASSUME check' = [check EXCEPT ![c].pc = "over"], runner' = [runner EXCEPT !.running = FALSE]
      PROVE  Counted'
  <2>1. /\ OneCheck(c) /\ check'[c].pc = "over"
        /\ check'[c].todo = check[c].todo /\ check'[c].restoring = check[c].restoring
        /\ check'[c].judged = check[c].judged
    BY <1>3 DEF Shape, Checkwise, CheckOK, OneCheck
  <2>2. Loads(check'[c])
    BY <1>1, <2>1 DEF Loads
  <2>3. Batches' = {}
    BY <1>1, <2>1 DEF Batches, OneCheck
  <2>4. /\ runner'.running = FALSE /\ runner'.total = runner.total /\ runner'.done = runner.done
        /\ runner'.alive = runner.alive /\ runner'.dead = runner.dead /\ runner'.unknown = runner.unknown
        /\ DOMAIN runner' = {"running", "total", "done", "alive", "dead", "unknown"}
    BY <1>3 DEF Counted, RunnerOK
  <2>5. RunnerOK'
    BY <2>4 DEF Counted, RunnerOK
  <2> QED BY <1>1, <2>1, <2>2, <2>3, <2>4, <2>5 DEF Counted, OneCheck
<1>4. ASSUME NEW ids \in SUBSET Checkable,
             check' = [check EXCEPT ![c].pc = "probing", ![c].todo = {Item(id) : id \in ids}],
             runner' = [runner EXCEPT !.total = Cardinality(ids)]
      PROVE  Counted'
  <2> DEFINE S == {Item(id) : id \in ids}
  <2>1. /\ OneCheck(c) /\ check'[c].pc = "probing" /\ check'[c].todo = S
        /\ check'[c].one = check[c].one
        /\ check'[c].restoring = check[c].restoring /\ check'[c].judged = check[c].judged
    BY <1>4 DEF Shape, Checkwise, CheckOK, OneCheck
  <2>2. ids \in SUBSET Rows
    BY DEF Checkable
  <2>3. Cardinality(ids) \in Nat /\ IsFiniteSet(S) /\ Cardinality(S) = Cardinality(ids)
    BY <2>2, LoadedAll
  <2>4. \A x, y \in S : x.id = y.id => x = y
    BY DEF Item
  <2> HIDE DEF S
  <2>5. Loads(check'[c])
    BY <1>1, <1>2, <2>1, <2>3, <2>4 DEF Loads
  <2>6. Batches' = {c}
    BY <1>1, <2>1 DEF Batches, OneCheck
  <2>7. /\ runner'.running = runner.running /\ runner'.total = Cardinality(ids) /\ runner'.done = runner.done
        /\ runner'.alive = runner.alive /\ runner'.dead = runner.dead /\ runner'.unknown = runner.unknown
        /\ DOMAIN runner' = {"running", "total", "done", "alive", "dead", "unknown"}
    BY <1>4, <2>3 DEF Counted, RunnerOK
  <2>8. RunnerOK'
    BY <2>3, <2>7 DEF Counted, RunnerOK
  <2>9. Waiting(check'[c]) = Cardinality(ids)
    <3>1. S \cup {} = S /\ Cardinality({}) = 0
      BY FS_EmptySet
    <3> QED BY <1>2, <2>1, <2>3, <3>1 DEF Waiting
  <2>10. runner'.total = runner'.done + Waiting(check'[c])
    BY <1>1, <2>3, <2>7, <2>9
  <2> QED BY <1>1, <2>1, <2>5, <2>6, <2>7, <2>8, <2>10 DEF Counted, OneCheck
<1> QED BY <1>3, <1>4 DEF Load

\* The check of one account is no batch.
LEMMA LoadOneCounted ==
  ASSUME Shape, Counted, NEW c \in Checks, NEW id \in Rows, LoadOne(c, id)
  PROVE  Counted'
<1>1. check[c].pc = "idle" /\ Loads(check[c]) /\ c \notin Batches /\ UNCHANGED runner
  BY DEF LoadOne, NextCheck, Counted, Batches
<1>2. /\ OneCheck(c) /\ check'[c].pc = "probing" /\ check'[c].one = TRUE
      /\ check'[c].todo = {Item(id)}
      /\ check'[c].restoring = check[c].restoring /\ check'[c].judged = check[c].judged
  BY DEF LoadOne, Shape, Checkwise, CheckOK, OneCheck
<1>3. Loads(check'[c])
  <2>1. IsFiniteSet({Item(id)})
    BY FS_Singleton
  <2> QED BY <1>1, <1>2, <2>1 DEF Loads
<1> QED BY <1>1, <1>2, <1>3, OtherCounted

\* A check is over when everything it loaded is counted.
LEMMA FinishCounted ==
  ASSUME Shape, Counted, NEW c \in Checks, Finish(c)
  PROVE  Counted'
<1>1. /\ check[c].pc = "probing" /\ Loads(check[c])
      /\ check[c].todo = {} /\ check[c].restoring = {} /\ check[c].judged = {}
  BY DEF Finish, AllTallied, Counted
<1>2. /\ OneCheck(c) /\ check'[c].pc = "over" /\ check'[c].todo = {}
      /\ check'[c].restoring = {} /\ check'[c].judged = {}
  <2>1. /\ CheckOK([NoCheck EXCEPT !.pc = "over"]) /\ [NoCheck EXCEPT !.pc = "over"].pc = "over"
        /\ [NoCheck EXCEPT !.pc = "over"].todo = {} /\ [NoCheck EXCEPT !.pc = "over"].restoring = {}
        /\ [NoCheck EXCEPT !.pc = "over"].judged = {}
    BY DEF NoCheck, CheckOK
  <2> QED BY <2>1 DEF Finish, Shape, Checkwise, OneCheck
<1>3. Loads(check'[c])
  <2>1. IsFiniteSet({})
    BY FS_EmptySet
  <2> QED BY <1>2, <2>1 DEF Loads
<1>4. CASE check[c].one
  <2>1. UNCHANGED runner /\ c \notin Batches
    BY <1>4 DEF Finish, Batches
  <2> QED BY <1>2, <1>3, <2>1, OtherCounted
<1>5. CASE ~check[c].one
  <2>1. c \in Batches /\ Batches = {c}
    BY <1>1, <1>5 DEF Batches, Counted
  <2>2. Waiting(check[c]) = 0
    <3>1. Cardinality({}) = 0 /\ {} \cup {} = {}
      BY FS_EmptySet
    <3> QED BY <1>1, <3>1 DEF Waiting
  <2>3. runner.total = runner.done
    BY <1>1, <2>1, <2>2 DEF Counted, RunnerOK
  <2>4. runner' = [runner EXCEPT !.running = FALSE]
    BY <1>5 DEF Finish
  <2>5. /\ runner'.running = FALSE /\ runner'.total = runner.total /\ runner'.done = runner.done
        /\ runner'.alive = runner.alive /\ runner'.dead = runner.dead /\ runner'.unknown = runner.unknown
        /\ DOMAIN runner' = {"running", "total", "done", "alive", "dead", "unknown"}
    BY <2>4 DEF Counted, RunnerOK
  <2>6. RunnerOK'
    BY <2>5 DEF Counted, RunnerOK
  <2>7. Batches' = {}
    BY <1>2, <2>1 DEF Batches, OneCheck
  <2> QED BY <1>2, <1>3, <2>3, <2>5, <2>6, <2>7 DEF Counted, OneCheck
<1> QED BY <1>4, <1>5

-----------------------------------------------------------------------------
(* The invariant.                                                          *)

Denied == platform = "grok" => UncertainNotDead

IInv == Shape /\ Claimwise /\ Cookies /\ Shipping /\ Counted /\ Denied

\* Before the first request nothing is checked, claimed or handed out.
LEMMA Initially == Init => IInv
<1> SUFFICES ASSUME Init PROVE IInv
  OBVIOUS
<1>1. /\ RowOK(Registered) /\ Registered.status = "registered" /\ Registered.auth = 1 /\ ~Registered.arp
      /\ RowOK(Legacy) /\ Legacy.status = "failed" /\ Legacy.auth = 1 /\ Legacy.arp
  BY DEF Registered, Legacy, NoRow, RowOK
<1>2. /\ CheckOK(NoCheck) /\ NoCheck.todo = {} /\ NoCheck.restoring = {} /\ NoCheck.judged = {}
      /\ NoCheck.pc = "idle" /\ ~NoCheck.one
      /\ ExportOK(NoExport) /\ NoExport.todo = {} /\ NoExport.ok = {} /\ NoExport.pc = "idle"
      /\ ~NoExport.convert
  BY DEF NoCheck, NoExport, CheckOK, ExportOK
<1>3. PICK old : /\ row = [id \in Rows |-> old]
                 /\ old = Registered \/ (platform = "adobe" /\ old = Legacy)
  BY DEF Init
<1>4. /\ check = [c \in Checks |-> NoCheck] /\ export = [e \in Exports |-> NoExport]
      /\ handed = {} /\ gen = 1 /\ claiming = {} /\ putBack = {}
      /\ runner = [running |-> FALSE, total |-> 0, done |-> 0, alive |-> 0, dead |-> 0, unknown |-> 0]
  BY DEF Init
<1>5. Shape
  <2>1. Rowwise
    BY <1>1, <1>3, <1>4 DEF Rowwise
  <2>2. Checkwise
    BY <1>2, <1>4 DEF Checkwise
  <2>3. Exportwise
    BY <1>2, <1>4 DEF Exportwise
  <2> QED BY <2>1, <2>2, <2>3 DEF Shape
<1>6. Claimwise /\ Cookies
  BY <1>1, <1>2, <1>3, <1>4 DEF Claimwise, Cookies, Untouched, Intact
<1>7. Shipping
  BY <1>2, <1>4 DEF Shipping
<1>8. Counted
  <2>1. RunnerOK
    BY <1>4 DEF RunnerOK
  <2>2. Loads(NoCheck)
    BY <1>2, FS_EmptySet DEF Loads
  <2>3. Batches = {}
    BY <1>2, <1>4 DEF Batches
  <2> QED BY <1>4, <2>1, <2>2, <2>3 DEF Counted
<1>9. Denied
  BY <1>2, <1>4 DEF Denied, UncertainNotDead
<1> QED BY <1>5, <1>6, <1>7, <1>8, <1>9 DEF IInv

\* A verdict is applied, on each platform in its way.
Applied(c, item, o) ==
    /\ Apply(c, item, o)
    /\ \/ Judged(c, item, o)
       \/ check' = [check EXCEPT ![c].todo = @ \ {item}, ![c].restoring = @ \cup {item}]

\* What each platform's probe writes is one outcome, applied.
LEMMA AppliedByPlatform ==
  ASSUME NEW c \in Checks, NEW item,
         \/ applyAdobeAlive(c, item) \/ applyGrokAlive(c, item)
         \/ applyLeonardoAlive(c, item) \/ applyLovartAlive(c, item)
  PROVE  \E o : /\ o.verdict \in Tallied /\ Applied(c, item, o)
                /\ platform = "grok" => o \in CheckGrok /\ Judged(c, item, o)
<1>1. CASE applyAdobeAlive(c, item)
  <2>1. PICK o \in CheckAdobe : /\ Apply(c, item, o)
                                /\ \/ Judged(c, item, o)
                                   \/ check' = [check EXCEPT ![c].todo = @ \ {item}, ![c].restoring = @ \cup {item}]
    BY <1>1 DEF applyAdobeAlive
  <2> QED BY <1>1, <2>1, OutcomeTallied DEF applyAdobeAlive, Applied
<1>2. CASE applyGrokAlive(c, item)
  BY <1>2, OutcomeTallied DEF applyGrokAlive, Applied
<1>3. CASE applyLeonardoAlive(c, item)
  BY <1>3, OutcomeTallied DEF applyLeonardoAlive, Applied
<1>4. CASE applyLovartAlive(c, item)
  BY <1>4, OutcomeTallied DEF applyLovartAlive, Applied
<1> QED BY <1>1, <1>2, <1>3, <1>4

\* Only a verdict on a Grok account can call it dead.
LEMMA DeniedStays ==
  ASSUME Shape, Denied, UNCHANGED platform,
         platform = "grok" => \A c \in Checks : \A j \in check'[c].judged :
             j \in check[c].judged \/ (j[2] = "dead" => j[3])
  PROVE  Denied'
BY DEF Denied, UncertainNotDead

\* What starts have read stays what a row may hold.
LEMMA ClaimsStay ==
  ASSUME Shape, Claimwise, gen' \in Nat, gen <= gen', UNCHANGED <<platform, claiming>>
  PROVE  Claimwise'
<1>1. gen \in Nat
  BY DEF Shape, Rowwise
<1>2. ASSUME NEW k, WasOK(k) PROVE WasOK(k)'
  BY <1>1, <1>2 DEF WasOK
<1> QED BY <1>2 DEF Claimwise

\* The producers beside the panel keep the invariant.
LEMMA ProducersStep ==
  ASSUME IInv,
         \/ \E k \in claiming : ClaimSave(k)
         \/ \E id \in Rows : ClaimRead(id) \/ Register(id) \/ Fail(id) \/ Delete(id)
  PROVE  IInv'
<1>1. Shape' /\ Cookies' /\ Shipping'
  BY ClaimsKeep, ProducersKeep DEF IInv
<1>2. UNCHANGED <<platform, runner, check>>
  BY DEF ClaimSave, ClaimRead, Register, Fail, Delete
<1>3. Counted'
  BY <1>2 DEF IInv, Counted, RunnerOK, Batches
<1>4. Denied'
  BY <1>2 DEF IInv, Denied, UncertainNotDead
<1>5. Claimwise'
  <2>1. gen \in Nat /\ \A k \in claiming : WasOK(k)
    BY DEF IInv, Shape, Rowwise, Claimwise
  <2>2. CASE \E k \in claiming : ClaimSave(k)
    BY <2>1, <2>2 DEF ClaimSave, Claimwise, WasOK
  <2>3. ASSUME NEW id \in Rows, ClaimRead(id) PROVE Claimwise'
    <3>1. /\ UNCHANGED <<platform, gen>> /\ claiming' = claiming \cup {[id |-> id, was |-> row[id]]}
      BY <2>3 DEF ClaimRead
    <3>2. WasOK([id |-> id, was |-> row[id]])
      BY DEF WasOK, IInv, Shape, Rowwise, Cookies
    <3>3. \A k \in claiming' : WasOK(k)
      BY <2>1, <3>1, <3>2
    <3> QED BY <3>1, <3>3 DEF Claimwise, WasOK
  <2>4. ASSUME NEW id \in Rows, Register(id) \/ Fail(id) \/ Delete(id) PROVE Claimwise'
    <3>1. UNCHANGED <<platform, claiming>> /\ (gen' = gen \/ gen' = gen + 1)
      BY <2>4 DEF Register, Fail, Delete
    <3> QED BY <2>1, <3>1, ClaimsStay DEF IInv
  <2> QED BY <2>2, <2>3, <2>4
<1> QED BY <1>1, <1>3, <1>4, <1>5 DEF IInv

\* Downloads keep the invariant.
LEMMA ExportsStep ==
  ASSUME IInv, NEW e \in Exports,
         \/ \E convert \in BOOLEAN : (convert => platform = "grok") /\ Read(e, convert)
         \/ ExportStep(e)
  PROVE  IInv'
<1>1. Shape' /\ Cookies' /\ Shipping'
  BY ReadKeeps, LeftKeeps, SaveKeeps, MarkKeeps, RespondKeeps DEF IInv, ExportStep
<1>2. UNCHANGED <<platform, gen, claiming, runner, check>>
  BY DEF Read, ExportStep, Mark, Respond, downloadGrokOAuth, downloadGrokConsole, Left,
         saveGrokOAuth, ExportOnly
<1>3. Counted'
  BY <1>2 DEF IInv, Counted, RunnerOK, Batches
<1>4. Denied'
  BY <1>2 DEF IInv, Denied, UncertainNotDead
<1>5. Claimwise'
  BY <1>2, ClaimsStay DEF IInv, Shape, Rowwise
<1> QED BY <1>1, <1>3, <1>4, <1>5 DEF IInv

\* Starting and loading a check keeps the invariant.
LEMMA StartsStep ==
  ASSUME IInv, NEW c \in Checks, TryStart(c) \/ Load(c) \/ \E id \in Rows : LoadOne(c, id)
  PROVE  IInv'
<1>1. Shape' /\ Cookies' /\ Shipping'
  BY StartsKeep DEF IInv
<1>2. Counted'
  BY TryStartCounted, LoadCounted, LoadOneCounted DEF IInv
<1>3. UNCHANGED platform /\ \A d \in Checks : check'[d].judged = check[d].judged
  <2>1. check = [d \in Checks |-> check[d]] /\ \A d \in Checks : CheckOK(check[d])
    BY DEF IInv, Shape, Checkwise
  <2>2. ASSUME NEW pc, check' = [check EXCEPT ![c].pc = pc]
        PROVE  \A d \in Checks : check'[d].judged = check[d].judged
    BY <2>1, <2>2 DEF CheckOK
  <2>3. ASSUME NEW todo, check' = [check EXCEPT ![c].pc = "probing", ![c].todo = todo]
        PROVE  \A d \in Checks : check'[d].judged = check[d].judged
    BY <2>1, <2>3 DEF CheckOK
  <2>4. ASSUME NEW todo, check' = [check EXCEPT ![c].pc = "probing", ![c].one = TRUE, ![c].todo = todo]
        PROVE  \A d \in Checks : check'[d].judged = check[d].judged
    BY <2>1, <2>4 DEF CheckOK
  <2>5. CASE TryStart(c)
    BY <2>2, <2>5 DEF TryStart, CheckOnly
  <2>6. CASE Load(c)
    BY <2>2, <2>3, <2>6 DEF Load, CheckOnly
  <2>7. CASE \E id \in Rows : LoadOne(c, id)
    BY <2>4, <2>7 DEF LoadOne, CheckOnly
  <2> QED BY <2>5, <2>6, <2>7
<1>4. Denied'
  BY <1>3, DeniedStays DEF IInv
<1>5. Claimwise'
  <2>1. UNCHANGED <<platform, gen, claiming>>
    BY DEF TryStart, Load, LoadOne, CheckOnly
  <2> QED BY <2>1, ClaimsStay DEF IInv, Shape, Rowwise
<1> QED BY <1>1, <1>2, <1>4, <1>5 DEF IInv

\* Verdicts, restores and tallies keep the invariant.
LEMMA ChecksStep ==
  ASSUME IInv, NEW c \in Checks,
         \/ \E item \in check[c].todo : \/ applyAdobeAlive(c, item) \/ applyGrokAlive(c, item)
                                        \/ applyLeonardoAlive(c, item) \/ applyLovartAlive(c, item)
         \/ \E item \in check[c].restoring : Restore(c, item)
         \/ \E j \in check[c].judged : Tally(c, j)
         \/ Finish(c)
  PROVE  IInv'
<1> USE DEF IInv
<1>0. \A d \in Checks : CheckOK(check[d])
  BY DEF Shape, Checkwise
<1>1. ASSUME NEW item \in check[c].todo,
             \/ applyAdobeAlive(c, item) \/ applyGrokAlive(c, item)
             \/ applyLeonardoAlive(c, item) \/ applyLovartAlive(c, item)
      PROVE  IInv'
  <2>1. PICK o : /\ o.verdict \in Tallied /\ Applied(c, item, o)
                 /\ platform = "grok" => o \in CheckGrok /\ Judged(c, item, o)
    BY <1>1, AppliedByPlatform
  <2>2. Shape' /\ Cookies' /\ Shipping'
    BY <2>1, VerdictsKeep DEF Applied
  <2>3. Counted'
    BY <2>1, VerdictCounted DEF Applied
  <2>4. ASSUME platform = "grok", NEW d \in Checks, NEW j \in check'[d].judged
        PROVE  j \in check[d].judged \/ (j[2] = "dead" => j[3])
    <3>1. o.verdict = "dead" => o.denied
      BY <2>1, <2>4, GrokDeadIsDenied
    <3>2. Judged(c, item, o)
      BY <2>1, <2>4
    <3>3. check'[d].judged \subseteq check[d].judged \cup {<<item.id, o.verdict, o.verdict = "dead" /\ o.denied>>}
      BY <1>0, <3>2 DEF Judged, CheckOK, Shape, Checkwise
    <3>4. CASE j = <<item.id, o.verdict, o.verdict = "dead" /\ o.denied>>
      <4>1. j[2] = o.verdict
        BY <3>4
      <4>2. j[3] = (o.verdict = "dead" /\ o.denied)
        BY <3>4
      <4> QED BY <3>1, <4>1, <4>2
    <3> QED BY <2>4, <3>3, <3>4
  <2>5. Denied'
    BY <2>1, <2>4, DeniedStays DEF Applied, Apply, CheckOnly
  <2>6. Claimwise'
    BY <2>1, ClaimsStay DEF Applied, Apply, CheckOnly, Shape, Rowwise
  <2> QED BY <2>2, <2>3, <2>5, <2>6
<1>2. ASSUME NEW item \in check[c].restoring, Restore(c, item)
      PROVE  IInv'
  <2>1. Shape' /\ Cookies' /\ Shipping' /\ Counted'
    BY <1>2, RestoreKeeps, RestoreCounted
  <2>2. ASSUME NEW d \in Checks, NEW j \in check'[d].judged
        PROVE  j \in check[d].judged \/ (j[2] = "dead" => j[3])
    <3>1. check'[d].judged \subseteq check[d].judged \cup {<<item.id, "alive", FALSE>>}
      BY <1>0, <1>2 DEF Restore, CheckOK, Shape, Checkwise
    <3>2. <<item.id, "alive", FALSE>>[2] # "dead"
      OBVIOUS
    <3> QED BY <2>2, <3>1, <3>2
  <2>3. Denied'
    BY <1>2, <2>2, DeniedStays DEF Restore, CheckOnly
  <2>4. Claimwise'
    BY <1>2, ClaimsStay DEF Restore, CheckOnly, Shape, Rowwise
  <2> QED BY <2>1, <2>3, <2>4
<1>3. ASSUME Finish(c) \/ \E j \in check[c].judged : Tally(c, j)
      PROVE  IInv'
  <2>1. Shape' /\ Cookies' /\ Shipping' /\ Counted'
    BY <1>3, CountsKeep, TallyCounted, FinishCounted
  <2>2. \A d \in Checks : check'[d].judged \subseteq check[d].judged
    BY <1>0, <1>3 DEF Finish, Tally, NoCheck, CheckOK, Shape, Checkwise
  <2>3. Denied'
    BY <1>3, <2>2, DeniedStays DEF Finish, Tally, CheckOnly
  <2>4. Claimwise'
    BY <1>3, ClaimsStay DEF Finish, Tally, CheckOnly, Shape, Rowwise
  <2> QED BY <2>1, <2>3, <2>4
<1> QED BY <1>1, <1>2, <1>3

\* Every step keeps the invariant.
LEMMA EveryStep == IInv /\ [Next]_vars => IInv'
<1> SUFFICES ASSUME IInv, [Next]_vars PROVE IInv'
  OBVIOUS
<1>1. CASE \/ \E k \in claiming : ClaimSave(k)
           \/ \E id \in Rows : ClaimRead(id) \/ Register(id) \/ Fail(id) \/ Delete(id)
  BY <1>1, ProducersStep
<1>2. ASSUME NEW c \in Checks,
             \/ AdobeLiveCheckStart(c) \/ GrokLiveCheckStart(c)
             \/ LeonardoLiveCheckStart(c) \/ LovartLiveCheckStart(c)
      PROVE  IInv'
  BY <1>2, StartsStep DEF AdobeLiveCheckStart, GrokLiveCheckStart, LeonardoLiveCheckStart, LovartLiveCheckStart
<1>3. ASSUME NEW c \in Checks, NEW id \in Rows,
             \/ AdobeLiveCheckOne(c, id) \/ GrokLiveCheckOne(c, id)
             \/ LeonardoLiveCheckOne(c, id) \/ LovartLiveCheckOne(c, id)
      PROVE  IInv'
  BY <1>3, StartsStep DEF AdobeLiveCheckOne, GrokLiveCheckOne, LeonardoLiveCheckOne, LovartLiveCheckOne
<1>4. ASSUME NEW c \in Checks, CheckStep(c) PROVE IInv'
  BY <1>4, StartsStep, ChecksStep DEF CheckStep, loadAdobeItems, loadGrokItems, loadLeonardoItems, loadLovartItems
<1>5. ASSUME NEW e \in Exports,
             \/ GrokDownload(e) \/ AdobeDownload(e) \/ LeonardoDownload(e) \/ LovartDownload(e) \/ ExportStep(e)
      PROVE  IInv'
  BY <1>5, ExportsStep DEF GrokDownload, AdobeDownload, LeonardoDownload, LovartDownload
<1>6. CASE UNCHANGED vars
  BY <1>6 DEF vars, IInv, Shape, Rowwise, Claimwise, WasOK, Checkwise, Exportwise, ItemOK, Cookies, Untouched, Item, Intact, Shipping, Kept,
              Converts, Counted, RunnerOK, Batches, Denied, UncertainNotDead
<1> QED BY <1>1, <1>2, <1>3, <1>4, <1>5, <1>6 DEF Next

\* The invariant holds in every state of the panel.
THEOREM Invariance == Spec => []IInv
<1> QED BY Initially, EveryStep, PTL DEF Spec

-----------------------------------------------------------------------------
(* What the runs check.                                                    *)

\* The counters of a live check agree with what is on its way, whatever else
\* is checked, claimed or deleted meanwhile.
THEOREM CountsAgreeAlways == Spec => []CountsAgree
<1>1. IInv => CountsAgree
  <2> SUFFICES ASSUME IInv PROVE CountsAgree
    OBVIOUS
  <2>1. runner.done = runner.alive + runner.dead + runner.unknown
    BY DEF IInv, Counted, RunnerOK
  <2>2. ASSUME NEW c \in Batches, check[c].pc = "probing"
        PROVE  runner.total = runner.done + Cardinality(check[c].todo \cup check[c].restoring) + Cardinality(check[c].judged)
    <3>1. Loads(check[c]) /\ runner.total = runner.done + Waiting(check[c]) /\ runner.done \in Nat
      BY <2>2 DEF IInv, Counted, RunnerOK, Batches
    <3>2. Cardinality(check[c].todo \cup check[c].restoring) \in Nat /\ Cardinality(check[c].judged) \in Nat
      BY <3>1, FS_Union, FS_CardinalityType DEF Loads
    <3> QED BY <3>1, <3>2 DEF Waiting
  <2>3. ~runner.running => runner.done = runner.total
    BY DEF IInv, Counted
  <2> QED BY <2>1, <2>2, <2>3 DEF CountsAgree
<1> QED BY <1>1, Invariance, PTL

\* A session that has left in a download is never offered as unshipped again.
THEOREM HandedStaysShippedAlways == Spec => []HandedStaysShipped
<1>1. IInv => HandedStaysShipped
  BY DEF IInv, Shipping, Kept, HandedStaysShipped
<1> QED BY <1>1, Invariance, PTL

\* The Grok check calls an account dead only on an answer that denies it.
THEOREM GrokDeadDeniedAlways == Spec => []GrokDeadDenied
<1>1. IInv => GrokDeadDenied
  BY DEF IInv, Denied, GrokDeadDenied
<1> QED BY <1>1, Invariance, PTL

\* An account comes back only by a check that has found its very session good,
\* or with one that a start has put back, and never out of a run.
Returns(id) ==
    row[id].status \in {"failed", "exists", "running"} /\ row'[id].status = "registered" /\ row'[id].auth = row[id].auth
      => row[id].status /= "running" /\ (Item(id) \in putBack \/ \E c \in Checks : Item(id) \in check[c].restoring)

\* Of all steps only a restore makes a row registered again with its old cookies.
LEMMA OnlyRestoreReturns ==
  ASSUME IInv, [Next]_vars, NEW id \in Rows
  PROVE  Returns(id)
<1> USE DEF IInv, Returns
<1>0. row[id].auth \in 0..gen /\ gen \in Nat
  BY DEF Shape, Rowwise
<1>2. ASSUME row'[id].status = row[id].status PROVE Returns(id)
  BY <1>2
<1>1. ASSUME NEW i \in Rows, Register(i) \/ Fail(i) \/ Delete(i) PROVE Returns(id)
  BY <1>0, <1>1, RegisterRow, FailRow, DeleteRow DEF OneRow
<1>10. ASSUME NEW k \in claiming, ClaimSave(k) PROVE Returns(id)
  <2>1. CASE UNCHANGED row
    BY <1>2, <2>1
  <2>2. CASE row' = [row EXCEPT ![k.id] = Claimed(k.was)]
    BY <2>2, ClaimRow DEF OneRow
  <2> QED BY <1>10, <2>1, <2>2 DEF ClaimSave
<1>11. ASSUME NEW i \in Rows, ClaimRead(i) PROVE UNCHANGED row
  BY <1>11 DEF ClaimRead
<1>3. ASSUME NEW c \in Checks, NEW item \in check[c].todo,
             \/ applyAdobeAlive(c, item) \/ applyGrokAlive(c, item)
             \/ applyLeonardoAlive(c, item) \/ applyLovartAlive(c, item)
      PROVE  Returns(id)
  <2>1. item.id \in Rows
    BY DEF Shape, Checkwise, ItemOK
  <2>2. \E o : Update(item.id, [alive |-> o.verdict])
    BY <1>3, AppliedByPlatform DEF Applied, Apply
  <2> QED BY <1>2, <2>1, <2>2, AliveRow
<1>4. ASSUME NEW c \in Checks, NEW item \in check[c].restoring, Restore(c, item)
      PROVE  Returns(id)
  <2>1. ItemOK(item)
    BY DEF Shape, Checkwise
  <2>2. CASE UNCHANGED row
    BY <1>2, <2>2
  <2>3. CASE Restorable(item.id) /\ Set(item.id, [status |-> "registered", arp |-> FALSE])
    <3>1. OneRow(item.id)
      BY <2>1, <2>3, RestoredRow DEF ItemOK
    <3>2. CASE id # item.id
      BY <1>2, <3>1, <3>2 DEF OneRow
    <3>3. CASE id = item.id
      <4>1. row[id].status \in {"failed", "exists"} /\ row[id].arp /\ row[id].auth # 0
        BY <2>3, <3>3 DEF Restorable
      <4>2. Item(id) \in putBack \/ item.auth = row[id].auth
        BY <3>3, <4>1 DEF Cookies, Untouched, Intact
      <4>3. Item(id) \in putBack \/ Item(id) = item
        BY <2>1, <3>3, <4>2 DEF Item, ItemOK
      <4> QED BY <4>1, <4>3
    <3> QED BY <3>2, <3>3
  <2> QED BY <1>4, <2>2, <2>3 DEF Restore
<1>5. ASSUME NEW e \in Exports, ExportStep(e) PROVE Returns(id)
  <2>1. CASE Mark(e)
    BY <1>2, <2>1, MarkRow
  <2>2. ASSUME NEW item \in export[e].todo, saveGrokOAuth(e, item) PROVE Returns(id)
    <3>1. item.id \in Rows
      BY DEF Shape, Exportwise, ItemOK
    <3>2. UNCHANGED row \/ Set(item.id, [auth |-> item.auth, oauth |-> TRUE])
      BY <2>2 DEF saveGrokOAuth, Update
    <3> QED BY <1>2, <3>1, <3>2, SavedRow DEF OneRow
  <2>3. CASE UNCHANGED row
    BY <1>2, <2>3
  <2> QED BY <1>5, <2>1, <2>2, <2>3 DEF ExportStep, Respond, downloadGrokOAuth, downloadGrokConsole, Left
<1>6. CASE UNCHANGED row
  BY <1>2, <1>6
<1>7. ASSUME NEW c \in Checks,
             \/ AdobeLiveCheckStart(c) \/ GrokLiveCheckStart(c)
             \/ LeonardoLiveCheckStart(c) \/ LovartLiveCheckStart(c)
             \/ \E i \in Rows : \/ AdobeLiveCheckOne(c, i) \/ GrokLiveCheckOne(c, i)
                                \/ LeonardoLiveCheckOne(c, i) \/ LovartLiveCheckOne(c, i)
      PROVE  UNCHANGED row
  BY <1>7 DEF AdobeLiveCheckStart, GrokLiveCheckStart, LeonardoLiveCheckStart, LovartLiveCheckStart, TryStart,
              AdobeLiveCheckOne, GrokLiveCheckOne, LeonardoLiveCheckOne, LovartLiveCheckOne, LoadOne
<1>8. ASSUME NEW c \in Checks, CheckStep(c) PROVE Returns(id)
  <2>1. CASE \/ loadAdobeItems(c) \/ loadGrokItems(c) \/ loadLeonardoItems(c) \/ loadLovartItems(c)
             \/ Finish(c) \/ \E j \in check[c].judged : Tally(c, j)
    <3>1. UNCHANGED row
      BY <2>1 DEF loadAdobeItems, loadGrokItems, loadLeonardoItems, loadLovartItems, Load, Finish, Tally
    <3> QED BY <1>6, <3>1
  <2> QED BY <1>3, <1>4, <1>8, <2>1 DEF CheckStep
<1>9. ASSUME NEW e \in Exports, GrokDownload(e) \/ AdobeDownload(e) \/ LeonardoDownload(e) \/ LovartDownload(e)
      PROVE  UNCHANGED row
  BY <1>9 DEF GrokDownload, AdobeDownload, LeonardoDownload, LovartDownload, Read
<1> QED BY <1>1, <1>5, <1>6, <1>7, <1>8, <1>9, <1>10, <1>11 DEF Next, vars

\* A failed or running row is registered again with its old cookies only by the check that found it alive,
\* or with cookies that a late save put back.
THEOREM RestoredWasProbedAlways == Spec => RestoredWasProbed
<1>1. IInv /\ [Next]_vars => \A id \in Rows : Returns(id)
  BY OnlyRestoreReturns
<1>2. IInv /\ [Next]_vars =>
        [\A id \in Rows :
           row[id].status \in {"failed", "exists", "running"} /\ row'[id].status = "registered" /\ row'[id].auth = row[id].auth
             => /\ row[id].status /= "running"
                /\ Item(id) \in putBack \/ \E c \in Checks : Item(id) \in check[c].restoring]_vars
  BY <1>1 DEF Returns
<1> QED BY <1>2, Invariance, PTL DEF Spec, RestoredWasProbed
=============================================================================
