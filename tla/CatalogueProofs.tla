-------------------------- MODULE CatalogueProofs --------------------------
(***************************************************************************)
(* Theorems about Catalogue for any products, users, workers and bounds,   *)
(* and any combinations of troubles.                                       *)
(***************************************************************************)
EXTENDS Catalogue, SequenceTheorems, FiniteSetTheorems, TLAPS

At == {"idle", "product_saved", "variants_saved", "update_found", "written", "read_again",
       "remove_found", "variants_removed", "deleted", "like_found", "report_found"}

\* The control state of the requests.
Control ==
  /\ pc \in [Worker -> At] /\ req \in [Worker -> Request \cup {None}] /\ late \subseteq Worker
  /\ \A w \in Worker : pc[w] # "idle" => req[w] # None
  /\ \A w \in Worker : pc[w] \in {"like_found", "report_found"} => req[w].user \in User

Shape == TypeOK /\ Control

\* What changes when worker w's request moves on and the others stay; they may
\* be overtaken.
Others(w) == \A v \in Worker \ {w} : pc'[v] = pc[v] /\ req'[v] = req[v] /\ (v \in late => v \in late')

LEMMA StartReq ==
  ASSUME Control, NEW w \in Worker, NEW p \in Product, NEW u \in User \cup {None},
         NEW like \in 0 .. MaxLikes, NEW at \in At \ {"idle"}, Start(w, p, u, like, at),
         at \in {"like_found", "report_found"} => u \in User
  PROVE  /\ Control' /\ Others(w) /\ pc[w] = "idle" /\ pc'[w] = at
         /\ req'[w].product = p /\ req'[w].user = u /\ req'[w].like = like
         /\ trouble' = trouble
  <1> DEFINE r == [product |-> p, user |-> u, like |-> like, version |-> 0]
  <1>1. r \in Request /\ r.product = p /\ r.user = u /\ r.like = like
    BY BoundsOK DEF Request
  <1>2. r # None
    BY <1>1, NoneIsNothing
  <1>3. /\ pc[w] = "idle" /\ req' = [req EXCEPT ![w] = r] /\ pc' = [pc EXCEPT ![w] = at]
        /\ late' = late /\ trouble' = trouble
    BY DEF Start, Idle
  <1> HIDE DEF r
  <1> QED
    BY <1>1, <1>2, <1>3 DEF Control, Others

LEMMA GotoReq ==
  ASSUME Control, NEW w \in Worker, NEW at \in At \ {"idle", "like_found", "report_found"},
         pc[w] # "idle", Goto(w, at)
  PROVE  Control' /\ Others(w) /\ pc'[w] = at /\ req' = req /\ trouble' = trouble
  BY DEF Control, Others, Goto

LEMMA OvertakeReq ==
  ASSUME Control, NEW w \in Worker, NEW at \in At \ {"idle", "like_found", "report_found"},
         pc[w] # "idle", Overtake(w, at)
  PROVE  /\ Control' /\ Others(w) /\ pc'[w] = at /\ req' = req /\ trouble' = trouble
         /\ \A v \in Worker : v # w /\ Holds(v) /\ req[v].product = req[w].product => v \in late'
  BY DEF Control, Others, Overtake

LEMMA FinishReq ==
  ASSUME Control, NEW w \in Worker, Finish(w)
  PROVE  Control' /\ Others(w) /\ pc'[w] = "idle" /\ trouble' = trouble
  BY DEF Control, Others, Finish, At

LEMMA Running ==
  ASSUME Control, NEW w \in Worker, pc[w] # "idle"
  PROVE  /\ req[w] \in Request /\ req[w] # None
         /\ req[w].product \in Product /\ req[w].like \in 0 .. MaxLikes
         /\ req[w].version \in 0 .. MaxVersion
  BY DEF Control, Request

LEMMA RereadReq ==
  ASSUME Control, NEW w \in Worker, pc[w] = "written", product \in [Product -> Row], Reread(w)
  PROVE  /\ Control' /\ Others(w) /\ pc'[w] = "read_again" /\ trouble' = trouble
         /\ req'[w].product = req[w].product
         /\ req'[w].version = product[req[w].product].version
  <1>1. PICK r \in Request : r = req[w] /\ r # None /\ r.product \in Product
    BY Running
  <1>2. product[r.product] \in Row
    BY <1>1
  <1>3. PICK n \in 0 .. MaxVersion : n = product[r.product].version
    BY <1>2 DEF Row
  <1> DEFINE x == [r EXCEPT !.version = n]
  <1>4. x \in Request /\ x.product = r.product /\ x.version = n
    BY DEF Request
  <1>5. x # None
    BY <1>4, NoneIsNothing
  <1>6. /\ pc' = [pc EXCEPT ![w] = "read_again"] /\ req' = [req EXCEPT ![w] = x]
        /\ late' = late /\ trouble' = trouble
    BY <1>1, <1>3 DEF Reread
  <1> HIDE DEF x
  <1>7. "read_again" \in At
    BY DEF At
  <1> QED
    BY <1>1, <1>3, <1>4, <1>5, <1>6, <1>7 DEF Control, Others

\* What an updated row does to the table of products.
LEMMA SetRow ==
  ASSUME product \in [Product -> Row], NEW p \in Product, NEW row \in Row,
         product' = [product EXCEPT ![p] = row]
  PROVE  /\ product' \in [Product -> Row] /\ product'[p] = row
         /\ \A q \in Product : q # p => product'[q] = product[q]
  OBVIOUS

\* A product is changed and nothing else in the tables.
OnlyRow(p) ==
  /\ product' \in [Product -> Row]
  /\ \A q \in Product : q # p => product'[q] = product[q]

LEMMA RowOf ==
  ASSUME product \in [Product -> Row], NEW p \in Product
  PROVE  /\ product[p] \in Row /\ product[p].variants \in 0 .. MaxVariants
         /\ product[p].version \in 0 .. MaxVersion
         /\ product[p].status \in {"none", "live", "deleted"}
  BY DEF Row

LEMMA SetStatus ==
  ASSUME NEW x \in Row, NEW s \in {"none", "live", "deleted"}
  PROVE  /\ [x EXCEPT !.status = s] \in Row
         /\ [x EXCEPT !.status = s].status = s
         /\ [x EXCEPT !.status = s].version = x.version
         /\ [x EXCEPT !.status = s].variants = x.variants
  BY DEF Row

LEMMA SetVersion ==
  ASSUME NEW x \in Row, NEW v \in 0 .. MaxVersion
  PROVE  /\ [x EXCEPT !.version = v] \in Row
         /\ [x EXCEPT !.version = v].status = x.status
         /\ [x EXCEPT !.version = v].version = v
         /\ [x EXCEPT !.version = v].variants = x.variants
  BY DEF Row

LEMMA SetVariants ==
  ASSUME NEW x \in Row, NEW n \in 0 .. MaxVariants
  PROVE  /\ [x EXCEPT !.variants = n] \in Row
         /\ [x EXCEPT !.variants = n].status = x.status
         /\ [x EXCEPT !.variants = n].version = x.version
         /\ [x EXCEPT !.variants = n].variants = n
  BY DEF Row

-----------------------------------------------------------------------------
(* What each action does to its product and its request.                   *)

LEMMA CreateFacts ==
  ASSUME Shape, NEW w \in Worker, NEW p \in Product, Create_Save(w, p)
  PROVE  /\ Control' /\ Others(w) /\ pc[w] = "idle" /\ pc'[w] = "product_saved"
         /\ req'[w].product = p /\ product[p].status = "none" /\ OnlyRow(p) /\ trouble' = trouble
         /\ product'[p].status = "live" /\ product'[p].version = 1
  <1> DEFINE x == [product[p] EXCEPT !.status = "live"]
             row == [x EXCEPT !.version = 1]
  <1>1. Start(w, p, None, 0, "product_saved") /\ product[p].status = "none"
        /\ product' = [product EXCEPT ![p] = row]
    BY DEF Create_Save
  <1>2. Control /\ product \in [Product -> Row]
    BY DEF Shape, TypeOK
  <1>3. x \in Row /\ x.status = "live"
    BY <1>2, SetStatus
  <1> HIDE DEF x
  <1>4. row \in Row /\ row.status = "live" /\ row.version = 1
    <2>1. 1 \in 0 .. MaxVersion
      BY BoundsOK
    <2> QED
      BY <1>3, <2>1, SetVersion
  <1> HIDE DEF row
  <1>5. OnlyRow(p) /\ product'[p] = row
    BY <1>1, <1>2, <1>4, SetRow DEF OnlyRow
  <1>6. Control' /\ Others(w) /\ pc[w] = "idle" /\ pc'[w] = "product_saved"
        /\ req'[w].product = p /\ trouble' = trouble
    BY <1>1, <1>2, StartReq, BoundsOK DEF At
  <1> QED
    BY <1>1, <1>4, <1>5, <1>6

LEMMA SaveVariantsFacts ==
  ASSUME Shape, NEW w \in Worker, Create_SaveVariants(w)
  PROVE  /\ Control' /\ Others(w) /\ pc[w] = "product_saved" /\ pc'[w] = "variants_saved"
         /\ req' = req /\ req[w].product \in Product /\ OnlyRow(req[w].product)
         /\ product'[req[w].product].status = product[req[w].product].status
         /\ product'[req[w].product].version = product[req[w].product].version
         /\ product'[req[w].product].variants > 0
  <1> DEFINE p == req[w].product
  <1>1. PICK n \in 1 .. MaxVariants :
          /\ product[p].variants + n <= MaxVariants
          /\ product' = [product EXCEPT ![p].variants = @ + n]
    BY DEF Create_SaveVariants
  <1>2. Control /\ product \in [Product -> Row] /\ pc[w] = "product_saved"
        /\ Goto(w, "variants_saved")
    BY DEF Shape, TypeOK, Create_SaveVariants
  <1>3. p \in Product
    BY <1>2, Running
  <1>4. PICK x \in Row : x = product[p]
    BY <1>2, <1>3
  <1>5. x.variants \in 0 .. MaxVariants
    BY DEF Row
  <1>6. PICK k \in 0 .. MaxVariants : k = x.variants + n /\ k > 0
    BY <1>1, <1>4, <1>5, BoundsOK
  <1> DEFINE row == [x EXCEPT !.variants = k]
  <1>7. row \in Row /\ row.status = x.status /\ row.version = x.version /\ row.variants = k
    BY SetVariants
  <1>8. product' = [product EXCEPT ![p] = row]
    BY <1>1, <1>4, <1>6
  <1> HIDE DEF row, p
  <1>9. OnlyRow(p) /\ product'[p] = row
    BY <1>2, <1>3, <1>7, <1>8, SetRow DEF OnlyRow
  <1>10. Control' /\ Others(w) /\ pc'[w] = "variants_saved" /\ req' = req
    BY <1>2, GotoReq DEF At
  <1> QED
    BY <1>2, <1>3, <1>4, <1>6, <1>7, <1>9, <1>10 DEF p

\* Whoever has the row of w's product no longer has it as it is.
Overtaken(w) ==
  \A v \in Worker : v # w /\ Holds(v) /\ req[v].product = req[w].product => v \in late'

LEMMA WriteFacts ==
  ASSUME Shape, NEW w \in Worker, Update_Write(w)
  PROVE  /\ Control' /\ Others(w) /\ pc[w] = "update_found" /\ pc'[w] = "written"
         /\ req' = req /\ req[w].product \in Product /\ OnlyRow(req[w].product)
         /\ product'[req[w].product].status = product[req[w].product].status
         /\ product'[req[w].product].variants = product[req[w].product].variants
         /\ product' = product \/ Overtaken(w)
         /\ trouble' = trouble
  <1> DEFINE p == req[w].product
  <1>1. Control /\ product \in [Product -> Row] /\ pc[w] = "update_found"
    BY DEF Shape, TypeOK, Update_Write
  <1>2. p \in Product /\ "written" \in At \ {"idle", "like_found", "report_found"}
    BY <1>1, Running DEF At
  <1>3. PICK x \in Row : x = product[p]
    BY <1>1, <1>2
  <1>4. x.version \in 0 .. MaxVersion
    BY DEF Row
  <1>5. ASSUME product[p].version < MaxVersion, product' = [product EXCEPT ![p].version = @ + 1],
               Overtake(w, "written")
        PROVE  /\ OnlyRow(p) /\ product'[p].status = product[p].status
               /\ product'[p].variants = product[p].variants
               /\ Control' /\ Others(w) /\ pc'[w] = "written" /\ req' = req
               /\ Overtaken(w) /\ trouble' = trouble
    <2>1. PICK v \in 0 .. MaxVersion : v = x.version + 1
      BY <1>3, <1>4, <1>5, BoundsOK
    <2> DEFINE row == [x EXCEPT !.version = v]
    <2>2. row \in Row /\ row.status = x.status /\ row.variants = x.variants
      BY SetVersion
    <2>3. product' = [product EXCEPT ![p] = row]
      BY <1>3, <1>5, <2>1
    <2>4. Control' /\ Others(w) /\ pc'[w] = "written" /\ req' = req /\ trouble' = trouble
          /\ Overtaken(w)
      BY <1>1, <1>2, <1>5, OvertakeReq DEF Overtaken
    <2> HIDE DEF row, p
    <2> QED
      BY <1>1, <1>2, <1>3, <2>2, <2>3, <2>4, SetRow DEF OnlyRow
  <1>6. ASSUME UNCHANGED product, Goto(w, "written")
        PROVE  /\ OnlyRow(p) /\ product'[p].status = product[p].status
               /\ product'[p].variants = product[p].variants
               /\ Control' /\ Others(w) /\ pc'[w] = "written" /\ req' = req
               /\ trouble' = trouble
    BY <1>1, <1>2, <1>6, GotoReq DEF OnlyRow
  <1> QED
    BY <1>1, <1>2, <1>5, <1>6 DEF Update_Write

LEMMA AddVariantFacts ==
  ASSUME Shape, NEW w \in Worker, Update_AddVariant(w)
  PROVE  /\ Control' /\ Others(w) /\ pc[w] = "written" /\ pc'[w] = "written"
         /\ req' = req /\ req[w].product \in Product /\ OnlyRow(req[w].product)
         /\ product'[req[w].product].status = product[req[w].product].status
         /\ product'[req[w].product].version = product[req[w].product].version
         /\ product'[req[w].product].variants > 0
  <1> DEFINE p == req[w].product
  <1>1. Control /\ product \in [Product -> Row] /\ pc[w] = "written" /\ Goto(w, "written")
        /\ product[p].variants < MaxVariants
        /\ product' = [product EXCEPT ![p].variants = @ + 1]
    BY DEF Shape, TypeOK, Update_AddVariant
  <1>2. p \in Product
    BY <1>1, Running
  <1>3. PICK x \in Row : x = product[p]
    BY <1>1, <1>2
  <1>4. x.variants \in 0 .. MaxVariants
    BY DEF Row
  <1>5. PICK k \in 0 .. MaxVariants : k = x.variants + 1 /\ k > 0
    BY <1>1, <1>3, <1>4, BoundsOK
  <1> DEFINE row == [x EXCEPT !.variants = k]
  <1>6. row \in Row /\ row.status = x.status /\ row.version = x.version /\ row.variants = k
    BY SetVariants
  <1>7. product' = [product EXCEPT ![p] = row]
    BY <1>1, <1>3, <1>5
  <1> HIDE DEF row, p
  <1>8. OnlyRow(p) /\ product'[p] = row
    BY <1>1, <1>2, <1>6, <1>7, SetRow DEF OnlyRow
  <1>9. Control' /\ Others(w) /\ pc'[w] = "written" /\ req' = req
    BY <1>1, GotoReq DEF At
  <1> QED
    BY <1>1, <1>2, <1>3, <1>5, <1>6, <1>8, <1>9 DEF p

LEMMA RemoveVariantsFacts ==
  ASSUME Shape, NEW w \in Worker, Remove_Variants(w)
  PROVE  /\ Control' /\ Others(w) /\ pc[w] = "remove_found" /\ pc'[w] = "variants_removed"
         /\ req' = req /\ req[w].product \in Product /\ OnlyRow(req[w].product)
         /\ product'[req[w].product].status = product[req[w].product].status
         /\ product'[req[w].product].version = product[req[w].product].version
  <1> DEFINE p == req[w].product
             row == [product[p] EXCEPT !.variants = 0]
  <1>1. Control /\ product \in [Product -> Row] /\ pc[w] = "remove_found"
        /\ Goto(w, "variants_removed") /\ product' = [product EXCEPT ![p] = row]
    BY DEF Shape, TypeOK, Remove_Variants
  <1>2. p \in Product
    BY <1>1, Running
  <1>3. product[p] \in Row /\ 0 \in 0 .. MaxVariants
    BY <1>1, <1>2, BoundsOK
  <1>4. row \in Row /\ row.status = product[p].status /\ row.version = product[p].version
    BY <1>3, SetVariants
  <1> HIDE DEF row, p
  <1>5. OnlyRow(p) /\ product'[p] = row
    BY <1>1, <1>2, <1>4, SetRow DEF OnlyRow
  <1>6. Control' /\ Others(w) /\ pc'[w] = "variants_removed" /\ req' = req
    BY <1>1, GotoReq DEF At
  <1> QED
    BY <1>1, <1>2, <1>4, <1>5, <1>6 DEF p

LEMMA RemoveProductFacts ==
  ASSUME Shape, NEW w \in Worker, Remove_Product(w)
  PROVE  /\ Control' /\ Others(w) /\ pc[w] = "variants_removed" /\ pc'[w] = "deleted"
         /\ req' = req /\ req[w].product \in Product /\ OnlyRow(req[w].product)
         /\ product'[req[w].product].status = "deleted"
         /\ Overtaken(w) /\ trouble' = trouble
  <1> DEFINE p == req[w].product
             row == [product[p] EXCEPT !.status = "deleted"]
  <1>1. Control /\ product \in [Product -> Row] /\ pc[w] = "variants_removed"
        /\ Overtake(w, "deleted") /\ product' = [product EXCEPT ![p] = row]
    BY DEF Shape, TypeOK, Remove_Product
  <1>2. p \in Product
    BY <1>1, Running
  <1>3. product[p] \in Row
    BY <1>1, <1>2
  <1>4. row \in Row /\ row.status = "deleted"
    BY <1>3, SetStatus
  <1> HIDE DEF row, p
  <1>5. OnlyRow(p) /\ product'[p] = row
    BY <1>1, <1>2, <1>4, SetRow DEF OnlyRow
  <1>6. Control' /\ Others(w) /\ pc'[w] = "deleted" /\ req' = req /\ Overtaken(w)
        /\ trouble' = trouble
    <2>1. "deleted" \in At \ {"idle", "like_found", "report_found"}
      BY DEF At
    <2> QED
      BY <1>1, <2>1, OvertakeReq DEF Overtaken
  <1> QED
    BY <1>1, <1>2, <1>4, <1>5, <1>6 DEF p

-----------------------------------------------------------------------------
(* The Elasticsearch calls on their way.                                   *)

LEMMA SendFacts ==
  ASSUME calls \in Seq(Call), NEW w \in Worker, NEW p \in Product, p = req[w].product,
         NEW v \in 0 .. MaxVersion, Send(w, v)
  PROVE  /\ calls' \in Seq(Call) /\ Len(calls) \in Nat
         /\ DOMAIN calls = 1 .. Len(calls) /\ DOMAIN calls' = 1 .. Len(calls) + 1
         /\ \A i \in DOMAIN calls : calls'[i] = calls[i]
         /\ calls'[Len(calls) + 1].product = p /\ calls'[Len(calls) + 1].version = v
         /\ index' = index /\ sync' = sync
         /\ behind' = IF w \in late THEN behind \cup {p} ELSE behind \ {p}
  <1> DEFINE c == [product |-> p, version |-> v]
  <1>1. c \in Call /\ c.product = p /\ c.version = v
    BY DEF Call
  <1>2. calls' = Append(calls, c) /\ index' = index /\ sync' = sync
        /\ behind' = IF w \in late THEN behind \cup {p} ELSE behind \ {p}
    BY DEF Send
  <1> HIDE DEF c
  <1> QED
    BY <1>1, <1>2, AppendProperties, LenProperties

\* A call that has arrived, or was lost.
LEMMA RemoveFacts ==
  ASSUME calls \in Seq(Call), NEW i \in DOMAIN calls, calls' = RemoveAt(calls, i)
  PROVE  /\ calls' \in Seq(Call) /\ Len(calls) \in Nat \ {0}
         /\ DOMAIN calls = 1 .. Len(calls) /\ DOMAIN calls' = 1 .. Len(calls) - 1
         /\ \A j \in DOMAIN calls' : calls'[j] = IF j < i THEN calls[j] ELSE calls[j + 1]
  <1> DEFINE n == Len(calls)
             s == SubSeq(calls, 1, i - 1)
             t == SubSeq(calls, i + 1, n)
  <1>1. n \in Nat /\ DOMAIN calls = 1 .. n /\ i \in 1 .. n /\ \A j \in 1 .. n : calls[j] \in Call
    BY LenProperties
  <1>2. /\ s \in Seq(Call) /\ Len(s) = i - 1
        /\ \A j \in 1 .. i - 1 : s[j] = calls[j]
    <2>1. i - 1 \in Int /\ 1 \in Int /\ \A j \in 1 .. i - 1 : calls[j] \in Call
      BY <1>1
    <2>2. /\ s \in Seq(Call) /\ Len(s) = IF 1 <= i - 1 THEN (i - 1) - 1 + 1 ELSE 0
          /\ \A j \in 1 .. (i - 1) - 1 + 1 : s[j] = calls[1 + j - 1]
      BY <2>1, SubSeqProperties
    <2>3. (i - 1) - 1 + 1 = i - 1 /\ \A j \in 1 .. i - 1 : 1 + j - 1 = j
      BY <1>1
    <2> QED
      BY <1>1, <2>2, <2>3
  <1>3. /\ t \in Seq(Call) /\ Len(t) = n - i
        /\ \A j \in 1 .. n - i : t[j] = calls[i + j]
    <2>1. i + 1 \in Int /\ n \in Int /\ \A j \in i + 1 .. n : calls[j] \in Call
      BY <1>1
    <2>2. /\ t \in Seq(Call) /\ Len(t) = IF i + 1 <= n THEN n - (i + 1) + 1 ELSE 0
          /\ \A j \in 1 .. n - (i + 1) + 1 : t[j] = calls[(i + 1) + j - 1]
      BY <2>1, SubSeqProperties
    <2>3. n - (i + 1) + 1 = n - i /\ \A j \in 1 .. n - i : (i + 1) + j - 1 = i + j
      BY <1>1
    <2> QED
      BY <1>1, <2>2, <2>3
  <1>4. calls' = s \o t
    BY DEF RemoveAt
  <1> HIDE DEF s, t
  <1>5. /\ s \o t \in Seq(Call) /\ Len(s \o t) = Len(s) + Len(t)
        /\ \A j \in 1 .. Len(s) + Len(t) : (s \o t)[j] =
             IF j <= Len(s) THEN s[j] ELSE t[j - Len(s)]
    BY <1>2, <1>3, ConcatProperties
  <1>6. Len(s) + Len(t) = n - 1
    BY <1>1, <1>2, <1>3
  <1>7. calls' \in Seq(Call) /\ DOMAIN calls' = 1 .. n - 1
    BY <1>4, <1>5, <1>6, LenProperties
  <1>8. ASSUME NEW j \in 1 .. n - 1
        PROVE  calls'[j] = IF j < i THEN calls[j] ELSE calls[j + 1]
    <2>1. CASE j < i
      BY <1>1, <1>2, <1>4, <1>5, <1>6, <2>1
    <2>2. CASE ~(j < i)
      <3>1. j - (i - 1) \in 1 .. n - i /\ i + (j - (i - 1)) = j + 1 /\ ~(j <= i - 1)
        BY <1>1, <2>2
      <3>2. calls'[j] = t[j - (i - 1)]
        BY <1>2, <1>4, <1>5, <1>6, <3>1
      <3> QED
        BY <1>3, <2>2, <3>1, <3>2
    <2> QED
      BY <2>1, <2>2
  <1> QED
    BY <1>1, <1>7, <1>8

LEMMA CallOf ==
  ASSUME calls \in Seq(Call), NEW i \in DOMAIN calls
  PROVE  calls[i].product \in Product /\ calls[i].version \in 0 .. MaxVersion
  <1>1. calls[i] \in Call
    BY ElementOfSeq, LenProperties
  <1> QED
    BY <1>1 DEF Call

-----------------------------------------------------------------------------
(* Every component keeps its shape.                                        *)

TablesOK ==
  /\ product \in [Product -> Row]
  /\ likes \subseteq Like /\ inserted \in 0 .. MaxLikes
  /\ reports \in [Product \X User -> 0 .. MaxReports]

SearchOK ==
  /\ calls \in Seq(Call) /\ index \in [Product -> 0 .. MaxVersion]
  /\ sync \subseteq Call /\ behind \subseteq Product

LEMMA ShapeParts ==
  /\ Shape <=> TablesOK /\ SearchOK /\ Control /\ trouble \in Troubles
  /\ Shape' <=> TablesOK' /\ SearchOK' /\ Control' /\ trouble' \in Troubles
  BY DEF Shape, TypeOK, Control, TablesOK, SearchOK, At

LEMMA SendOK ==
  ASSUME SearchOK, NEW w \in Worker, req[w].product \in Product, NEW v \in 0 .. MaxVersion, Send(w, v)
  PROVE  SearchOK'
  BY SendFacts DEF SearchOK

\* A request has indexed or removed its product, and is over.
LEMMA SentShape ==
  ASSUME Shape, NEW w \in Worker, pc[w] # "idle", NEW v \in 0 .. MaxVersion, Send(w, v)
  PROVE  Shape' /\ Others(w) /\ pc'[w] = "idle"
  <1>1. TablesOK /\ SearchOK /\ Control /\ trouble \in Troubles
    BY ShapeParts
  <1>2. Control' /\ Others(w) /\ pc'[w] = "idle" /\ trouble' = trouble
    BY <1>1, FinishReq DEF Send
  <1>3. SearchOK'
    BY <1>1, SendOK, Running
  <1>4. TablesOK'
    BY <1>1 DEF Send, TablesOK, tables
  <1> QED
    BY <1>1, <1>2, <1>3, <1>4, ShapeParts

LEMMA BeginShape ==
  ASSUME Shape, NEW w \in Worker, Begin(w)
  PROVE  Shape'
  <1>1. TablesOK /\ SearchOK /\ Control /\ trouble \in Troubles
    BY ShapeParts
  <1>2. PICK p \in Product :
          \/ Create_Save(w, p) \/ Update_Find(w, p) \/ Remove_Find(w, p)
          \/ \E u \in User : Like_Find(w, p, u) \/ Report_Find(w, p, u)
    BY DEF Begin
  <1>3. CASE Create_Save(w, p)
    <2>1. Control' /\ OnlyRow(p) /\ trouble' = trouble
      BY <1>3, CreateFacts
    <2>2. UNCHANGED <<likes, inserted, reports, search>>
      BY <1>3 DEF Create_Save
    <2> QED
      BY <1>1, <2>1, <2>2, ShapeParts DEF TablesOK, SearchOK, search, OnlyRow
  <1>4. CASE Update_Find(w, p) \/ Remove_Find(w, p)
    <2>0. 0 \in 0 .. MaxLikes
      BY BoundsOK
    <2>1. Control' /\ trouble' = trouble
      <3>1. CASE Start(w, p, None, 0, "update_found")
        BY <1>1, <2>0, <3>1, StartReq DEF At
      <3>2. CASE Start(w, p, None, 0, "remove_found")
        BY <1>1, <2>0, <3>2, StartReq DEF At
      <3> QED
        BY <1>4, <3>1, <3>2 DEF Update_Find, Remove_Find
    <2> QED
      BY <1>1, <1>4, <2>1, ShapeParts
         DEF Update_Find, Remove_Find, TablesOK, SearchOK, tables, search
  <1>5. ASSUME NEW u \in User, Like_Find(w, p, u) \/ Report_Find(w, p, u)
        PROVE  Shape'
    <2>1. \A l \in LikesOf(p, u) : l.id \in 0 .. MaxLikes
      BY <1>1 DEF LikesOf, TablesOK, Like
    <2>2. Control' /\ trouble' = trouble
      BY <1>1, <1>5, <2>1, StartReq, BoundsOK DEF Like_Find, Report_Find, At
    <2> QED
      BY <1>1, <1>5, <2>2, ShapeParts DEF Like_Find, Report_Find, TablesOK, SearchOK, tables, search
  <1> QED
    BY <1>2, <1>3, <1>4, <1>5

LEMMA ContinueShape ==
  ASSUME Shape, NEW w \in Worker, Continue(w)
  PROVE  Shape'
  <1>1. TablesOK /\ SearchOK /\ Control /\ trouble \in Troubles
    BY ShapeParts
  <1>2. CASE Create_SaveVariants(w)
    BY <1>1, <1>2, SaveVariantsFacts, ShapeParts
       DEF Create_SaveVariants, Goto, TablesOK, SearchOK, search, OnlyRow
  <1>3. CASE Update_Write(w)
    BY <1>1, <1>3, WriteFacts, ShapeParts
       DEF Update_Write, TablesOK, SearchOK, search, OnlyRow
  <1>4. CASE Update_AddVariant(w)
    BY <1>1, <1>4, AddVariantFacts, ShapeParts
       DEF Update_AddVariant, Goto, TablesOK, SearchOK, search, OnlyRow
  <1>5. CASE Update_UnknownVariant(w)
    <2>1. req[w].product \in Product
      BY <1>1, <1>5, Running DEF Update_UnknownVariant
    <2>2. Control' /\ trouble' = trouble
      BY <1>1, <1>5, FinishReq DEF Update_UnknownVariant
    <2> QED
      BY <1>1, <1>5, <2>1, <2>2, ShapeParts DEF Update_UnknownVariant, TablesOK, SearchOK, tables
  <1>6. CASE Update_Reread(w)
    <2>1. /\ pc[w] = "written" /\ IF Live(req[w].product) THEN Reread(w) ELSE Finish(w)
          /\ UNCHANGED <<tables, search>>
      BY <1>6 DEF Update_Reread
    <2>2. Control' /\ trouble' = trouble
      BY <1>1, <2>1, RereadReq, FinishReq DEF TablesOK
    <2> QED
      BY <1>1, <2>1, <2>2, ShapeParts DEF TablesOK, SearchOK, tables, search
  <1>12. CASE Create_Index(w)
    BY <1>12, SentShape, BoundsOK DEF Create_Index
  <1>13. CASE Update_Index(w)
    <2>1. pc[w] # "idle" /\ Send(w, req[w].version)
      BY <1>13 DEF Update_Index
    <2>2. req[w].version \in 0 .. MaxVersion
      BY <1>1, <2>1, Running
    <2> QED
      BY <2>1, <2>2, SentShape
  <1>14. CASE Remove_Unindex(w)
    BY <1>14, SentShape, BoundsOK DEF Remove_Unindex
  <1>7. CASE Remove_Variants(w)
    BY <1>1, <1>7, RemoveVariantsFacts, ShapeParts
       DEF Remove_Variants, Goto, TablesOK, SearchOK, search, OnlyRow
  <1>8. CASE Remove_Product(w)
    BY <1>1, <1>8, RemoveProductFacts, ShapeParts
       DEF Remove_Product, TablesOK, SearchOK, search, OnlyRow
  <1>9. CASE Like_Remove(w)
    <2>1. Control' /\ trouble' = trouble
      BY <1>1, <1>9, FinishReq DEF Like_Remove
    <2> QED
      BY <1>1, <1>9, <2>1, ShapeParts DEF Like_Remove, TablesOK, SearchOK, search
  <1>10. CASE Like_Insert(w)
    <2>1. Control' /\ trouble' = trouble
      BY <1>1, <1>10, FinishReq DEF Like_Insert
    <2>2. req[w].product \in Product /\ req[w].user \in User
      BY <1>1, <1>10, Running DEF Like_Insert, Control
    <2>3. inserted' \in 0 .. MaxLikes /\ inserted + 1 \in 1 .. MaxLikes
      BY <1>1, <1>10, BoundsOK DEF Like_Insert, TablesOK
    <2>4. likes' \subseteq Like
      BY <1>1, <1>10, <2>2, <2>3 DEF Like_Insert, TablesOK, Like
    <2> QED
      BY <1>1, <1>10, <2>1, <2>3, <2>4, ShapeParts DEF Like_Insert, TablesOK, SearchOK, search
  <1>11. CASE Report_Save(w)
    <2>1. Control' /\ trouble' = trouble
      BY <1>1, <1>11, FinishReq DEF Report_Save
    <2>2. req[w].product \in Product /\ req[w].user \in User
      BY <1>1, <1>11, Running DEF Report_Save, Control
    <2> DEFINE k == <<req[w].product, req[w].user>>
    <2>3. k \in Product \X User
      BY <2>2
    <2>4. reports[k] < MaxReports /\ reports' = [reports EXCEPT ![k] = @ + 1]
      BY <1>11 DEF Report_Save
    <2> HIDE DEF k
    <2>5. reports[k] + 1 \in 0 .. MaxReports
      BY <1>1, <2>3, <2>4, BoundsOK DEF TablesOK
    <2>6. reports' \in [Product \X User -> 0 .. MaxReports]
      BY <1>1, <2>3, <2>4, <2>5 DEF TablesOK
    <2> QED
      BY <1>1, <1>11, <2>1, <2>6, ShapeParts DEF Report_Save, TablesOK, SearchOK, search
  <1> QED
    BY <1>2, <1>3, <1>4, <1>5, <1>6, <1>7, <1>8, <1>9, <1>10, <1>11, <1>12, <1>13, <1>14 DEF Continue

LEMMA OtherShape ==
  ASSUME Shape, \/ \E w \in Worker : Abandon(w)
                \/ Deliver \/ Lose \/ Sync_Find \/ Sync_Index \/ UNCHANGED vars
  PROVE  Shape'
  <1>1. TablesOK /\ SearchOK /\ Control /\ trouble \in Troubles
    BY ShapeParts
  <1>2. ASSUME NEW w \in Worker, Abandon(w) PROVE Shape'
    <2>1. Control' /\ trouble' = trouble
      BY <1>1, <1>2, FinishReq DEF Abandon
    <2>2. req[w].product \in Product
      BY <1>1, <1>2, Running DEF Abandon, Idle
    <2>3. behind' \subseteq Product
      BY <1>1, <1>2, <2>2 DEF Abandon, SearchOK
    <2> QED
      BY <1>1, <1>2, <2>1, <2>3, ShapeParts DEF Abandon, TablesOK, SearchOK, tables
  <1>3. ASSUME Deliver \/ Lose \/ Sync_Find \/ Sync_Index \/ UNCHANGED vars
        PROVE  TablesOK' /\ Control' /\ trouble' \in Troubles
    BY <1>1, <1>3
       DEF Deliver, Lose, Sync_Find, Sync_Index, vars, TablesOK, Control, tables
  <1>4. ASSUME Deliver PROVE SearchOK'
    <2>1. PICK i \in DOMAIN calls :
            /\ index' = [index EXCEPT ![calls[i].product] = calls[i].version]
            /\ calls' = RemoveAt(calls, i)
      BY <1>4 DEF Deliver
    <2>2. calls' \in Seq(Call)
      BY <1>1, <2>1, RemoveFacts DEF SearchOK
    <2>3. index' \in [Product -> 0 .. MaxVersion]
      BY <1>1, <2>1, CallOf DEF SearchOK
    <2> QED
      BY <1>1, <1>4, <2>2, <2>3 DEF SearchOK, Deliver
  <1>5. ASSUME Lose PROVE SearchOK'
    <2>1. calls' \in Seq(Call)
      BY <1>1, <1>5, RemoveFacts DEF SearchOK, Lose
    <2> QED
      BY <1>1, <1>5, <2>1 DEF SearchOK, Lose
  <1>6. ASSUME Sync_Find PROVE SearchOK'
    <2>1. \A p \in Product : [product |-> p, version |-> product[p].version] \in Call
      BY <1>1, RowOf DEF TablesOK, Call
    <2>2. sync' = {[product |-> p, version |-> product[p].version] : p \in {q \in Product : Live(q)}}
      BY <1>6 DEF Sync_Find
    <2>3. sync' \subseteq Call
      BY <2>1, <2>2
    <2> QED
      BY <1>1, <1>6, <2>3 DEF SearchOK, Sync_Find
  <1>7. ASSUME Sync_Index PROVE SearchOK'
    <2>1. PICK d \in sync :
            /\ index' = [index EXCEPT ![d.product] = d.version]
            /\ sync' = sync \ {d} /\ behind' = behind \ {d.product}
      BY <1>7 DEF Sync_Index
    <2>2. d.product \in Product /\ d.version \in 0 .. MaxVersion
      BY <1>1 DEF SearchOK, Call
    <2> QED
      BY <1>1, <1>7, <2>1, <2>2 DEF SearchOK, Sync_Index
  <1>8. ASSUME UNCHANGED vars PROVE SearchOK'
    BY <1>1, <1>8 DEF SearchOK, vars, search
  <1> QED
    BY <1>2, <1>3, <1>4, <1>5, <1>6, <1>7, <1>8, ShapeParts

LEMMA InitShape == ASSUME Init PROVE Shape
  <1>1. TablesOK
    BY BoundsOK DEF Init, TablesOK, Row
  <1>2. SearchOK
    BY BoundsOK, EmptySeq DEF Init, SearchOK
  <1> QED
    BY <1>1, <1>2, ShapeParts DEF Init, Control, At

LEMMA NextShape == ASSUME Shape, [Next]_vars PROVE Shape'
  BY BeginShape, ContinueShape, OtherShape DEF Next

THEOREM ShapeAlways == Spec => []Shape
  BY InitShape, NextShape, PTL DEF Spec

\* Rows, requests and calls keep their shape (the entities of products, likes
\* and reports, and the variables of the handlers).
THEOREM CatalogueTypeCorrect == Spec => []TypeOK
  <1>1. Shape => TypeOK
    BY DEF Shape
  <1> QED
    BY <1>1, ShapeAlways, PTL

-----------------------------------------------------------------------------
(* A product on sale has a variant.                                        *)

\* A request that looks for a product, and changes nothing.
Look(w, p) ==
  \/ Update_Find(w, p) \/ Remove_Find(w, p)
  \/ \E u \in User : Like_Find(w, p, u) \/ Report_Find(w, p, u)

Looking == {"update_found", "remove_found", "like_found", "report_found"}

LEMMA LookFacts ==
  ASSUME Shape, NEW w \in Worker, NEW p \in Product, Look(w, p)
  PROVE  /\ Others(w) /\ pc[w] = "idle" /\ pc'[w] \in Looking /\ req'[w].product = p
         /\ Live(p) /\ UNCHANGED <<tables, search, trouble>>
         /\ \E u \in User \cup {None}, like \in 0 .. MaxLikes, at \in Looking :
              Start(w, p, u, like, at)
  <1>1. Control /\ likes \subseteq Like /\ 0 \in 0 .. MaxLikes
    BY BoundsOK DEF Shape, TypeOK
  <1>2. \A u \in User : \A l \in LikesOf(p, u) : l.id \in 0 .. MaxLikes
    BY <1>1 DEF LikesOf, Like
  <1>3. /\ Live(p) /\ UNCHANGED <<tables, search>>
        /\ \E u \in User \cup {None}, like \in 0 .. MaxLikes, at \in Looking :
             /\ Start(w, p, u, like, at)
             /\ at \in {"like_found", "report_found"} => u \in User
    <2>1. CASE Update_Find(w, p) \/ Remove_Find(w, p)
      BY <1>1, <2>1 DEF Update_Find, Remove_Find, Looking
    <2>2. ASSUME NEW u \in User, Like_Find(w, p, u) \/ Report_Find(w, p, u)
          PROVE  /\ Live(p) /\ UNCHANGED <<tables, search>>
                 /\ \E v \in User \cup {None}, like \in 0 .. MaxLikes, at \in Looking :
                      /\ Start(w, p, v, like, at)
                      /\ at \in {"like_found", "report_found"} => v \in User
      BY <1>1, <1>2, <2>2 DEF Like_Find, Report_Find, Looking
    <2> QED
      BY <2>1, <2>2 DEF Look
  <1> QED
    BY <1>1, <1>3, StartReq DEF Looking, At

LEMMA BeginIs == ASSUME NEW w \in Worker, Begin(w)
                 PROVE  \E p \in Product : Create_Save(w, p) \/ Look(w, p)
  BY DEF Begin, Look

\* A step that only moves a request on, or ends it.
Steps(w) ==
  \/ Create_Index(w) \/ Update_UnknownVariant(w) \/ Update_Reread(w) \/ Update_Index(w)
  \/ Remove_Unindex(w) \/ Like_Remove(w) \/ Like_Insert(w) \/ Report_Save(w)

LEMMA StepsFacts ==
  ASSUME Shape, NEW w \in Worker, Steps(w)
  PROVE  /\ Others(w) /\ pc'[w] \in {"idle", "read_again"} /\ product' = product
         /\ pc[w] \in {"variants_saved", "written", "read_again", "deleted", "like_found",
                       "report_found"}
  <1>1. Control /\ product \in [Product -> Row]
    BY DEF Shape, TypeOK
  <1>2. CASE Update_Reread(w)
    BY <1>1, <1>2, RereadReq, FinishReq DEF Update_Reread, tables
  <1>3. CASE Create_Index(w) \/ Update_Index(w) \/ Remove_Unindex(w)
    <2>1. Finish(w) /\ product' = product /\ pc[w] \in {"variants_saved", "read_again", "deleted"}
      BY <1>3 DEF Create_Index, Update_Index, Remove_Unindex, Send, tables
    <2> QED
      BY <1>1, <2>1, FinishReq
  <1>4. CASE Update_UnknownVariant(w) \/ Like_Remove(w) \/ Like_Insert(w) \/ Report_Save(w)
    <2>1. Finish(w) /\ product' = product /\ pc[w] \in {"written", "like_found", "report_found"}
      BY <1>4 DEF Update_UnknownVariant, Like_Remove, Like_Insert, Report_Save, tables
    <2> QED
      BY <1>1, <2>1, FinishReq
  <1> QED
    BY <1>2, <1>3, <1>4 DEF Steps

LEMMA TroubleStays == ASSUME [Next]_vars PROVE trouble' = trouble
  <1>1. ASSUME NEW w \in Worker, Begin(w) PROVE trouble' = trouble
    BY <1>1 DEF Begin, Create_Save, Update_Find, Remove_Find, Like_Find, Report_Find, Start
  <1>2. ASSUME NEW w \in Worker, Continue(w) PROVE trouble' = trouble
    BY <1>2 DEF Continue, Create_SaveVariants, Create_Index, Update_Write, Update_AddVariant,
       Update_UnknownVariant, Update_Reread, Update_Index, Remove_Variants, Remove_Product,
       Remove_Unindex, Like_Remove, Like_Insert, Report_Save, Goto, Overtake, Reread, Send, Finish
  <1>3. ASSUME NEW w \in Worker, Abandon(w) PROVE trouble' = trouble
    BY <1>3 DEF Abandon, Finish
  <1> QED
    BY <1>1, <1>2, <1>3 DEF Next, Deliver, Lose, Sync_Find, Sync_Index, vars

\* A request is about to give p its variants, or to take it off sale.
Restocking(p) ==
  \E w \in Worker : pc[w] \in {"product_saved", "variants_removed"} /\ req[w].product = p

Stocked == "dies" \notin trouble =>
             \A p \in Product : Live(p) /\ product[p].variants = 0 => Restocking(p)

\* A step of a request that is not restocking, and leaves the products alone.
LEMMA StockedKept ==
  ASSUME Stocked, NEW w \in Worker, Others(w), product' = product, trouble' = trouble,
         "dies" \in trouble \/ pc[w] \notin {"product_saved", "variants_removed"}
  PROVE  Stocked'
  BY DEF Stocked, Restocking, Others, Live

\* A step of a request that changes p, which has a variant, is off sale, or is
\* being restocked afterwards.
LEMMA StockedRow ==
  ASSUME Shape, Stocked, NEW w \in Worker, NEW p \in Product, Others(w), OnlyRow(p), trouble' = trouble,
         pc[w] \notin {"product_saved", "variants_removed"} \/ req[w].product = p,
         \/ product'[p].variants > 0 \/ product'[p].status # "live"
         \/ pc'[w] \in {"product_saved", "variants_removed"} /\ req'[w].product = p
  PROVE  Stocked'
  <1> SUFFICES ASSUME "dies" \notin trouble, NEW q \in Product, Live(q)', product'[q].variants = 0
               PROVE  Restocking(q)'
    BY DEF Stocked
  <1>1. CASE q = p
    BY <1>1 DEF Restocking, Live
  <1>2. CASE q # p
    <2>1. Restocking(q)
      BY <1>2 DEF Stocked, OnlyRow, Live
    <2> QED
      BY <1>2, <2>1 DEF Restocking, Others
  <1> QED
    BY <1>1, <1>2

LEMMA ContinueStocked ==
  ASSUME Shape, Stocked, NEW w \in Worker, Continue(w), trouble' = trouble
  PROVE  Stocked'
  <1>1. CASE Create_SaveVariants(w)
    BY <1>1, SaveVariantsFacts, StockedRow
  <1>2. CASE Update_Write(w)
    <2> DEFINE p == req[w].product
    <2>1. /\ Others(w) /\ pc[w] = "update_found" /\ p \in Product /\ OnlyRow(p)
          /\ product'[p].status = product[p].status /\ product'[p].variants = product[p].variants
      BY <1>2, WriteFacts
    <2> HIDE DEF p
    <2>2. \A v \in Worker : pc[v] \in {"product_saved", "variants_removed"} =>
            pc'[v] = pc[v] /\ req'[v] = req[v]
      BY <2>1 DEF Others
    <2>3. \A q \in Product : Live(q)' /\ product'[q].variants = 0 =>
            Live(q) /\ product[q].variants = 0
      BY <2>1 DEF OnlyRow, Live
    <2> QED
      BY <2>2, <2>3 DEF Stocked, Restocking
  <1>3. CASE Update_AddVariant(w)
    BY <1>3, AddVariantFacts, StockedRow
  <1>4. CASE Remove_Variants(w)
    BY <1>4, RemoveVariantsFacts, StockedRow
  <1>5. CASE Remove_Product(w)
    BY <1>5, RemoveProductFacts, StockedRow
  <1>6. CASE Steps(w)
    BY <1>6, StepsFacts, StockedKept
  <1> QED
    BY <1>1, <1>2, <1>3, <1>4, <1>5, <1>6 DEF Continue, Steps

LEMMA NextStocked == ASSUME Shape, Stocked, [Next]_vars PROVE Stocked'
  <1>0. trouble' = trouble
    BY TroubleStays
  <1>1. ASSUME NEW w \in Worker, Begin(w) PROVE Stocked'
    <2>1. PICK p \in Product : Create_Save(w, p) \/ Look(w, p)
      BY <1>1, BeginIs
    <2>2. CASE Create_Save(w, p)
      BY <1>0, <2>2, CreateFacts, StockedRow
    <2>3. CASE Look(w, p)
      BY <1>0, <2>3, LookFacts, StockedKept DEF tables
    <2> QED
      BY <2>1, <2>2, <2>3
  <1>2. ASSUME NEW w \in Worker, Abandon(w) PROVE Stocked'
    <2>1. Others(w) /\ product' = product /\ "dies" \in trouble
      BY <1>2, FinishReq DEF Abandon, Shape, tables
    <2> QED
      BY <1>0, <2>1, StockedKept
  <1>3. CASE Deliver \/ Lose \/ Sync_Find \/ Sync_Index \/ UNCHANGED vars
    <2>1. product' = product /\ pc' = pc /\ req' = req
      BY <1>3 DEF Deliver, Lose, Sync_Find, Sync_Index, vars, tables
    <2> QED
      BY <1>0, <2>1 DEF Stocked, Restocking, Live
  <1> QED
    BY <1>0, <1>1, <1>2, <1>3, ContinueStocked DEF Next

\* Unless a request dies, a product on sale has a variant that can be ordered,
\* or createProduct or remove is about to see to it.
THEOREM SaleableOnSale == Spec => []OnSaleHasVariants
  <1>1. Init => Stocked
    BY DEF Init, Stocked, Live
  <1>2. Shape /\ Stocked /\ [Next]_vars => Stocked'
    BY NextStocked
  <1>3. Shape /\ Stocked => OnSaleHasVariants
    BY DEF Shape, Control, Stocked, Restocking, OnSaleHasVariants
  <1> QED
    BY <1>1, <1>2, <1>3, ShapeAlways, PTL DEF Spec

-----------------------------------------------------------------------------
(* One like and one report per user and product.                           *)

Alone == \A v, w \in Worker : pc[v] # "idle" /\ pc[w] # "idle" => v = w

\* What the request being handled has found is still so.
Unchanged(w) ==
  /\ pc[w] = "like_found" /\ req[w].like = 0 => LikesOf(req[w].product, req[w].user) = {}
  /\ pc[w] = "report_found" => reports[<<req[w].product, req[w].user>>] = 0

OneEach ==
  /\ \A l, m \in likes : l.product = m.product /\ l.user = m.user => l = m
  /\ \A k \in Product \X User : reports[k] <= 1

Once == "overlap" \notin trouble => Alone /\ OneEach /\ \A w \in Worker : Unchanged(w)

\* The request of w is the only one, before the step and after it.
OnlyOne(w) == Others(w) /\ \A v \in Worker \ {w} : pc[v] = "idle"

LEMMA OnceFrom ==
  ASSUME NEW w \in Worker, OnlyOne(w), OneEach', Unchanged(w)'
  PROVE  Once'
  BY DEF Once, OnlyOne, Others, Alone, Unchanged

\* A step that is not about likes or reports.
LEMMA OnceKept ==
  ASSUME Once, "overlap" \notin trouble, NEW w \in Worker, OnlyOne(w),
         pc'[w] \notin {"like_found", "report_found"}, UNCHANGED <<likes, reports>>
  PROVE  Once'
  <1>1. OneEach'
    BY DEF Once, OneEach
  <1>2. Unchanged(w)'
    BY DEF Unchanged
  <1> QED
    BY <1>1, <1>2, OnceFrom

LEMMA BeginOnce ==
  ASSUME Shape, Once, "overlap" \notin trouble, NEW w \in Worker, Begin(w)
  PROVE  Once'
  <1>1. Control
    BY DEF Shape
  <1>2. PICK p \in Product : Create_Save(w, p) \/ Look(w, p)
    BY BeginIs
  <1>3. ASSUME Create_Save(w, p) PROVE Once'
    <2>1. UNCHANGED <<likes, reports>> /\ \A v \in Worker : pc[v] = "idle"
      BY <1>3 DEF Create_Save, Start, Idle
    <2>2. Others(w) /\ pc'[w] = "product_saved"
      BY <1>3, CreateFacts
    <2> QED
      BY <2>1, <2>2, OnceKept DEF OnlyOne
  <1>4. ASSUME Update_Find(w, p) \/ Remove_Find(w, p) PROVE Once'
    <2>1. pc'[w] \notin {"like_found", "report_found"} /\ UNCHANGED <<likes, reports>>
          /\ \A v \in Worker : pc[v] = "idle"
      BY <1>1, <1>4 DEF Update_Find, Remove_Find, Start, Idle, tables, Control
    <2>2. Others(w)
      BY <1>4, LookFacts DEF Look
    <2> QED
      BY <2>1, <2>2, OnceKept DEF OnlyOne
  <1>5. ASSUME NEW u \in User, Like_Find(w, p, u) PROVE Once'
    <2>1. PICK like \in 0 .. MaxLikes : /\ Start(w, p, u, like, "like_found")
                                        /\ like = 0 => LikesOf(p, u) = {}
      <3>1. \A l \in LikesOf(p, u) : l.id \in 1 .. MaxLikes
        BY DEF LikesOf, Shape, TypeOK, Like
      <3>2. 0 \in 0 .. MaxLikes /\ \A k \in 1 .. MaxLikes : k \in 0 .. MaxLikes /\ k # 0
        BY BoundsOK
      <3> QED
        BY <1>5, <3>1, <3>2 DEF Like_Find
    <2>2. Others(w) /\ pc'[w] = "like_found" /\ req'[w].product = p /\ req'[w].user = u
          /\ req'[w].like = like
      BY <1>1, <2>1, StartReq DEF At
    <2>3. likes' = likes /\ reports' = reports /\ \A v \in Worker : pc[v] = "idle"
      BY <1>5, <2>1 DEF Like_Find, Start, Idle, tables
    <2>4. OneEach'
      BY <2>3 DEF Once, OneEach
    <2>5. Unchanged(w)'
      BY <2>1, <2>2, <2>3 DEF Unchanged, LikesOf
    <2> QED
      BY <2>2, <2>3, <2>4, <2>5, OnceFrom DEF OnlyOne
  <1>6. ASSUME NEW u \in User, Report_Find(w, p, u) PROVE Once'
    <2>1. Start(w, p, u, 0, "report_found") /\ 0 \in 0 .. MaxLikes /\ reports[<<p, u>>] = 0
      BY <1>6, BoundsOK DEF Report_Find
    <2>2. Others(w) /\ pc'[w] = "report_found" /\ req'[w].product = p /\ req'[w].user = u
      BY <1>1, <2>1, StartReq DEF At
    <2>3. likes' = likes /\ reports' = reports /\ \A v \in Worker : pc[v] = "idle"
      BY <1>6, <2>1 DEF Report_Find, Start, Idle, tables
    <2>4. OneEach'
      BY <2>3 DEF Once, OneEach
    <2>5. Unchanged(w)'
      BY <2>1, <2>2, <2>3 DEF Unchanged
    <2> QED
      BY <2>2, <2>3, <2>4, <2>5, OnceFrom DEF OnlyOne
  <1> QED
    BY <1>2, <1>3, <1>4, <1>5, <1>6 DEF Look

LEMMA ContinueOnce ==
  ASSUME Shape, Once, "overlap" \notin trouble, NEW w \in Worker, Continue(w)
  PROVE  Once'
  <1>1. Control /\ TablesOK /\ Alone /\ OneEach /\ Unchanged(w)
    BY ShapeParts DEF Once
  <1>2. CASE Create_SaveVariants(w) \/ Update_Write(w) \/ Update_AddVariant(w)
             \/ Remove_Variants(w) \/ Remove_Product(w)
    <2>1. /\ Others(w) /\ pc[w] # "idle" /\ pc'[w] \notin {"like_found", "report_found"}
          /\ UNCHANGED <<likes, reports>>
      BY <1>2, SaveVariantsFacts, WriteFacts, AddVariantFacts, RemoveVariantsFacts, RemoveProductFacts
         DEF Create_SaveVariants, Update_Write, Update_AddVariant, Remove_Variants, Remove_Product
    <2> QED
      BY <1>1, <2>1, OnceKept DEF OnlyOne, Alone
  <1>3. CASE Steps(w)
    <2>1. OnlyOne(w) /\ pc[w] # "idle" /\ pc'[w] \in {"idle", "read_again"}
      BY <1>1, <1>3, StepsFacts DEF OnlyOne, Alone
    <2>2. Unchanged(w)'
      BY <2>1 DEF Unchanged
    <2>3. OneEach'
      <3>1. CASE Create_Index(w) \/ Update_UnknownVariant(w) \/ Update_Reread(w) \/ Update_Index(w)
                 \/ Remove_Unindex(w)
        <4>1. likes' = likes /\ reports' = reports
          BY <3>1 DEF Create_Index, Update_UnknownVariant, Update_Reread, Update_Index,
             Remove_Unindex, Send, tables
        <4> QED
          BY <1>1, <4>1 DEF OneEach
      <3>2. CASE Like_Remove(w)
        BY <1>1, <3>2 DEF Like_Remove, OneEach
      <3>3. CASE Like_Insert(w)
        <4> DEFINE new == [id |-> inserted + 1, product |-> req[w].product, user |-> req[w].user]
        <4>1. /\ likes' = likes \cup {new} /\ reports' = reports
              /\ LikesOf(req[w].product, req[w].user) = {}
          BY <1>1, <3>3 DEF Like_Insert, Unchanged
        <4>2. new.product = req[w].product /\ new.user = req[w].user
          OBVIOUS
        <4> HIDE DEF new
        <4>3. \A l \in likes : ~(l.product = new.product /\ l.user = new.user)
          BY <4>1, <4>2 DEF LikesOf
        <4>4. \A l, m \in likes \cup {new} : l.product = m.product /\ l.user = m.user => l = m
          BY <1>1, <4>3 DEF OneEach
        <4> QED
          BY <1>1, <4>1, <4>4 DEF OneEach
      <3>4. CASE Report_Save(w)
        <4> DEFINE k == <<req[w].product, req[w].user>>
        <4>1. /\ pc[w] = "report_found" /\ reports' = [reports EXCEPT ![k] = @ + 1]
              /\ likes' = likes
          BY <3>4 DEF Report_Save
        <4>2. req[w].product \in Product /\ req[w].user \in User
          BY <1>1, <4>1, Running DEF Control
        <4>3. k \in Product \X User /\ reports[k] = 0
          BY <1>1, <4>1, <4>2 DEF Unchanged
        <4> HIDE DEF k
        <4>4. reports'[k] = 1 /\ \A j \in Product \X User : j # k => reports'[j] = reports[j]
          BY <1>1, <4>1, <4>3 DEF TablesOK
        <4>5. \A j \in Product \X User : reports'[j] <= 1
          <5>1. \A j \in Product \X User : reports[j] <= 1
            BY <1>1 DEF OneEach
          <5> QED
            BY <4>4, <5>1
        <4> QED
          BY <1>1, <4>1, <4>5 DEF OneEach
      <3> QED
        BY <1>3, <3>1, <3>2, <3>3, <3>4 DEF Steps
    <2> QED
      BY <2>1, <2>2, <2>3, OnceFrom
  <1> QED
    BY <1>2, <1>3 DEF Continue, Steps

LEMMA NextOnce == ASSUME Shape, Once, [Next]_vars PROVE Once'
  <1>0. trouble' = trouble
    BY TroubleStays
  <1> SUFFICES ASSUME "overlap" \notin trouble PROVE Once'
    BY <1>0 DEF Once
  <1>1. ASSUME NEW w \in Worker, Abandon(w) PROVE Once'
    <2>1. Others(w) /\ pc[w] # "idle" /\ pc'[w] = "idle" /\ likes' = likes /\ reports' = reports
      BY <1>1, FinishReq DEF Abandon, Shape, tables, Idle
    <2> QED
      BY <2>1, OnceKept DEF Once, OnlyOne, Alone
  <1>2. CASE Deliver \/ Lose \/ Sync_Find \/ Sync_Index \/ UNCHANGED vars
    <2>1. likes' = likes /\ reports' = reports /\ pc' = pc /\ req' = req
      BY <1>2 DEF Deliver, Lose, Sync_Find, Sync_Index, vars, tables
    <2> QED
      BY <1>0, <2>1 DEF Once, Alone, OneEach, Unchanged, LikesOf
  <1> QED
    BY <1>1, <1>2, BeginOnce, ContinueOnce DEF Next

\* Unless requests overlap, likeProduct and reportProduct leave a user with at
\* most one like and one report per product, even if requests die.
THEOREM LikedOnce == Spec => []OncePerUser
  <1>1. Init => Once
    BY DEF Init, Once, Alone, OneEach, Unchanged, LikesOf
  <1>2. Shape /\ Once /\ [Next]_vars => Once'
    BY NextOnce
  <1>3. Shape /\ Once => OncePerUser
    <2>1. ASSUME NEW S, \A l, m \in S : l = m PROVE Cardinality(S) <= 1
      <3>1. CASE S = {}
        BY <3>1, FS_EmptySet
      <3>2. ASSUME NEW x \in S PROVE Cardinality(S) <= 1
        <4>1. S = {x}
          BY <2>1, <3>2
        <4> QED
          BY <4>1, FS_Singleton
      <3> QED
        BY <3>1, <3>2
    <2>2. ASSUME Shape, Once, "overlap" \notin trouble, NEW p \in Product, NEW u \in User
          PROVE  Cardinality(LikesOf(p, u)) <= 1 /\ reports[<<p, u>>] <= 1
      <3>1. \A l, m \in LikesOf(p, u) : l = m
        BY <2>2 DEF Once, OneEach, LikesOf
      <3>2. <<p, u>> \in Product \X User
        OBVIOUS
      <3> QED
        BY <2>1, <2>2, <3>1, <3>2 DEF Once, OneEach
    <2> QED
      BY <2>2 DEF OncePerUser
  <1> QED
    BY <1>1, <1>2, <1>3, ShapeAlways, PTL DEF Spec

-----------------------------------------------------------------------------
(* The index follows the table.                                            *)

\* The document of p once the calls on their way have arrived, one after the other.
Final(p, v) ==
  \/ \E i \in DOMAIN calls : /\ calls[i].product = p /\ calls[i].version = v
                             /\ \A j \in DOMAIN calls : j > i => calls[j].product # p
  \/ index[p] = v /\ \A i \in DOMAIN calls : calls[i].product # p

\* Worker w's request is about p.
On(w, p) == pc[w] # "idle" /\ req[w].product = p

\* The script has the index for itself, and holds rows as they are.
Synced ==
  sync # {} => /\ calls = <<>> /\ \A w \in Worker : pc[w] = "idle"
               /\ \A d \in sync : Live(d.product) /\ d.version = product[d.product].version

\* What a request has of its row is so, unless it is late; and a product that
\* was deleted stays deleted.
Current(w) ==
  /\ pc[w] \in {"product_saved", "variants_saved"} /\ w \notin late =>
       Live(req[w].product) /\ product[req[w].product].version = 1
  /\ pc[w] = "read_again" /\ w \notin late =>
       Live(req[w].product) /\ product[req[w].product].version = req[w].version
  /\ pc[w] = "deleted" => product[req[w].product].status = "deleted"

\* A request that is still to index p, or to remove its document.
Telling(w, p) ==
  On(w, p) /\ pc[w] \in {"product_saved", "variants_saved", "written", "read_again"}
Removing(w, p) == On(w, p) /\ pc[w] = "deleted"

\* What the index will say of p is what the row says, unless a request is still
\* to say it, or p is behind.
Follows(p) ==
  p \notin behind =>
    /\ ~Live(p) /\ (\A w \in Worker : ~Removing(w, p)) => Final(p, 0)
    /\ Live(p) /\ (\A w \in Worker : ~Telling(w, p)) => Final(p, product[p].version)

Following ==
  trouble \subseteq {"overlap", "dies"} =>
    Synced /\ (\A w \in Worker : Current(w)) /\ \A p \in Product : Follows(p)

LEMMA FinalSame ==
  ASSUME calls' = calls, index' = index, NEW p \in Product, NEW v, Final(p, v)
  PROVE  Final(p, v)'
  BY DEF Final

LEMMA FinalSend ==
  ASSUME SearchOK, NEW w \in Worker, NEW p \in Product, p = req[w].product,
         NEW v \in 0 .. MaxVersion, Send(w, v)
  PROVE  /\ Final(p, v)'
         /\ \A q \in Product \ {p} : \A x : Final(q, x) => Final(q, x)'
  <1> DEFINE n == Len(calls) + 1
  <1>1. /\ Len(calls) \in Nat /\ DOMAIN calls = 1 .. Len(calls)
        /\ DOMAIN calls' = 1 .. n /\ \A i \in DOMAIN calls : calls'[i] = calls[i]
        /\ calls'[n].product = p /\ calls'[n].version = v /\ index' = index
    BY SendFacts DEF SearchOK
  <1>2. n \in Nat /\ n \in DOMAIN calls' /\ \A i \in DOMAIN calls' : ~(i > n)
    BY <1>1
  <1>3. DOMAIN calls \subseteq DOMAIN calls' /\ \A i \in DOMAIN calls' : i \in DOMAIN calls \/ i = n
    BY <1>1
  <1> HIDE DEF n
  <1>4. Final(p, v)'
    BY <1>1, <1>2 DEF Final
  <1>5. ASSUME NEW q \in Product \ {p}, NEW x, Final(q, x) PROVE Final(q, x)'
    BY <1>1, <1>3, <1>5 DEF Final
  <1> QED
    BY <1>4, <1>5

\* The first call has arrived.
LEMMA FinalDeliver ==
  ASSUME SearchOK, 1 \in DOMAIN calls, calls' = RemoveAt(calls, 1),
         index' = [index EXCEPT ![calls[1].product] = calls[1].version],
         NEW p \in Product, NEW v, Final(p, v)
  PROVE  Final(p, v)'
  <1> DEFINE n == Len(calls)
  <1>1. /\ n \in Nat \ {0} /\ DOMAIN calls = 1 .. n /\ DOMAIN calls' = 1 .. n - 1
        /\ \A j \in DOMAIN calls' : calls'[j] = IF j < 1 THEN calls[j] ELSE calls[j + 1]
    BY RemoveFacts DEF SearchOK
  <1>2. \A j \in DOMAIN calls' : j + 1 \in DOMAIN calls /\ calls'[j] = calls[j + 1]
    BY <1>1
  <1>3. calls[1].product \in Product
    BY CallOf DEF SearchOK
  <1>5. ASSUME NEW i \in DOMAIN calls, i # 1, calls[i].product = p, calls[i].version = v,
               \A j \in DOMAIN calls : j > i => calls[j].product # p
        PROVE  Final(p, v)'
    <2>1. i - 1 \in DOMAIN calls' /\ calls'[i - 1] = calls[i]
      BY <1>1, <1>5
    <2>2. \A j \in DOMAIN calls' : j > i - 1 => j + 1 > i
      BY <1>1, <1>5
    <2>3. \A j \in DOMAIN calls' : j > i - 1 => calls'[j].product # p
      BY <1>2, <1>5, <2>2
    <2> QED
      BY <1>5, <2>1, <2>3 DEF Final
  <1>6. ASSUME calls[1].product = p, calls[1].version = v,
               \A j \in DOMAIN calls : j > 1 => calls[j].product # p
        PROVE  Final(p, v)'
    <2>1. index'[p] = v
      BY <1>6 DEF SearchOK
    <2>2. \A j \in DOMAIN calls' : j + 1 > 1
      BY <1>1
    <2> QED
      BY <1>2, <1>6, <2>1, <2>2 DEF Final
  <1>7. ASSUME index[p] = v, \A i \in DOMAIN calls : calls[i].product # p
        PROVE  Final(p, v)'
    <2>1. index'[p] = v
      BY <1>3, <1>7 DEF SearchOK
    <2> QED
      BY <1>2, <1>7, <2>1 DEF Final
  <1> QED
    BY <1>5, <1>6, <1>7 DEF Final

-----------------------------------------------------------------------------
\* A request about p makes no difference to another product.
LEMMA FollowsElsewhere ==
  ASSUME NEW w \in Worker, NEW p \in Product, NEW q \in Product, q # p, Follows(q), Others(w),
         pc[w] = "idle" \/ req[w].product = p, product'[q] = product[q],
         q \in behind => q \in behind', \A x : Final(q, x) => Final(q, x)'
  PROVE  Follows(q)'
  <1>1. \A v \in Worker : On(v, q) => v # w
    BY DEF On
  <1>2. \A v \in Worker : On(v, q) => On(v, q)' /\ pc'[v] = pc[v]
    BY <1>1 DEF On, Others
  <1>3. \A v \in Worker : /\ Telling(v, q) => Telling(v, q)'
                          /\ Removing(v, q) => Removing(v, q)'
    BY <1>2 DEF Telling, Removing
  <1> QED
    BY <1>3 DEF Follows, Live

\* A request about p has moved on, and what it was to do about the index is
\* still to be done, or p is behind.
LEMMA FollowsMoved ==
  ASSUME NEW w \in Worker, NEW p \in Product, Follows(p), Others(w),
         p \in behind => p \in behind', \A x : Final(p, x) => Final(p, x)',
         product'[p].status = product[p].status,
         product'[p].version = product[p].version \/ Telling(w, p)',
         Telling(w, p) => Telling(w, p)' \/ p \in behind' \/ ~Live(p),
         Removing(w, p) => Removing(w, p)' \/ p \in behind'
  PROVE  Follows(p)'
  <1>1. \A v \in Worker \ {w} : /\ Telling(v, p) => Telling(v, p)'
                                /\ Removing(v, p) => Removing(v, p)'
    BY DEF Telling, Removing, On, Others
  <1>2. Live(p)' <=> Live(p)
    BY DEF Live
  <1>3. ASSUME p \notin behind', ~Live(p)', \A v \in Worker : ~Removing(v, p)'
        PROVE  Final(p, 0)'
    BY <1>1, <1>2, <1>3 DEF Follows
  <1>4. ASSUME p \notin behind', Live(p)', \A v \in Worker : ~Telling(v, p)'
        PROVE  Final(p, product[p].version)' /\ product'[p].version = product[p].version
    <2>1. \A v \in Worker : ~Telling(v, p)
      BY <1>1, <1>2, <1>4
    <2>2. product'[p].version = product[p].version
      BY <1>4
    <2>3. Final(p, product[p].version)
      BY <1>2, <1>4, <2>1 DEF Follows
    <2>4. \A x : x = product[p].version => Final(p, x)'
      BY <2>3
    <2> QED
      BY <2>2, <2>4 DEF Final
  <1> QED
    BY <1>3, <1>4 DEF Follows

\* The parts of the invariant that a step of a request has to see to.
LEMMA FollowingFrom ==
  ASSUME Shape, Following, trouble \subseteq {"overlap", "dies"}, NEW w \in Worker, NEW p \in Product,
         Others(w), pc[w] = "idle" \/ req[w].product = p, OnlyRow(p), sync = {}, sync' = sync,
         \A q \in Product \ {p} : /\ q \in behind => q \in behind'
                                  /\ \A x : Final(q, x) => Final(q, x)',
         product[p].status = "deleted" => product'[p].status = "deleted",
         \/ product'[p].status = product[p].status /\ product'[p].version = product[p].version
         \/ pc[w] # "idle" /\ Overtaken(w)
         \/ product[p].status = "none",
         Current(w)', Follows(p)'
  PROVE  Following'
  <1>1. \A q \in Product : q # p => Follows(q)'
    BY FollowsElsewhere DEF Following, OnlyRow
  <1>2. ASSUME NEW v \in Worker, v # w PROVE Current(v)'
    <2>1. pc'[v] = pc[v] /\ req'[v] = req[v] /\ (v \in late => v \in late') /\ Current(v)
      BY <1>2 DEF Others, Following
    <2>2. CASE pc[v] = "idle"
      BY <2>1, <2>2 DEF Current
    <2>3. ASSUME pc[v] # "idle", req[v].product # p PROVE Current(v)'
      <3>1. req[v].product \in Product
        BY <2>3, Running DEF Shape
      <3>2. product'[req[v].product] = product[req[v].product]
        BY <2>3, <3>1 DEF OnlyRow
      <3> QED
        BY <2>1, <3>2 DEF Current, Live
    <2>4. ASSUME pc[v] # "idle", req[v].product = p PROVE Current(v)'
      <3>1. CASE product'[p].status = product[p].status /\ product'[p].version = product[p].version
        BY <2>1, <2>4, <3>1 DEF Current, Live
      <3>2. CASE pc[w] # "idle" /\ Overtaken(w)
        <4>1. Holds(v) => v \in late'
          BY <1>2, <2>4, <3>2 DEF Overtaken
        <4> QED
          BY <2>1, <2>4, <4>1 DEF Current, Holds
      <3>3. CASE product[p].status = "none"
        BY <2>1, <2>4, <3>3 DEF Current, Live
      <3> QED
        BY <3>1, <3>2, <3>3
    <2> QED
      BY <2>2, <2>3, <2>4
  <1>3. Synced'
    BY DEF Synced
  <1> QED
    BY <1>1, <1>2, <1>3 DEF Following

\* A request that has sent what it had of its row, and is over.
LEMMA SentFollowing ==
  ASSUME Shape, Following, trouble \subseteq {"overlap", "dies"}, NEW w \in Worker, pc[w] # "idle",
         NEW v \in 0 .. MaxVersion, Send(w, v),
         w \notin late => v = IF Live(req[w].product) THEN product[req[w].product].version ELSE 0
  PROVE  Following'
  <1>1. Control /\ SearchOK /\ TablesOK /\ Synced
    BY ShapeParts DEF Following
  <1>2. PICK p \in Product : p = req[w].product
    BY <1>1, Running
  <1>3. Others(w) /\ pc'[w] = "idle"
    BY SentShape
  <1>4. product' = product /\ OnlyRow(p)
    BY <1>1 DEF Send, tables, OnlyRow, TablesOK
  <1>5. /\ sync' = sync /\ sync = {}
        /\ behind' = IF w \in late THEN behind \cup {p} ELSE behind \ {p}
    BY <1>1, <1>2 DEF Send, Synced
  <1>6. Final(p, v)' /\ \A q \in Product \ {p} : \A x : Final(q, x) => Final(q, x)'
    BY <1>1, <1>2, FinalSend
  <1>7. Current(w)'
    BY <1>3 DEF Current
  <1>8. Follows(p)'
    <2>1. CASE w \in late
      BY <1>5, <2>1 DEF Follows
    <2>2. CASE w \notin late
      <3>1. v = IF Live(p) THEN product[p].version ELSE 0
        BY <1>2, <2>2
      <3> QED
        BY <1>4, <1>6, <3>1 DEF Follows, Live, Final
    <2> QED
      BY <2>1, <2>2
  <1>9. \A q \in Product \ {p} : q \in behind => q \in behind'
    BY <1>5
  <1> QED
    BY <1>2, <1>3, <1>4, <1>5, <1>6, <1>7, <1>8, <1>9, FollowingFrom

LEMMA BeginFollowing ==
  ASSUME Shape, Following, trouble \subseteq {"overlap", "dies"}, NEW w \in Worker, Begin(w)
  PROVE  Following'
  <1>1. PICK p \in Product : Create_Save(w, p) \/ Look(w, p)
    BY BeginIs
  <1>2. ASSUME Create_Save(w, p) PROVE Following'
    <2>1. /\ Others(w) /\ pc[w] = "idle" /\ pc'[w] = "product_saved" /\ req'[w].product = p
          /\ product[p].status = "none" /\ OnlyRow(p)
          /\ product'[p].status = "live" /\ product'[p].version = 1
      BY <1>2, CreateFacts
    <2>2. calls' = calls /\ index' = index /\ sync' = sync /\ behind' = behind /\ sync = {}
      BY <1>2 DEF Create_Save, Start, search
    <2>3. Current(w)'
      BY <2>1 DEF Current, Live
    <2>4. Follows(p)'
      <3>1. Telling(w, p)'
        BY <2>1 DEF Telling, On
      <3> QED
        BY <2>1, <3>1 DEF Follows, Live
    <2> QED
      BY <2>1, <2>2, <2>3, <2>4, FinalSame, FollowingFrom
  <1>3. ASSUME Look(w, p) PROVE Following'
    <2>1. /\ Others(w) /\ pc[w] = "idle" /\ pc'[w] \in Looking /\ req'[w].product = p /\ Live(p)
          /\ product' = product /\ calls' = calls /\ index' = index /\ sync' = sync
          /\ behind' = behind
      BY <1>3, LookFacts DEF tables, search
    <2>2. sync = {}
      BY <1>3, LookFacts DEF Start
    <2>3. Current(w)'
      BY <2>1 DEF Current, Looking
    <2>4. ~Telling(w, p) /\ ~Removing(w, p)
      BY <2>1 DEF Telling, Removing, On
    <2>5. Follows(p)'
      BY <2>1, <2>4, FinalSame, FollowsMoved DEF Following
    <2>6. OnlyRow(p)
      BY <2>1 DEF OnlyRow, Shape, TypeOK
    <2> QED
      BY <2>1, <2>2, <2>3, <2>5, <2>6, FinalSame, FollowingFrom
  <1> QED
    BY <1>1, <1>2, <1>3

LEMMA ContinueFollowing ==
  ASSUME Shape, Following, trouble \subseteq {"overlap", "dies"}, NEW w \in Worker, Continue(w)
  PROVE  Following'
  <1>1. Control /\ SearchOK /\ TablesOK /\ Synced /\ Current(w) /\ \A q \in Product : Follows(q)
    BY ShapeParts DEF Following
  <1>2. pc[w] # "idle"
    BY DEF Continue, Create_SaveVariants, Create_Index, Update_Write, Update_AddVariant,
       Update_UnknownVariant, Update_Reread, Update_Index, Remove_Variants, Remove_Product,
       Remove_Unindex, Like_Remove, Like_Insert, Report_Save
  <1>0. PICK p \in Product : p = req[w].product
    BY <1>1, <1>2, Running
  <1>3. sync = {}
    BY <1>1, <1>2 DEF Synced
  <1>4. CASE Create_SaveVariants(w)
    <2>1. /\ Others(w) /\ pc[w] = "product_saved" /\ pc'[w] = "variants_saved" /\ req' = req
          /\ OnlyRow(p)
          /\ product'[p].status = product[p].status /\ product'[p].version = product[p].version
      BY <1>0, <1>4, SaveVariantsFacts
    <2>2. calls' = calls /\ index' = index /\ sync' = sync /\ behind' = behind /\ late' = late
      BY <1>4 DEF Create_SaveVariants, search, Goto
    <2>3. Current(w)'
      BY <1>0, <1>1, <2>1, <2>2 DEF Current, Live
    <2>4. Telling(w, p)' /\ ~Removing(w, p)
      BY <1>0, <2>1 DEF Telling, Removing, On
    <2>5. Follows(p)'
      BY <1>1, <2>1, <2>2, <2>4, FinalSame, FollowsMoved
    <2> QED
      BY <1>0, <1>3, <2>1, <2>2, <2>3, <2>5, FinalSame, FollowingFrom
  <1>5. CASE Update_Write(w) \/ Update_AddVariant(w)
    <2>1. /\ Others(w) /\ pc'[w] = "written" /\ req' = req /\ OnlyRow(p)
          /\ product'[p].status = product[p].status
      BY <1>0, <1>5, WriteFacts, AddVariantFacts
    <2>2. product'[p].version = product[p].version \/ Overtaken(w)
      BY <1>0, <1>5, WriteFacts, AddVariantFacts
    <2>3. calls' = calls /\ index' = index /\ sync' = sync /\ behind' = behind
      BY <1>5 DEF Update_Write, Update_AddVariant, search
    <2>4. Current(w)'
      BY <2>1 DEF Current
    <2>5. Telling(w, p)' /\ ~Removing(w, p)
      BY <1>0, <1>2, <1>5, <2>1 DEF Telling, Removing, On, Update_Write, Update_AddVariant
    <2>6. Follows(p)'
      BY <1>1, <2>1, <2>3, <2>5, FinalSame, FollowsMoved
    <2> QED
      BY <1>0, <1>2, <1>3, <2>1, <2>2, <2>3, <2>4, <2>6, FinalSame, FollowingFrom
  <1>6. CASE Remove_Variants(w)
    <2>1. /\ Others(w) /\ pc[w] = "remove_found" /\ pc'[w] = "variants_removed" /\ req' = req
          /\ OnlyRow(p)
          /\ product'[p].status = product[p].status /\ product'[p].version = product[p].version
      BY <1>0, <1>6, RemoveVariantsFacts
    <2>2. calls' = calls /\ index' = index /\ sync' = sync /\ behind' = behind
      BY <1>6 DEF Remove_Variants, search
    <2>3. Current(w)'
      BY <2>1 DEF Current
    <2>4. ~Telling(w, p) /\ ~Removing(w, p)
      BY <2>1 DEF Telling, Removing
    <2>5. Follows(p)'
      BY <1>1, <2>1, <2>2, <2>4, FinalSame, FollowsMoved
    <2> QED
      BY <1>0, <1>3, <2>1, <2>2, <2>3, <2>5, FinalSame, FollowingFrom
  <1>7. CASE Remove_Product(w)
    <2>1. /\ Others(w) /\ pc'[w] = "deleted" /\ req' = req /\ OnlyRow(p)
          /\ product'[p].status = "deleted" /\ Overtaken(w)
      BY <1>0, <1>7, RemoveProductFacts
    <2>2. calls' = calls /\ index' = index /\ sync' = sync /\ behind' = behind
      BY <1>7 DEF Remove_Product, search
    <2>3. Current(w)'
      BY <1>0, <2>1 DEF Current
    <2>4. Follows(p)'
      <3>1. Removing(w, p)'
        BY <1>0, <2>1 DEF Removing, On
      <3> QED
        BY <2>1, <3>1 DEF Follows, Live
    <2> QED
      BY <1>0, <1>2, <1>3, <2>1, <2>2, <2>3, <2>4, FinalSame, FollowingFrom
  <1>8. CASE Create_Index(w)
    <2>1. pc[w] = "variants_saved" /\ Send(w, 1) /\ 1 \in 0 .. MaxVersion
      BY <1>8, BoundsOK DEF Create_Index
    <2>2. w \notin late => 1 = IF Live(req[w].product) THEN product[req[w].product].version ELSE 0
      BY <1>1, <2>1 DEF Current
    <2> QED
      BY <1>2, <2>1, <2>2, SentFollowing
  <1>9. CASE Update_Index(w)
    <2>1. pc[w] = "read_again" /\ Send(w, req[w].version) /\ req[w].version \in 0 .. MaxVersion
      BY <1>1, <1>2, <1>9, Running DEF Update_Index
    <2>2. w \notin late =>
            req[w].version = IF Live(req[w].product) THEN product[req[w].product].version ELSE 0
      BY <1>1, <2>1 DEF Current
    <2> QED
      BY <1>2, <2>1, <2>2, SentFollowing
  <1>10. CASE Remove_Unindex(w)
    <2>1. pc[w] = "deleted" /\ Send(w, 0) /\ 0 \in 0 .. MaxVersion
      BY <1>10, BoundsOK DEF Remove_Unindex
    <2>2. w \notin late => 0 = IF Live(req[w].product) THEN product[req[w].product].version ELSE 0
      BY <1>1, <2>1 DEF Current, Live
    <2> QED
      BY <1>2, <2>1, <2>2, SentFollowing
  <1>11. CASE Update_UnknownVariant(w) \/ Update_Reread(w) \/ Like_Remove(w) \/ Like_Insert(w)
              \/ Report_Save(w)
    <2>1. /\ Others(w) /\ pc'[w] \in {"idle", "read_again"} /\ product' = product
          /\ pc[w] \in {"written", "like_found", "report_found"}
      <3>1. Others(w) /\ pc'[w] \in {"idle", "read_again"} /\ product' = product
        BY <1>11, StepsFacts DEF Steps
      <3>2. pc[w] \in {"written", "like_found", "report_found"}
        BY <1>11 DEF Update_UnknownVariant, Update_Reread, Like_Remove, Like_Insert, Report_Save
      <3> QED
        BY <3>1, <3>2
    <2>2. OnlyRow(p)
      BY <1>1, <2>1 DEF OnlyRow, TablesOK
    <2>3. /\ calls' = calls /\ index' = index /\ sync' = sync
          /\ \A q \in Product : q \in behind => q \in behind'
      BY <1>11 DEF Update_UnknownVariant, Update_Reread, Like_Remove, Like_Insert, Report_Save, search
    <2>4. Current(w)'
      <3>1. CASE pc'[w] = "idle"
        BY <3>1 DEF Current
      <3>2. CASE pc'[w] # "idle"
        <4>1. Update_Reread(w) /\ pc[w] = "written"
          BY <1>1, <1>11, <3>2, FinishReq
             DEF Update_Reread, Update_UnknownVariant, Like_Remove, Like_Insert, Report_Save
        <4>2. Live(req[w].product) /\ Reread(w)
          BY <1>1, <3>2, <4>1, FinishReq DEF Update_Reread
        <4>3. /\ pc'[w] = "read_again" /\ req'[w].product = p
              /\ req'[w].version = product[p].version
          BY <1>0, <1>1, <4>1, <4>2, RereadReq DEF TablesOK
        <4> QED
          BY <1>0, <2>1, <4>2, <4>3 DEF Current, Live
      <3> QED
        BY <3>1, <3>2
    <2>5. ~Removing(w, p)
      BY <2>1 DEF Removing
    <2>6. Telling(w, p) => Telling(w, p)' \/ p \in behind' \/ ~Live(p)
      <3>1. CASE Update_UnknownVariant(w)
        BY <1>0, <3>1 DEF Update_UnknownVariant
      <3>2. CASE Update_Reread(w)
        <4>1. CASE Live(req[w].product)
          <5>1. Reread(w) /\ pc[w] = "written"
            BY <3>2, <4>1 DEF Update_Reread
          <5>2. pc'[w] = "read_again" /\ req'[w].product = p
            BY <1>0, <1>1, <5>1, RereadReq DEF TablesOK
          <5> QED
            BY <5>2 DEF Telling, On
        <4> QED
          BY <1>0, <4>1
      <3>3. CASE Like_Remove(w) \/ Like_Insert(w) \/ Report_Save(w)
        BY <3>3 DEF Like_Remove, Like_Insert, Report_Save, Telling
      <3> QED
        BY <1>11, <3>1, <3>2, <3>3
    <2>7. Follows(p)'
      BY <1>1, <2>1, <2>3, <2>5, <2>6, FinalSame, FollowsMoved
    <2> QED
      BY <1>0, <1>3, <2>1, <2>2, <2>3, <2>4, <2>7, FinalSame, FollowingFrom
  <1> QED
    BY <1>4, <1>5, <1>6, <1>7, <1>8, <1>9, <1>10, <1>11 DEF Continue

\* A request has died: what it had written and not sent leaves its product behind.
LEMMA AbandonFollowing ==
  ASSUME Shape, Following, trouble \subseteq {"overlap", "dies"}, NEW w \in Worker, Abandon(w)
  PROVE  Following'
  <1>1. Control /\ TablesOK /\ Synced /\ \A q \in Product : Follows(q)
    BY ShapeParts DEF Following
  <1>2. /\ pc[w] # "idle" /\ Finish(w) /\ product' = product /\ calls' = calls /\ index' = index
        /\ sync' = sync
        /\ behind' = IF pc[w] \in Untold THEN behind \cup {req[w].product} ELSE behind
    BY DEF Abandon, Idle, tables
  <1>3. PICK p \in Product : p = req[w].product
    BY <1>1, <1>2, Running
  <1>4. Others(w) /\ pc'[w] = "idle"
    BY <1>1, <1>2, FinishReq
  <1>5. sync = {} /\ OnlyRow(p) /\ Current(w)'
    BY <1>1, <1>2, <1>4 DEF Synced, OnlyRow, TablesOK, Current
  <1>6. \A q \in Product : q \in behind => q \in behind'
    BY <1>2
  <1>7. (Telling(w, p) \/ Removing(w, p)) => p \in behind'
    BY <1>2, <1>3 DEF Telling, Removing, Untold
  <1>8. Follows(p)'
    BY <1>1, <1>2, <1>4, <1>6, <1>7, FinalSame, FollowsMoved
  <1> QED
    BY <1>2, <1>3, <1>4, <1>5, <1>6, <1>8, FinalSame, FollowingFrom

\* A step of no request.
LEMMA OtherFollowing ==
  ASSUME Shape, Following, trouble \subseteq {"overlap", "dies"},
         Deliver \/ Lose \/ Sync_Find \/ Sync_Index \/ UNCHANGED vars
  PROVE  Following'
  <1>1. /\ product' = product /\ pc' = pc /\ req' = req /\ late' = late /\ trouble' = trouble
    BY DEF Deliver, Lose, Sync_Find, Sync_Index, vars, tables
  <1>2. /\ SearchOK /\ TablesOK /\ Synced /\ \A q \in Product : Follows(q)
        /\ \A w \in Worker : Current(w)
    BY ShapeParts DEF Following
  <1>3. \A w \in Worker : Current(w)'
    BY <1>1, <1>2 DEF Current, Live
  <1>4. ASSUME NEW q \in Product, \A x : Final(q, x) => Final(q, x)',
               q \in behind => q \in behind'
        PROVE  Follows(q)'
    BY <1>1, <1>2, <1>4 DEF Follows, Telling, Removing, On, Live
  <1>5. CASE Deliver
    <2>1. /\ 1 \in DOMAIN calls /\ calls' = RemoveAt(calls, 1) /\ sync' = sync
          /\ index' = [index EXCEPT ![calls[1].product] = calls[1].version]
          /\ behind' = behind
      BY <1>5 DEF Deliver
    <2>2. calls # <<>>
      BY <1>2, <2>1, LenProperties, EmptySeq DEF SearchOK
    <2>3. Synced'
      BY <1>2, <2>1, <2>2 DEF Synced
    <2>4. \A q \in Product : \A x : Final(q, x) => Final(q, x)'
      BY <1>2, <2>1, FinalDeliver
    <2> QED
      BY <1>3, <1>4, <2>1, <2>3, <2>4 DEF Following
  <1>6. CASE Lose
    BY <1>6 DEF Lose
  <1>7. CASE Sync_Find
    <2>1. /\ calls' = calls /\ index' = index /\ behind' = behind /\ calls = <<>>
          /\ \A w \in Worker : pc[w] = "idle"
          /\ sync' = {[product |-> p, version |-> product[p].version] : p \in {q \in Product : Live(q)}}
      BY <1>7 DEF Sync_Find, Idle
    <2>2. \A d \in sync' : Live(d.product) /\ d.version = product[d.product].version
      BY <2>1
    <2>3. Synced'
      BY <1>1, <2>1, <2>2 DEF Synced, Live
    <2> QED
      BY <1>3, <1>4, <2>1, <2>3, FinalSame DEF Following
  <1>8. CASE Sync_Index
    <2>1. PICK d \in sync : /\ index' = [index EXCEPT ![d.product] = d.version]
                            /\ sync' = sync \ {d} /\ behind' = behind \ {d.product}
                            /\ calls' = calls
      BY <1>8 DEF Sync_Index
    <2>2. /\ calls = <<>> /\ Live(d.product) /\ d.version = product[d.product].version
          /\ d.product \in Product
      BY <1>2, <2>1 DEF Synced, SearchOK, Call
    <2>3. Synced'
      BY <1>1, <1>2, <2>1 DEF Synced, Live
    <2>4. DOMAIN calls = {}
      BY <2>2, EmptySeq, LenProperties
    <2>5. \A q \in Product \ {d.product} : Follows(q)'
      <3>1. \A q \in Product \ {d.product} : \A x : Final(q, x) => Final(q, x)'
        BY <1>2, <2>1, <2>2 DEF Final, SearchOK
      <3> QED
        BY <1>4, <2>1, <3>1
    <2>6. Follows(d.product)'
      <3>1. index'[d.product] = product[d.product].version
        BY <1>2, <2>1, <2>2 DEF SearchOK
      <3> QED
        BY <1>1, <2>1, <2>2, <2>4, <3>1 DEF Follows, Final, Live
    <2> QED
      BY <1>3, <2>3, <2>5, <2>6 DEF Following
  <1>9. CASE UNCHANGED vars
    <2>1. calls' = calls /\ index' = index /\ behind' = behind /\ sync' = sync
      BY <1>9 DEF vars, search
    <2>2. Synced'
      BY <1>1, <1>2, <2>1 DEF Synced, Live
    <2> QED
      BY <1>3, <1>4, <2>1, <2>2, FinalSame DEF Following
  <1> QED
    BY <1>5, <1>6, <1>7, <1>8, <1>9

LEMMA NextFollowing == ASSUME Shape, Following, [Next]_vars PROVE Following'
  <1>1. trouble' = trouble
    BY TroubleStays
  <1>2. CASE ~(trouble \subseteq {"overlap", "dies"})
    BY <1>1, <1>2 DEF Following
  <1>3. CASE trouble \subseteq {"overlap", "dies"}
    BY <1>3, BeginFollowing, ContinueFollowing, AbandonFollowing, OtherFollowing DEF Next
  <1> QED
    BY <1>2, <1>3

\* However createProduct, update and remove overlap and die, a product at rest
\* has the document of its row, and a removed product none, unless it is behind:
\* last sent by a request that another had overtaken since it read the row, or
\* written by one that was refused or died; provided that the calls of
\* ProductsService to Elasticsearch arrive in order.
THEOREM IndexKeptUp == Spec => []IndexFollowsTable
  <1>1. Init => Following
    <2> SUFFICES ASSUME Init PROVE Following
      OBVIOUS
    <2>1. DOMAIN calls = {}
      BY EmptySeq, LenProperties DEF Init
    <2>2. \A p \in Product : product[p].status = "none" /\ index[p] = 0
      BY DEF Init
    <2>3. \A w \in Worker : Current(w)
      BY DEF Init, Current
    <2>4. Synced
      BY DEF Init, Synced
    <2> QED
      BY <2>1, <2>2, <2>3, <2>4 DEF Following, Follows, Final, Live
  <1>2. Shape /\ Following /\ [Next]_vars => Following'
    BY NextFollowing
  <1>3. Following => IndexFollowsTable
    <2> SUFFICES ASSUME Following, trouble \subseteq {"overlap", "dies"}, NEW p \in Product, ~Busy(p),
                        \A i \in DOMAIN calls : calls[i].product # p, p \notin behind
                 PROVE  Indexed(p)
      BY DEF IndexFollowsTable
    <2>1. Follows(p)
      BY DEF Following
    <2>2. \A w \in Worker : ~Telling(w, p) /\ ~Removing(w, p)
      BY DEF Busy, Idle, Telling, Removing, On
    <2> QED
      BY <2>1, <2>2 DEF Follows, Final, Indexed
  <1> QED
    BY <1>1, <1>2, <1>3, ShapeAlways, PTL DEF Spec
=============================================================================
