----------------------------- MODULE Export_proofs -----------------------------
(***************************************************************************)
(* Proofs about Export and EventParser, for any event files, tables of     *)
(* words and numbers: a run that is refused leaves the CSV file alone, a   *)
(* detail that was lost changes no type, a saveback adds up to nothing,    *)
(* and a run that succeeds has written exactly the rows it should.         *)
(***************************************************************************)
EXTENDS Export, IntervalFacts, TLAPS

\* A run that is under way has created no file before "write", and has not ended.
Underway ==
    /\ pc # "idle" => result = "none"
    /\ pc = "create" => csv = before
    /\ RefusalKeepsCsv

\* No event file has changed since they were all parsed.
AllParsed == pc # "idle" \/ result = "ok" => \A d \in Readable : ~FailsIn(d)

---------------------------------------------------------------------------
(* A refused export                                                        *)

LEMMA NextUnderway ==
  ASSUME Underway, [Next]_vars
  PROVE  Underway'
<1> USE DEF Underway, RefusalKeepsCsv
<1>1. CASE Refuse
  BY <1>1 DEF Refuse, Rest
<1>2. CASE Load
  BY <1>2 DEF Load
<1>3. CASE Create
  BY <1>3 DEF Create
<1>4. CASE CreateFails
  BY <1>4 DEF CreateFails
<1>5. CASE WriteRows
  BY <1>5 DEF WriteRows
<1>6. CASE Finish
  BY <1>6 DEF Finish
<1>7. CASE Cut
  BY <1>7 DEF Cut, Rest
<1>8. CASE Disk \/ \E d \in Dir : Fetch(d)
  BY <1>8 DEF Disk, Fetch, Rest
<1>9. CASE UNCHANGED vars
  BY <1>9 DEF vars
<1>10. QED
  BY <1>1, <1>2, <1>3, <1>4, <1>5, <1>6, <1>7, <1>8, <1>9 DEF Next

\* runExport: everything that may fail comes before os.Create, or is os.Create.
THEOREM RefusedExportKeepsCsv == Spec => []RefusalKeepsCsv
<1>1. Init => Underway
  BY DEF Init, Underway, RefusalKeepsCsv
<1>2. Underway /\ [Next]_vars => Underway'
  BY NextUnderway
<1>3. Underway => RefusalKeepsCsv
  BY DEF Underway
<1>4. QED
  BY <1>1, <1>2, <1>3, PTL DEF Spec

---------------------------------------------------------------------------
(* A lost detail                                                           *)

\* Without sections the details name no type.
LEMMA NoSectionsNoType == InferFromDetailSections(<<>>) = ""
  BY DEF InferFromDetailSections, FirstOf

\* A type inferred without the details is the one inferred with them.
LEMMA TimelineComesFirst ==
  ASSUME NEW te, NEW sections, InferEventType(te, <<>>) # ""
  PROVE  InferEventType(te, sections) = InferEventType(te, <<>>)
  BY NoSectionsNoType DEF InferEventType

LEMMA ParsedKeepsType ==
  ASSUME AllParsed
  PROVE  LostDetailKeepsType
<1> SUFFICES ASSUME result = "ok", NEW d \in Listed, file[d].lost
             PROVE  InferEventType(file[d].event, file[d].event.sections)
                        = InferEventType(file[d].event, <<>>)
  BY DEF LostDetailKeepsType
<1>1. SectionsOf(file[d]) = <<>>
  BY DEF SectionsOf
<1>2. d \in Readable /\ ~SkippedIn(d) /\ ~FailsIn(d)
  BY DEF Listed
<1>4. InferEventType(file[d].event, <<>>) # ""
  BY <1>1, <1>2 DEF FailsIn, Fails, SkippedIn
<1>5. QED
  BY <1>4, TimelineComesFirst

LEMMA NextParsed ==
  ASSUME AllParsed, Underway, [Next]_vars
  PROVE  AllParsed'
<1> DEFINE Parsed == \A d \in Readable : ~FailsIn(d)
<1>1. CASE UNCHANGED <<file, unread>>
  <2>1. Parsed' <=> Parsed
    BY <1>1 DEF Readable, FailsIn
  <2>2. CASE pc # "idle" \/ result = "ok"
    BY <2>1, <2>2 DEF AllParsed
  <2>3. CASE Load
    BY <2>1, <2>3 DEF Load, AllParsed
  <2>4. CASE Refuse
    BY <2>4 DEF Refuse, Rest, AllParsed
  <2>5. CASE pc = "idle" /\ result # "ok" /\ UNCHANGED vars
    BY <2>5 DEF vars, AllParsed
  <2>6. CASE Disk \/ \E d \in Dir : Fetch(d)
    BY <2>6 DEF Disk, Fetch, Rest, AllParsed
  <2>7. QED
    BY <2>2, <2>3, <2>4, <2>5, <2>6 DEF Next, Create, CreateFails, WriteRows, Finish, Cut
<1>2. CASE Disk \/ \E d \in Dir : Fetch(d)
  BY <1>2 DEF Disk, Fetch, Rest, AllParsed
<1>3. QED
  BY <1>1, <1>2 DEF Next, vars, Refuse, Load, Create, CreateFails, WriteRows, Finish, Cut

\* inferEventType: an event whose details a fetch lost is exported with the type
\* it has with them, or fails the export.
THEOREM LostDetailIsHarmless == Spec => []LostDetailKeepsType
<1>1. Init => Underway /\ AllParsed
  BY DEF Init, Underway, AllParsed, RefusalKeepsCsv
<1>2. Underway /\ AllParsed /\ [Next]_vars => (Underway /\ AllParsed)'
  BY NextUnderway, NextParsed
<1>3. Underway /\ AllParsed => LostDetailKeepsType
  BY ParsedKeepsType
<1>4. QED
  BY <1>1, <1>2, <1>3, PTL DEF Spec

---------------------------------------------------------------------------
(* A saveback                                                              *)

Amounts == {<<>>} \cup {<<n>> : n \in Int}

\* FormatFloat rounds what is below zero like what is above.
LEMMA RoundingIsSymmetric ==
  ASSUME NEW amount \in Amounts
  PROVE  FormatFloat(NegateFloat(amount)) = NegateFloat(FormatFloat(amount))
<1>1. CASE amount = <<>>
  BY <1>1 DEF NegateFloat, FormatFloat
<1>2. CASE amount # <<>>
  <2>1. PICK n \in Int : amount = <<n>>
    BY <1>2 DEF Amounts
  <2>2. NegateFloat(amount) = <<-n>> /\ -n \in Int
    BY <2>1 DEF NegateFloat
  <2>3. FormatFloat(amount) = IF n >= 0 THEN <<Cents(n)>> ELSE <<-Cents(-n)>>
    BY <2>1 DEF FormatFloat
  <2>4. FormatFloat(<<-n>>) = IF -n >= 0 THEN <<Cents(-n)>> ELSE <<-Cents(-(-n))>>
    BY <2>2 DEF FormatFloat
  <2>5. \A m \in Int : Cents(m) \in Int
    BY DEF Cents
  <2>6. Cents(0) = 0
    BY DEF Cents
  <2>7. CASE n > 0
    <3>1. -(-n) = n /\ ~(-n >= 0)
      BY <2>7
    <3>2. QED
      BY <2>2, <2>3, <2>4, <2>7, <3>1 DEF NegateFloat
  <2>8. CASE n = 0
    BY <2>2, <2>3, <2>4, <2>6, <2>8 DEF NegateFloat
  <2>9. CASE n < 0
    <3>1. -(-Cents(-n)) = Cents(-n) /\ -n >= 0
      BY <2>2, <2>5, <2>9
    <3>2. QED
      BY <2>2, <2>3, <2>4, <2>9, <3>1 DEF NegateFloat
  <2>10. QED
    BY <2>7, <2>8, <2>9
<1>3. QED
  BY <1>1, <1>2

\* eventToRows: whatever its amount, the two rows of a saveback, the deposit of the
\* bonus and the purchase it pays for, have opposite values after rounding.
THEOREM SavebackCancels ==
  ASSUME NEW event, event.type = "SAVEBACK", event.value \in Amounts
  PROVE  /\ Len(EventToRows(event)) = 2
         /\ EventToRows(event)[2].value = NegateFloat(EventToRows(event)[1].value)
<1>1. EventToRows(event) = <<Row(event, "BUY", event.value), DepositRow(event)>>
  BY DEF EventToRows
<1>2. Row(event, "BUY", event.value).value = FormatFloat(event.value)
  BY DEF Row
<1>3. DepositRow(event).value = FormatFloat(NegateFloat(event.value))
  BY DEF DepositRow, Row
<1>4. QED
  BY <1>1, <1>2, <1>3, RoundingIsSymmetric

---------------------------------------------------------------------------
(* Folds over the items of a detail, and over rows                         *)

\* FoldLeft of each operator, as an operator of its arguments.
TradeFold(base, items) == FoldLeft(ApplyTradeDetail, base, items)
TaxFold(base, items) == FoldLeft(ApplyTax, base, items)
TransferFold(base, items) == FoldLeft(ApplyTransferDetail, base, items)

\* Going through the items of a trade one by one ends where the fold does: the CHOOSE
\* FoldLeft is defined by has a value, since no step leaves A.
LEMMA TradeDetailsFold ==
    ASSUME NEW n \in Nat, NEW items, DOMAIN items = 1 .. n, NEW A,
           \A a \in A : \A k \in 1 .. n : ApplyTradeDetail(a, items[k]) \in A,
           NEW p \in [0 .. n -> A],
           \A k \in 1 .. n : p[k] = ApplyTradeDetail(p[k - 1], items[k])
    PROVE  TradeFold(p[0], items) = p[n]
  <1> DEFINE base == p[0]
             step == [x \in (1 .. n) \X A |-> ApplyTradeDetail(x[2], items[x[1]])]
             Solves(g) == g = [U \in SUBSET (DOMAIN items) |->
                                  IF U = {} THEN base
                                  ELSE ApplyTradeDetail(g[U \ {Max(U)}], items[Max(U)])]
             g == CHOOSE f : Solves(f)
  <1>1. TradeFold(base, items) = g[1 .. n]
    BY DEF TradeFold, FoldLeft, MapThenFoldSet
  <1>2. Walk(n, A, base, step)
    BY DEF Walk
  <1>3. \A k \in 1 .. n : \A a \in A : step[<<k, a>>] = ApplyTradeDetail(a, items[k])
    OBVIOUS
  <1> HIDE DEF step, base
  <1>4. \E f : Solves(f)
    <2>1. PICK f : Folds(f, n, A, base, step)
      BY <1>2, FoldExists
    <2>2. ASSUME NEW U \in SUBSET (1 .. n), U # {}
          PROVE  f[U] = ApplyTradeDetail(f[U \ {Max(U)}], items[Max(U)])
      <3>1. Max(U) \in 1 .. n /\ f[U \ {Max(U)}] \in A
        BY <2>1, <2>2 DEF Folds
      <3> QED BY <1>3, <2>1, <2>2, <3>1 DEF Folds
    <2>3. Solves(f)
      BY <2>1, <2>2 DEF Folds
    <2> QED BY <2>3
  <1>5. Solves(g)
    <2> HIDE DEF Solves
    <2> QED BY <1>4
  <1>6. Steps(p, n, A, base, step)
    BY <1>3 DEF Steps, base
  <1> HIDE DEF g
  <1>7. TakesLast(g, n, A, base, step)
    <2>1. ASSUME NEW U \in SUBSET (1 .. n)
          PROVE  g[U] = IF U = {} THEN base ELSE ApplyTradeDetail(g[U \ {Max(U)}], items[Max(U)])
      BY <1>5
    <2>2. ASSUME NEW U \in SUBSET (1 .. n), U # {}, Max(U) \in 1 .. n, g[U \ {Max(U)}] \in A
          PROVE  g[U] = step[<<Max(U), g[U \ {Max(U)}]>>]
      BY <1>3, <2>1, <2>2
    <2> QED BY <2>1, <2>2 DEF TakesLast
  <1>8. g[1 .. n] = p[n]
    BY <1>2, <1>6, <1>7, FoldEnds
  <1> QED BY <1>1, <1>8 DEF base

\* The same of the taxes of an interest payment,
LEMMA TaxDetailsFold ==
    ASSUME NEW n \in Nat, NEW items, DOMAIN items = 1 .. n, NEW A,
           \A a \in A : \A k \in 1 .. n : ApplyTax(a, items[k]) \in A,
           NEW p \in [0 .. n -> A],
           \A k \in 1 .. n : p[k] = ApplyTax(p[k - 1], items[k])
    PROVE  TaxFold(p[0], items) = p[n]
  <1> DEFINE base == p[0]
             step == [x \in (1 .. n) \X A |-> ApplyTax(x[2], items[x[1]])]
             Solves(g) == g = [U \in SUBSET (DOMAIN items) |->
                                  IF U = {} THEN base
                                  ELSE ApplyTax(g[U \ {Max(U)}], items[Max(U)])]
             g == CHOOSE f : Solves(f)
  <1>1. TaxFold(base, items) = g[1 .. n]
    BY DEF TaxFold, FoldLeft, MapThenFoldSet
  <1>2. Walk(n, A, base, step)
    BY DEF Walk
  <1>3. \A k \in 1 .. n : \A a \in A : step[<<k, a>>] = ApplyTax(a, items[k])
    OBVIOUS
  <1> HIDE DEF step, base
  <1>4. \E f : Solves(f)
    <2>1. PICK f : Folds(f, n, A, base, step)
      BY <1>2, FoldExists
    <2>2. ASSUME NEW U \in SUBSET (1 .. n), U # {}
          PROVE  f[U] = ApplyTax(f[U \ {Max(U)}], items[Max(U)])
      <3>1. Max(U) \in 1 .. n /\ f[U \ {Max(U)}] \in A
        BY <2>1, <2>2 DEF Folds
      <3> QED BY <1>3, <2>1, <2>2, <3>1 DEF Folds
    <2>3. Solves(f)
      BY <2>1, <2>2 DEF Folds
    <2> QED BY <2>3
  <1>5. Solves(g)
    <2> HIDE DEF Solves
    <2> QED BY <1>4
  <1>6. Steps(p, n, A, base, step)
    BY <1>3 DEF Steps, base
  <1> HIDE DEF g
  <1>7. TakesLast(g, n, A, base, step)
    <2>1. ASSUME NEW U \in SUBSET (1 .. n)
          PROVE  g[U] = IF U = {} THEN base ELSE ApplyTax(g[U \ {Max(U)}], items[Max(U)])
      BY <1>5
    <2>2. ASSUME NEW U \in SUBSET (1 .. n), U # {}, Max(U) \in 1 .. n, g[U \ {Max(U)}] \in A
          PROVE  g[U] = step[<<Max(U), g[U \ {Max(U)}]>>]
      BY <1>3, <2>1, <2>2
    <2> QED BY <2>1, <2>2 DEF TakesLast
  <1>8. g[1 .. n] = p[n]
    BY <1>2, <1>6, <1>7, FoldEnds
  <1> QED BY <1>1, <1>8 DEF base

\* of the items of a transfer,
LEMMA TransferDetailsFold ==
    ASSUME NEW n \in Nat, NEW items, DOMAIN items = 1 .. n, NEW A,
           \A a \in A : \A k \in 1 .. n : ApplyTransferDetail(a, items[k]) \in A,
           NEW p \in [0 .. n -> A],
           \A k \in 1 .. n : p[k] = ApplyTransferDetail(p[k - 1], items[k])
    PROVE  TransferFold(p[0], items) = p[n]
  <1> DEFINE base == p[0]
             step == [x \in (1 .. n) \X A |-> ApplyTransferDetail(x[2], items[x[1]])]
             Solves(g) == g = [U \in SUBSET (DOMAIN items) |->
                                  IF U = {} THEN base
                                  ELSE ApplyTransferDetail(g[U \ {Max(U)}], items[Max(U)])]
             g == CHOOSE f : Solves(f)
  <1>1. TransferFold(base, items) = g[1 .. n]
    BY DEF TransferFold, FoldLeft, MapThenFoldSet
  <1>2. Walk(n, A, base, step)
    BY DEF Walk
  <1>3. \A k \in 1 .. n : \A a \in A : step[<<k, a>>] = ApplyTransferDetail(a, items[k])
    OBVIOUS
  <1> HIDE DEF step, base
  <1>4. \E f : Solves(f)
    <2>1. PICK f : Folds(f, n, A, base, step)
      BY <1>2, FoldExists
    <2>2. ASSUME NEW U \in SUBSET (1 .. n), U # {}
          PROVE  f[U] = ApplyTransferDetail(f[U \ {Max(U)}], items[Max(U)])
      <3>1. Max(U) \in 1 .. n /\ f[U \ {Max(U)}] \in A
        BY <2>1, <2>2 DEF Folds
      <3> QED BY <1>3, <2>1, <2>2, <3>1 DEF Folds
    <2>3. Solves(f)
      BY <2>1, <2>2 DEF Folds
    <2> QED BY <2>3
  <1>5. Solves(g)
    <2> HIDE DEF Solves
    <2> QED BY <1>4
  <1>6. Steps(p, n, A, base, step)
    BY <1>3 DEF Steps, base
  <1> HIDE DEF g
  <1>7. TakesLast(g, n, A, base, step)
    <2>1. ASSUME NEW U \in SUBSET (1 .. n)
          PROVE  g[U] = IF U = {} THEN base ELSE ApplyTransferDetail(g[U \ {Max(U)}], items[Max(U)])
      BY <1>5
    <2>2. ASSUME NEW U \in SUBSET (1 .. n), U # {}, Max(U) \in 1 .. n, g[U \ {Max(U)}] \in A
          PROVE  g[U] = step[<<Max(U), g[U \ {Max(U)}]>>]
      BY <1>3, <2>1, <2>2
    <2> QED BY <2>1, <2>2 DEF TakesLast
  <1>8. g[1 .. n] = p[n]
    BY <1>2, <1>6, <1>7, FoldEnds
  <1> QED BY <1>1, <1>8 DEF base

AddRow(sum, row) == sum + Number(row.value)

SumFrom(base, rows) == FoldLeft(LAMBDA sum, row : sum + Number(row.value), base, rows)

\* and of the values of rows.
LEMMA RowsFold ==
    ASSUME NEW n \in Nat, NEW items, DOMAIN items = 1 .. n, NEW A,
           \A a \in A : \A k \in 1 .. n : AddRow(a, items[k]) \in A,
           NEW p \in [0 .. n -> A],
           \A k \in 1 .. n : p[k] = AddRow(p[k - 1], items[k])
    PROVE  SumFrom(p[0], items) = p[n]
  <1> DEFINE base == p[0]
             step == [x \in (1 .. n) \X A |-> AddRow(x[2], items[x[1]])]
             Solves(g) == g = [U \in SUBSET (DOMAIN items) |->
                                  IF U = {} THEN base
                                  ELSE AddRow(g[U \ {Max(U)}], items[Max(U)])]
             g == CHOOSE f : Solves(f)
  <1>1. SumFrom(base, items) = g[1 .. n]
    BY DEF SumFrom, FoldLeft, MapThenFoldSet, AddRow
  <1>2. Walk(n, A, base, step)
    BY DEF Walk
  <1>3. \A k \in 1 .. n : \A a \in A : step[<<k, a>>] = AddRow(a, items[k])
    OBVIOUS
  <1> HIDE DEF step, base
  <1>4. \E f : Solves(f)
    <2>1. PICK f : Folds(f, n, A, base, step)
      BY <1>2, FoldExists
    <2>2. ASSUME NEW U \in SUBSET (1 .. n), U # {}
          PROVE  f[U] = AddRow(f[U \ {Max(U)}], items[Max(U)])
      <3>1. Max(U) \in 1 .. n /\ f[U \ {Max(U)}] \in A
        BY <2>1, <2>2 DEF Folds
      <3> QED BY <1>3, <2>1, <2>2, <3>1 DEF Folds
    <2>3. Solves(f)
      BY <2>1, <2>2 DEF Folds
    <2> QED BY <2>3
  <1>5. Solves(g)
    <2> HIDE DEF Solves
    <2> QED BY <1>4
  <1>6. Steps(p, n, A, base, step)
    BY <1>3 DEF Steps, base
  <1> HIDE DEF g
  <1>7. TakesLast(g, n, A, base, step)
    <2>1. ASSUME NEW U \in SUBSET (1 .. n)
          PROVE  g[U] = IF U = {} THEN base ELSE AddRow(g[U \ {Max(U)}], items[Max(U)])
      BY <1>5
    <2>2. ASSUME NEW U \in SUBSET (1 .. n), U # {}, Max(U) \in 1 .. n, g[U \ {Max(U)}] \in A
          PROVE  g[U] = step[<<Max(U), g[U \ {Max(U)}]>>]
      BY <1>3, <2>1, <2>2
    <2> QED BY <2>1, <2>2 DEF TakesLast
  <1>8. g[1 .. n] = p[n]
    BY <1>2, <1>6, <1>7, FoldEnds
  <1> QED BY <1>1, <1>8 DEF base

---------------------------------------------------------------------------
(* What the details of a trade say                                         *)

\* A parsed event with these numbers.
Filled(e, shares, fees, taxes) ==
    [date |-> e.date, title |-> e.title, subtitle |-> e.subtitle, type |-> e.type,
     value |-> e.value, isin |-> e.isin, shares |-> shares, fees |-> fees, taxes |-> taxes,
     note |-> e.note, sender |-> e.sender, recipient |-> e.recipient, iban |-> e.iban]

LEMMA AmountsAreLists == Amounts \subseteq Seq(Int)
<1>1. ASSUME NEW amount \in Amounts PROVE amount \in Seq(Int)
  <2>1. CASE amount = <<>>
    BY <2>1
  <2>2. ASSUME NEW m \in Int, amount = <<m>> PROVE amount \in Seq(Int)
    BY <2>2
  <2> QED BY <2>1, <2>2 DEF Amounts
<1>2. QED
  BY <1>1

LEMMA NumbersAreAmounts ==
  /\ \A text : parseFloatFromText(text) \in Amounts
  /\ \A item : /\ NumberIn(item, {"shares"}) \in Amounts
               /\ NumberIn(item, {"tax", "taxes"}) \in Amounts
               /\ PrefixNumber(item) \in Amounts
               /\ FeeNumber(item) \in Amounts
<1>1. \A text : parseFloatFromText(text) \in Amounts
  BY ParserAssumption DEF parseFloatFromText, Amounts
<1>2. <<>> \in Amounts /\ <<0>> \in Amounts
  BY DEF Amounts
<1>3. QED
  BY <1>1, <1>2 DEF NumberIn, PrefixNumber, FeeNumber

\* What one item changes.
LEMMA TaxStep ==
  ASSUME NEW e, NEW s, NEW f, NEW t, NEW item
  PROVE  ApplyTax(Filled(e, s, f, t), item) = Filled(e, s, f, Else(NumberIn(item, {"tax", "taxes"}), t))
  BY DEF ApplyTax, Filled, NumberIn, Else

LEMMA TradeStep ==
  ASSUME NEW e, NEW s, NEW f, NEW t, NEW item
  PROVE  ApplyTradeDetail(Filled(e, s, f, t), item)
             = Filled(e, Else(NumberIn(item, {"shares"}), IF s = <<>> THEN PrefixNumber(item) ELSE s),
                         Else(FeeNumber(item), f), Else(NumberIn(item, {"tax", "taxes"}), t))
<1> DEFINE title == ToLower(item.title)
<1> USE DEF Else
<1> HIDE DEF title
<1>1. CASE title = "shares"
  BY <1>1 DEF ApplyTradeDetail, Filled, NumberIn, PrefixNumber, FeeNumber, title
<1>2. CASE title = "transaction"
  BY <1>2 DEF ApplyTradeDetail, Filled, NumberIn, PrefixNumber, FeeNumber, SharesFrom, title
<1>3. CASE title = "fee"
  BY <1>3 DEF ApplyTradeDetail, Filled, NumberIn, PrefixNumber, FeeNumber, title
<1>4. CASE title \notin {"shares", "transaction", "fee"}
  <2>1. ApplyTradeDetail(Filled(e, s, f, t), item) = Filled(e, s, f, Else(NumberIn(item, {"tax", "taxes"}), t))
    BY <1>4, TaxStep DEF ApplyTradeDetail, title
  <2>2. NumberIn(item, {"shares"}) = <<>> /\ PrefixNumber(item) = <<>> /\ FeeNumber(item) = <<>>
    BY <1>4 DEF NumberIn, PrefixNumber, FeeNumber, title
  <2> QED BY <2>1, <2>2
<1>5. QED
  BY <1>1, <1>2, <1>3, <1>4

\* One more item, with a number or none: the last number and the first.
LEMMA NextNumber ==
  ASSUME NEW s \in Seq(Int), NEW w \in Amounts
  PROVE  /\ LastOf(s) \in Amounts /\ FirstAny(s) \in Amounts
         /\ LastOf(s \o w) = Else(w, LastOf(s)) /\ FirstAny(s \o w) = Else(FirstAny(s), w)
<1>1. CASE w = <<>>
  BY <1>1 DEF LastOf, FirstAny, Last, Else, Amounts
<1>2. CASE w # <<>>
  <2>1. PICK v \in Int : w = <<v>>
    BY <1>2 DEF Amounts
  <2>2. s \o w # <<>> /\ Last(s \o w) = v
    BY <2>1 DEF Last
  <2>3. s # <<>> => Head(s \o w) = Head(s)
    BY <2>1
  <2>4. s = <<>> => s \o w = w /\ Head(w) = v
    BY <2>1
  <2>5. LastOf(s) \in Amounts /\ FirstAny(s) \in Amounts
    BY DEF LastOf, FirstAny, Last, Amounts
  <2> QED BY <2>1, <2>2, <2>3, <2>4, <2>5 DEF LastOf, FirstAny, Else
<1>3. QED
  BY <1>1, <1>2 DEF Amounts

\* applyTradeDetail: a number of shares comes before one in a prefix, and of several
\* numbers, fees or taxes the last counts.
LEMMA TradeParsed ==
  ASSUME NEW X, NEW items \in Seq(X), NEW e
  PROVE  TradeFold(Filled(e, <<>>, <<>>, <<>>), items)
             = Filled(e, Else(LastOf(Numbers(items, {"shares"})), FirstAny(PrefixNumbers(items))),
                         LastOf(FeeNumbers(items)), LastOf(Numbers(items, {"tax", "taxes"})))
<1> DEFINE n == Len(items)
           WS == [i \in DOMAIN items |-> NumberIn(items[i], {"shares"})]
           WP == [i \in DOMAIN items |-> PrefixNumber(items[i])]
           WF == [i \in DOMAIN items |-> FeeNumber(items[i])]
           WT == [i \in DOMAIN items |-> NumberIn(items[i], {"tax", "taxes"})]
<1>1. n \in Nat /\ DOMAIN items = 1 .. n
  OBVIOUS
<1>2. /\ WS \in [1 .. n -> Amounts] /\ WP \in [1 .. n -> Amounts]
      /\ WF \in [1 .. n -> Amounts] /\ WT \in [1 .. n -> Amounts]
  BY <1>1, NumbersAreAmounts
<1> HIDE DEF WS, WP, WF, WT, n
<1>3. Lists(WS, n, Int) /\ Lists(WP, n, Int) /\ Lists(WF, n, Int) /\ Lists(WT, n, Int)
  BY <1>2, AmountsAreLists DEF Lists
<1>4. PICK s, p, f, t : /\ Joins(s, WS, n, Int) /\ Joins(p, WP, n, Int)
                        /\ Joins(f, WF, n, Int) /\ Joins(t, WT, n, Int)
  BY <1>1, <1>3, FlattenJoins
<1>5. \A k \in 0 .. n : s[k] \in Seq(Int) /\ p[k] \in Seq(Int) /\ f[k] \in Seq(Int) /\ t[k] \in Seq(Int)
  BY <1>4 DEF Joins
<1>6. s[0] = <<>> /\ p[0] = <<>> /\ f[0] = <<>> /\ t[0] = <<>>
  BY <1>4 DEF Joins
<1> DEFINE At(k) == Filled(e, Else(LastOf(s[k]), FirstAny(p[k])), LastOf(f[k]), LastOf(t[k]))
           parsed == [k \in 0 .. n |-> At(k)]
           A == {Filled(e, a, b, c) : a, b, c \in Amounts}
<1>7. \A k \in 0 .. n : At(k) \in A
  <2> SUFFICES ASSUME NEW k \in 0 .. n PROVE At(k) \in A
    OBVIOUS
  <2>1. s[k] \in Seq(Int) /\ p[k] \in Seq(Int) /\ f[k] \in Seq(Int) /\ t[k] \in Seq(Int)
    BY <1>5
  <2>2. <<>> \in Amounts
    BY DEF Amounts
  <2>3. LastOf(s[k]) \in Amounts /\ FirstAny(p[k]) \in Amounts /\ LastOf(f[k]) \in Amounts
        /\ LastOf(t[k]) \in Amounts
    BY <2>1, <2>2, NextNumber
  <2>4. Else(LastOf(s[k]), FirstAny(p[k])) \in Amounts
    BY <2>3 DEF Else
  <2> QED BY <2>3, <2>4
<1>8. \A a \in A : \A k \in 1 .. n : ApplyTradeDetail(a, items[k]) \in A
  <2> SUFFICES ASSUME NEW event \in A, NEW k \in 1 .. n PROVE ApplyTradeDetail(event, items[k]) \in A
    OBVIOUS
  <2>0. PICK a \in Amounts, b \in Amounts, c \in Amounts : event = Filled(e, a, b, c)
    OBVIOUS
  <2> DEFINE item == items[k]
             a2 == Else(NumberIn(item, {"shares"}), IF a = <<>> THEN PrefixNumber(item) ELSE a)
             b2 == Else(FeeNumber(item), b)
             c2 == Else(NumberIn(item, {"tax", "taxes"}), c)
  <2>1. a2 \in Amounts /\ b2 \in Amounts /\ c2 \in Amounts
    BY NumbersAreAmounts DEF Else
  <2>2. ApplyTradeDetail(Filled(e, a, b, c), item) = Filled(e, a2, b2, c2)
    BY TradeStep
  <2> HIDE DEF a2, b2, c2
  <2> QED BY <2>0, <2>1, <2>2
<1>9. \A k \in 1 .. n : At(k) = ApplyTradeDetail(At(k - 1), items[k])
  <2> SUFFICES ASSUME NEW k \in 1 .. n PROVE At(k) = ApplyTradeDetail(At(k - 1), items[k])
    OBVIOUS
  <2> DEFINE j == k - 1
  <2>1. /\ s[j] \in Seq(Int) /\ p[j] \in Seq(Int) /\ f[j] \in Seq(Int) /\ t[j] \in Seq(Int)
        /\ s[k] = s[j] \o WS[k] /\ p[k] = p[j] \o WP[k] /\ f[k] = f[j] \o WF[k] /\ t[k] = t[j] \o WT[k]
    <3>1. j \in 0 .. n /\ k \in 1 .. n
      BY <1>1
    <3> QED BY <1>4, <1>5, <3>1 DEF Joins
  <2> DEFINE item == items[k]
  <2>2. /\ WS[k] = NumberIn(item, {"shares"}) /\ WP[k] = PrefixNumber(item)
        /\ WF[k] = FeeNumber(item) /\ WT[k] = NumberIn(item, {"tax", "taxes"})
    BY <1>1 DEF WS, WP, WF, WT
  <2>3. /\ WS[k] \in Amounts /\ WP[k] \in Amounts /\ WF[k] \in Amounts /\ WT[k] \in Amounts
    BY <1>2
  <2> HIDE DEF j, item
  <2>4. /\ LastOf(s[k]) = Else(WS[k], LastOf(s[j])) /\ FirstAny(p[k]) = Else(FirstAny(p[j]), WP[k])
        /\ LastOf(f[k]) = Else(WF[k], LastOf(f[j])) /\ LastOf(t[k]) = Else(WT[k], LastOf(t[j]))
    BY <2>1, <2>3, NextNumber
  <2>5. ApplyTradeDetail(At(j), item)
            = Filled(e, Else(WS[k], IF Else(LastOf(s[j]), FirstAny(p[j])) = <<>> THEN WP[k]
                                    ELSE Else(LastOf(s[j]), FirstAny(p[j]))),
                        Else(WF[k], LastOf(f[j])), Else(WT[k], LastOf(t[j])))
    BY <2>2, TradeStep
  <2>6. Else(WS[k], IF Else(LastOf(s[j]), FirstAny(p[j])) = <<>> THEN WP[k]
                    ELSE Else(LastOf(s[j]), FirstAny(p[j])))
            = Else(LastOf(s[k]), FirstAny(p[k]))
    BY <2>4 DEF Else
  <2> QED BY <2>4, <2>5, <2>6 DEF j, item
<1>10. parsed \in [0 .. n -> A] /\ \A k \in 1 .. n : parsed[k] = ApplyTradeDetail(parsed[k - 1], items[k])
  <2>1. \A k \in 1 .. n : k \in 0 .. n /\ k - 1 \in 0 .. n
    BY <1>1
  <2> HIDE DEF At, A
  <2> QED BY <1>7, <1>9, <2>1
<1>11. TradeFold(parsed[0], items) = parsed[n]
  <2> HIDE DEF parsed, A
  <2> QED BY <1>1, <1>8, <1>10, TradeDetailsFold
<1>12. parsed[0] = At(0) /\ parsed[n] = At(n)
  BY <1>1
<1>13. At(0) = Filled(e, <<>>, <<>>, <<>>)
  BY <1>6 DEF LastOf, FirstAny, Else
<1> HIDE DEF parsed, At
<1>14. At(n) = Filled(e, Else(LastOf(Numbers(items, {"shares"})), FirstAny(PrefixNumbers(items))),
                         LastOf(FeeNumbers(items)), LastOf(Numbers(items, {"tax", "taxes"})))
  BY <1>4 DEF Joins, At, WS, WP, WF, WT, Numbers, PrefixNumbers, FeeNumbers
<1>15. QED
  BY <1>11, <1>12, <1>13, <1>14

\* Of several taxes the last counts.
LEMMA TaxParsed ==
  ASSUME NEW X, NEW items \in Seq(X), NEW e
  PROVE  TaxFold(Filled(e, <<>>, <<>>, <<>>), items)
             = Filled(e, <<>>, <<>>, LastOf(Numbers(items, {"tax", "taxes"})))
<1> DEFINE n == Len(items)
           W == [i \in DOMAIN items |-> NumberIn(items[i], {"tax", "taxes"})]
<1>1. n \in Nat /\ DOMAIN items = 1 .. n
  OBVIOUS
<1>2. W \in [1 .. n -> Amounts]
  BY <1>1, NumbersAreAmounts
<1> HIDE DEF W, n
<1>3. PICK t : Joins(t, W, n, Int)
  <2>1. Lists(W, n, Int)
    BY <1>2, AmountsAreLists DEF Lists
  <2> QED BY <1>1, <2>1, FlattenJoins
<1> DEFINE At(k) == Filled(e, <<>>, <<>>, LastOf(t[k]))
           parsed == [k \in 0 .. n |-> At(k)]
           A == {Filled(e, <<>>, <<>>, c) : c \in Amounts}
<1>4. \A k \in 0 .. n : At(k) \in A
  <2> SUFFICES ASSUME NEW k \in 0 .. n PROVE At(k) \in A
    OBVIOUS
  <2>1. t[k] \in Seq(Int) /\ <<>> \in Amounts
    BY <1>3 DEF Joins, Amounts
  <2>2. LastOf(t[k]) \in Amounts
    BY <2>1, NextNumber
  <2> QED BY <2>2
<1>5. \A a \in A : \A k \in 1 .. n : ApplyTax(a, items[k]) \in A
  <2> SUFFICES ASSUME NEW event \in A, NEW k \in 1 .. n PROVE ApplyTax(event, items[k]) \in A
    OBVIOUS
  <2>1. PICK c \in Amounts : event = Filled(e, <<>>, <<>>, c)
    OBVIOUS
  <2> DEFINE c2 == Else(NumberIn(items[k], {"tax", "taxes"}), c)
  <2>2. c2 \in Amounts
    BY NumbersAreAmounts DEF Else
  <2>3. ApplyTax(event, items[k]) = Filled(e, <<>>, <<>>, c2)
    BY <2>1, TaxStep
  <2> HIDE DEF c2
  <2> QED BY <2>2, <2>3
<1>6. \A k \in 1 .. n : At(k) = ApplyTax(At(k - 1), items[k])
  <2> SUFFICES ASSUME NEW k \in 1 .. n PROVE At(k) = ApplyTax(At(k - 1), items[k])
    OBVIOUS
  <2>1. k - 1 \in 0 .. n
    BY <1>1
  <2>2. t[k - 1] \in Seq(Int) /\ t[k] = t[k - 1] \o W[k]
    BY <1>3, <2>1 DEF Joins
  <2>3. W[k] = NumberIn(items[k], {"tax", "taxes"}) /\ W[k] \in Amounts
    BY <1>1, <1>2 DEF W
  <2>4. LastOf(t[k]) = Else(W[k], LastOf(t[k - 1]))
    BY <2>2, <2>3, NextNumber
  <2>5. ApplyTax(At(k - 1), items[k]) = Filled(e, <<>>, <<>>, Else(W[k], LastOf(t[k - 1])))
    BY <2>3, TaxStep
  <2> QED BY <2>4, <2>5
<1>7. parsed \in [0 .. n -> A] /\ \A k \in 1 .. n : parsed[k] = ApplyTax(parsed[k - 1], items[k])
  <2>1. \A k \in 1 .. n : k \in 0 .. n /\ k - 1 \in 0 .. n
    BY <1>1
  <2> HIDE DEF At, A
  <2> QED BY <1>4, <1>6, <2>1
<1>8. TaxFold(parsed[0], items) = parsed[n]
  <2> HIDE DEF parsed, A
  <2> QED BY <1>1, <1>5, <1>7, TaxDetailsFold
<1>9. parsed[0] = At(0) /\ parsed[n] = At(n)
  BY <1>1
<1>10. At(0) = Filled(e, <<>>, <<>>, <<>>)
  BY <1>3 DEF Joins, LastOf
<1> HIDE DEF parsed, At
<1>11. At(n) = Filled(e, <<>>, <<>>, LastOf(Numbers(items, {"tax", "taxes"})))
  BY <1>3 DEF Joins, At, W, Numbers
<1>12. QED
  BY <1>8, <1>9, <1>10, <1>11

---------------------------------------------------------------------------
(* What the details of a transfer say                                      *)

\* A parsed event with these notes and addresses.
Addressed(e, note, sender, recipient, iban) ==
    [date |-> e.date, title |-> e.title, subtitle |-> e.subtitle, type |-> e.type,
     value |-> e.value, isin |-> e.isin, shares |-> e.shares, fees |-> e.fees, taxes |-> e.taxes,
     note |-> note, sender |-> sender, recipient |-> recipient, iban |-> iban]

\* What one item changes.
NoteFrom(e, item, note) ==
    IF ToLower(item.title) = "merchant" /\ Text(item) \notin {"", e.title} THEN Text(item) ELSE note

TextIn(item, titles, text) == IF ToLower(item.title) \in titles THEN Text(item) ELSE text

LEMMA NoteOrText ==
  ASSUME NEW e, NEW item, NEW old
  PROVE  NoteFrom(e, item, old) = old \/ NoteFrom(e, item, old) = Text(item)
  BY Zenon DEF NoteFrom

LEMMA OldOrText ==
  ASSUME NEW item, NEW titles, NEW old
  PROVE  TextIn(item, titles, old) = old \/ TextIn(item, titles, old) = Text(item)
  BY DEF TextIn

LEMMA AddressStep ==
  ASSUME NEW e, NEW a, NEW b, NEW c, NEW d, NEW item
  PROVE  ApplyTransferDetail(Addressed(e, a, b, c, d), item)
             = Addressed(e, NoteFrom(e, item, a), TextIn(item, {"from", "sender"}, b),
                            TextIn(item, {"to"}, c), TextIn(item, {"iban"}, d))
  BY DEF ApplyTransferDetail, Addressed, NoteFrom, TextIn

\* applyTransferDetail leaves the date, type, value and numbers alone.
LEMMA TransferParsed ==
  ASSUME NEW X, NEW items \in Seq(X), NEW e
  PROVE  \E a, b, c, d :
             TransferFold(Addressed(e, e.note, e.sender, e.recipient, e.iban), items)
                 = Addressed(e, a, b, c, d)
<1> DEFINE n == Len(items)
           T == {Text(items[k]) : k \in 1 .. n} \cup {e.note, e.sender, e.recipient, e.iban}
           A == {Addressed(e, a, b, c, d) : a, b, c, d \in T}
           base == Addressed(e, e.note, e.sender, e.recipient, e.iban)
           step == [x \in (1 .. n) \X A |-> ApplyTransferDetail(x[2], items[x[1]])]
<1>1. n \in Nat /\ DOMAIN items = 1 .. n
  OBVIOUS
<1>2. \A a \in A : \A k \in 1 .. n : ApplyTransferDetail(a, items[k]) \in A
  <2>1. ASSUME NEW event \in A, NEW k \in 1 .. n PROVE ApplyTransferDetail(event, items[k]) \in A
    <3>1. Text(items[k]) \in T
      OBVIOUS
    <3> HIDE DEF T, n
    <3>2. PICK a \in T, b \in T, c \in T, d \in T : event = Addressed(e, a, b, c, d)
      OBVIOUS
    <3> DEFINE item == items[k]
               a2 == NoteFrom(e, item, a)
               b2 == TextIn(item, {"from", "sender"}, b)
               c2 == TextIn(item, {"to"}, c)
               d2 == TextIn(item, {"iban"}, d)
    <3>3. ApplyTransferDetail(event, item) = Addressed(e, a2, b2, c2, d2)
      BY <3>2, AddressStep
    <3>4. a2 \in T /\ b2 \in T /\ c2 \in T /\ d2 \in T
      BY <3>1, <3>2, NoteOrText, OldOrText
    <3> HIDE DEF a2, b2, c2, d2
    <3> QED BY <3>3, <3>4
  <2> HIDE DEF A, n
  <2> QED BY <2>1
<1>3. base \in A
  OBVIOUS
<1>4. \A k \in 1 .. n : \A a \in A : step[<<k, a>>] = ApplyTransferDetail(a, items[k])
  <2> HIDE DEF A
  <2> QED OBVIOUS
<1>5. Walk(n, A, base, step)
  <2> HIDE DEF A, base
  <2> QED BY <1>2, <1>3 DEF Walk
<1> HIDE DEF A, base, step, n
<1>6. PICK p : Steps(p, n, A, base, step)
  BY <1>1, <1>5, PathExists
<1>7. p \in [0 .. n -> A] /\ p[0] = base /\ p[n] \in A
  BY <1>1, <1>6 DEF Steps
<1>8. \A k \in 1 .. n : p[k] = ApplyTransferDetail(p[k - 1], items[k])
  <2>1. \A k \in 1 .. n : p[k - 1] \in A
    BY <1>1, <1>7
  <2> QED BY <1>4, <1>6, <2>1 DEF Steps
<1>9. TransferFold(p[0], items) = p[n]
  BY <1>1, <1>2, <1>7, <1>8, TransferDetailsFold
<1>10. QED
  BY <1>7, <1>9 DEF A, base

\* The items of the sections with some titles, one after the other, are a list.
LEMMA ItemsAreLists ==
  ASSUME NEW sections, IsList(sections), \A i \in DOMAIN sections : IsList(Items(sections[i])), NEW titles
  PROVE  \E X : ItemsUnder(sections, titles) \in Seq(X)
<1> DEFINE n == Len(sections)
           W == [i \in DOMAIN sections |->
                    IF ToLower(sections[i].title) \in titles THEN Items(sections[i]) ELSE <<>>]
           X == UNION {Range(Items(sections[i])) : i \in DOMAIN sections}
<1>1. n \in Nat /\ DOMAIN sections = 1 .. n
  BY DEF IsList
<1>2. ASSUME NEW i \in DOMAIN sections PROVE W[i] \in Seq(X)
  <2>1. Range(Items(sections[i])) \subseteq X
    OBVIOUS
  <2>2. Items(sections[i]) \in Seq(X)
    <3> DEFINE R == Range(Items(sections[i]))
               s == Items(sections[i])
    <3>1. s \in Seq(R)
      BY DEF IsList
    <3> HIDE DEF X, R, s
    <3>2. R \subseteq X
      BY <2>1 DEF R
    <3>3. s \in Seq(X)
      BY <3>1, <3>2
    <3> QED BY <3>3 DEF s
  <2>3. <<>> \in Seq(X)
    OBVIOUS
  <2> HIDE DEF X
  <2> QED BY <2>2, <2>3
<1>3. Lists(W, n, X)
  <2>1. W \in [DOMAIN sections -> Seq(X)]
    <3> HIDE DEF X
    <3> QED BY <1>2
  <2> HIDE DEF X, W, n
  <2> QED BY <1>1, <2>1 DEF Lists
<1>4. ItemsUnder(sections, titles) = FlattenSeq(W)
  BY DEF ItemsUnder
<1> HIDE DEF X, W, n
<1>5. PICK p : Joins(p, W, n, X)
  BY <1>1, <1>3, FlattenJoins
<1>6. FlattenSeq(W) \in Seq(X)
  BY <1>1, <1>5 DEF Joins
<1>7. QED
  BY <1>4, <1>6

---------------------------------------------------------------------------
(* The rows of an event are those wanted                                   *)

\* A parsed event that has got nothing from its details but these.
Bare(te, type, isin, note, blank, none) ==
    [date |-> te.timestamp, title |-> te.title, subtitle |-> te.subtitle,
     type |-> type, value |-> ValueOf(te), isin |-> isin,
     shares |-> none, fees |-> none, taxes |-> none,
     note |-> note, sender |-> blank, recipient |-> blank, iban |-> blank]

LEMMA BareChanges ==
  ASSUME NEW te, NEW type, NEW isin, NEW note, NEW blank, NEW none
  PROVE  /\ [Bare(te, type, blank, blank, blank, none) EXCEPT !.isin = isin]
                = Bare(te, type, isin, blank, blank, none)
         /\ [Bare(te, type, blank, blank, blank, none) EXCEPT !.note = note]
                = Bare(te, type, blank, note, blank, none)
  BY DEF Bare

LEMMA BareReads ==
  ASSUME NEW te, NEW type, NEW isin, NEW note, NEW blank, NEW none,
         NEW e, e = Bare(te, type, isin, note, blank, none)
  PROVE  /\ e.date = te.timestamp /\ e.type = type /\ e.value = ValueOf(te)
         /\ e.shares = none /\ e.fees = none /\ e.taxes = none /\ e.note = note
         /\ e = Filled(e, none, none, none)
         /\ e = Addressed(e, e.note, e.sender, e.recipient, e.iban)
  BY DEF Bare, Filled, Addressed

\* What parseEvent starts from.
Blank == ""

None == <<>>

Plain(te, sections, isin, note) == Bare(te, InferEventType(te, sections), isin, note, Blank, None)

\* The numbers parsed for each type.
TradeTypes == {"TRADE_INVOICE", "DIVIDEND", "SAVEBACK"}

SharesIn(type, items) ==
    IF type \notin TradeTypes THEN <<>>
    ELSE Else(LastOf(Numbers(items, {"shares"})), FirstAny(PrefixNumbers(items)))

FeesIn(type, items) == IF type \notin TradeTypes THEN <<>> ELSE LastOf(FeeNumbers(items))

TaxesIn(type, items) ==
    IF type \notin TradeTypes \cup {"INTEREST"} THEN <<>> ELSE LastOf(Numbers(items, {"tax", "taxes"}))

\* What rows take from a parsed event.
Reads(event, te, sections) ==
    LET type == InferEventType(te, sections)
        items == TradeItems(sections)
    IN  /\ event.date = te.timestamp /\ event.type = type /\ event.value = ValueOf(te)
        /\ event.shares = SharesIn(type, items) /\ event.fees = FeesIn(type, items)
        /\ event.taxes = TaxesIn(type, items)

\* parseEventDetails, whatever the type: the folds are the numbers wanted.
LEMMA EventParsed ==
  ASSUME NEW te, NEW sections, IsList(sections), \A i \in DOMAIN sections : IsList(Items(sections[i]))
  PROVE  Reads(ParsedEvent(te, sections), te, sections)
<1> DEFINE type == InferEventType(te, sections)
           items == TradeItems(sections)
           E == Plain(te, sections, Blank, Blank)
           P == ParsedEvent(te, sections)
<1>1. P = ParseEventDetails(E, te, sections) /\ E.type = type
  <2>1. P = ParseEventDetails(E, te, sections)
    BY DEF ParsedEvent, Plain, Bare, Blank, None
  <2>2. E.type = type
    BY BareReads DEF Plain
  <2> QED BY <2>1, <2>2
<1>2. PICK X : items \in Seq(X)
  BY ItemsAreLists DEF TradeItems
<1>3. CASE type \in TradeTypes
  <2> DEFINE e == Plain(te, sections, ParseISIN(te, sections), Blank)
  <2>1. P = TradeFold(e, items)
    BY <1>1, <1>3, BareChanges DEF ParseEventDetails, Plain, TradeTypes, TradeFold
  <2>2. e = Filled(e, None, None, None)
    BY BareReads DEF Plain
  <2>3. e.date = te.timestamp /\ e.type = type /\ e.value = ValueOf(te)
    BY BareReads DEF Plain
  <2> HIDE DEF e, items, type, P
  <2>4. P = Filled(e, SharesIn(type, items), FeesIn(type, items), TaxesIn(type, items))
    BY <1>2, <1>3, <2>1, <2>2, TradeParsed DEF None, SharesIn, FeesIn, TaxesIn
  <2> QED BY <2>3, <2>4 DEF Filled, Reads, type, items, P
<1>4. CASE type = "INTEREST"
  <2>1. P = TaxFold(E, items)
    BY <1>1, <1>4 DEF ParseEventDetails, TaxFold
  <2>2. E = Filled(E, None, None, None)
    BY BareReads DEF Plain
  <2>3. E.date = te.timestamp /\ E.type = type /\ E.value = ValueOf(te)
    BY BareReads DEF Plain
  <2> HIDE DEF E, items, type, P
  <2>4. P = Filled(E, SharesIn(type, items), FeesIn(type, items), TaxesIn(type, items))
    BY <1>2, <1>4, <2>1, <2>2, TaxParsed DEF None, SharesIn, FeesIn, TaxesIn, TradeTypes
  <2> QED BY <2>3, <2>4 DEF Filled, Reads, type, items, P
<1>5. CASE type \in {"DEPOSIT", "REMOVAL"}
  <2> DEFINE e == Plain(te, sections, Blank, IF HasPrefix(te.eventType, "card_") THEN te.eventType ELSE Blank)
             held == ItemsUnder(sections, {"overview"})
  <2>1. P = TransferFold(e, held)
    <3>1. E.note = Blank
      BY BareReads DEF Plain
    <3> HIDE DEF E
    <3> QED BY <1>1, <1>5, <3>1, BareChanges DEF ParseEventDetails, Plain, TransferFold, E
  <2>2. e = Addressed(e, e.note, e.sender, e.recipient, e.iban)
    BY BareReads DEF Plain
  <2>3. /\ e.date = te.timestamp /\ e.type = type /\ e.value = ValueOf(te)
        /\ e.shares = None /\ e.fees = None /\ e.taxes = None
    BY BareReads DEF Plain
  <2>4. PICK Y : held \in Seq(Y)
    BY ItemsAreLists
  <2> HIDE DEF e, items, type, P, held
  <2>5. PICK a, b, c, d : P = Addressed(e, a, b, c, d)
    BY <2>1, <2>2, <2>4, TransferParsed
  <2>6. SharesIn(type, items) = <<>> /\ FeesIn(type, items) = <<>> /\ TaxesIn(type, items) = <<>>
    BY <1>5 DEF SharesIn, FeesIn, TaxesIn, TradeTypes
  <2> QED BY <2>3, <2>5, <2>6 DEF None, Addressed, Reads, type, items, P
<1>6. CASE type \notin TradeTypes \cup {"INTEREST", "DEPOSIT", "REMOVAL"}
  <2>1. P = E
    BY <1>1, <1>6 DEF ParseEventDetails, TradeTypes
  <2>2. SharesIn(type, items) = <<>> /\ FeesIn(type, items) = <<>> /\ TaxesIn(type, items) = <<>>
    BY <1>6 DEF SharesIn, FeesIn, TaxesIn
  <2> QED BY <2>1, <2>2, BareReads DEF Plain, None, Reads
<1>7. QED
  BY <1>3, <1>4, <1>5, <1>6

\* What the rows of an event file are made of.
ParsedIn(f) == ParsedEvent(f.event, SectionsOf(f))

ShownRows(rows) == [i \in DOMAIN rows |-> Shown(rows[i])]

LEMMA ShortIsAmount ==
  ASSUME NEW s \in Seq(Int), Len(s) <= 1
  PROVE  s \in Amounts
<1>1. CASE Len(s) = 0
  <2>1. s = <<>>
    BY <1>1
  <2> QED BY <2>1 DEF Amounts
<1>2. CASE Len(s) = 1
  <2>1. s[1] \in Int /\ s = <<s[1]>>
    BY <1>2
  <2> QED BY <2>1 DEF Amounts
<1>3. Len(s) = 0 \/ Len(s) = 1
  OBVIOUS
<1>4. QED
  BY <1>1, <1>2, <1>3

LEMMA SectionsAreLists ==
  ASSUME NEW f, f.event \in Events
  PROVE  IsList(SectionsOf(f)) /\ \A i \in DOMAIN SectionsOf(f) : IsList(Items(SectionsOf(f)[i]))
<1>1. CASE f.lost
  <2>1. SectionsOf(f) = <<>> /\ DOMAIN SectionsOf(f) = {}
    BY <1>1 DEF SectionsOf
  <2>2. IsList(<<>>)
    BY DEF IsList
  <2> QED BY <2>1, <2>2
<1>2. CASE ~f.lost
  BY <1>2, EventsAssumption DEF SectionsOf
<1>3. QED
  BY <1>1, <1>2

LEMMA FileParsed ==
  ASSUME NEW f, f.event \in Events
  PROVE  Reads(ParsedIn(f), f.event, SectionsOf(f)) /\ ValueOf(f.event) \in Amounts
<1>1. IsList(SectionsOf(f)) /\ \A i \in DOMAIN SectionsOf(f) : IsList(Items(SectionsOf(f)[i]))
  BY SectionsAreLists
<1>2. ValueOf(f.event) \in Amounts
  <2> DEFINE amount == f.event.amount
  <2>1. amount \in Seq(Int) /\ Len(amount) <= 1
    BY EventsAssumption
  <2>2. amount \in Amounts
    <3> HIDE DEF amount
    <3> QED BY <2>1, ShortIsAmount
  <2> QED BY <2>2 DEF ValueOf, Amounts
<1>3. QED
  BY <1>1, <1>2, EventParsed DEF ParsedIn

LEMMA CellsAreAmounts ==
  ASSUME NEW amount \in Amounts
  PROVE  /\ FormatFloat(amount) \in Amounts /\ NegateFloat(amount) \in Amounts
         /\ Number(NegateFloat(amount)) = -Number(amount)
<1>1. CASE amount = <<>>
  <2>1. FormatFloat(amount) = <<>> /\ NegateFloat(amount) = <<>> /\ Number(amount) = 0
    BY <1>1 DEF FormatFloat, NegateFloat, Number
  <2>2. Number(NegateFloat(amount)) = 0
    BY <2>1, <1>1 DEF Number
  <2>3. \A a, b \in Int : a + b = 0 => a = -b
    OBVIOUS
  <2>4. Number(NegateFloat(amount)) = -Number(amount)
    BY <2>1, <2>2, <2>3
  <2> QED BY <1>1, <2>1, <2>4 DEF Amounts
<1>2. ASSUME NEW m \in Int, amount = <<m>>
      PROVE  /\ FormatFloat(amount) \in Amounts /\ NegateFloat(amount) \in Amounts
             /\ Number(NegateFloat(amount)) = -Number(amount)
  <2>1. \A k \in Int : Cents(k) \in Int
    BY DEF Cents
  <2>2. FormatFloat(amount) \in Amounts
    BY <1>2, <2>1 DEF FormatFloat, Amounts
  <2>3. NegateFloat(amount) = <<-m>> /\ -m \in Int
    BY <1>2 DEF NegateFloat
  <2>4. NegateFloat(amount) \in Amounts
    BY <2>3 DEF Amounts
  <2>5. Number(NegateFloat(amount)) = -Number(amount)
    BY <1>2, <2>3 DEF Number
  <2> QED BY <2>2, <2>4, <2>5
<1>3. QED
  BY <1>1, <1>2 DEF Amounts

LEMMA ReadsAmounts ==
  ASSUME NEW X, NEW items \in Seq(X), NEW type
  PROVE  SharesIn(type, items) \in Amounts /\ FeesIn(type, items) \in Amounts /\ TaxesIn(type, items) \in Amounts
<1> DEFINE n == Len(items)
           WS == [i \in DOMAIN items |-> NumberIn(items[i], {"shares"})]
           WP == [i \in DOMAIN items |-> PrefixNumber(items[i])]
           WF == [i \in DOMAIN items |-> FeeNumber(items[i])]
           WT == [i \in DOMAIN items |-> NumberIn(items[i], {"tax", "taxes"})]
<1>1. n \in Nat /\ DOMAIN items = 1 .. n
  OBVIOUS
<1>2. /\ WS \in [1 .. n -> Amounts] /\ WP \in [1 .. n -> Amounts]
      /\ WF \in [1 .. n -> Amounts] /\ WT \in [1 .. n -> Amounts]
  BY <1>1, NumbersAreAmounts
<1>3. /\ Numbers(items, {"shares"}) = FlattenSeq(WS) /\ PrefixNumbers(items) = FlattenSeq(WP)
      /\ FeeNumbers(items) = FlattenSeq(WF) /\ Numbers(items, {"tax", "taxes"}) = FlattenSeq(WT)
  BY DEF Numbers, PrefixNumbers, FeeNumbers
<1> HIDE DEF WS, WP, WF, WT, n
<1>4. Lists(WS, n, Int) /\ Lists(WP, n, Int) /\ Lists(WF, n, Int) /\ Lists(WT, n, Int)
  BY <1>2, AmountsAreLists DEF Lists
<1>5. PICK s, p, f, t : /\ Joins(s, WS, n, Int) /\ Joins(p, WP, n, Int)
                        /\ Joins(f, WF, n, Int) /\ Joins(t, WT, n, Int)
  BY <1>1, <1>4, FlattenJoins
<1>6. /\ Numbers(items, {"shares"}) \in Seq(Int) /\ PrefixNumbers(items) \in Seq(Int)
      /\ FeeNumbers(items) \in Seq(Int) /\ Numbers(items, {"tax", "taxes"}) \in Seq(Int)
  BY <1>1, <1>3, <1>5 DEF Joins
<1>7. <<>> \in Amounts
  BY DEF Amounts
<1>8. /\ LastOf(Numbers(items, {"shares"})) \in Amounts /\ FirstAny(PrefixNumbers(items)) \in Amounts
      /\ LastOf(FeeNumbers(items)) \in Amounts /\ LastOf(Numbers(items, {"tax", "taxes"})) \in Amounts
  BY <1>6, <1>7, NextNumber
<1>9. QED
  BY <1>7, <1>8 DEF SharesIn, FeesIn, TaxesIn, Else

\* The sign of a fee or tax does not change its size in the CSV.
LEMMA SameSize ==
  ASSUME NEW amount \in Amounts
  PROVE  Size(FormatFloat(NegateFloat(amount))) = Size(FormatFloat(amount))
<1>1. FormatFloat(NegateFloat(amount)) = NegateFloat(FormatFloat(amount)) /\ FormatFloat(amount) \in Amounts
  BY RoundingIsSymmetric, CellsAreAmounts
<1>2. ASSUME NEW cell \in Amounts PROVE Size(NegateFloat(cell)) = Size(cell)
  <2>1. CASE cell = <<>>
    BY <2>1 DEF NegateFloat
  <2>2. CASE cell # <<>>
    <3>1. PICK m \in Int : cell = <<m>>
      BY <2>2 DEF Amounts
    <3>2. NegateFloat(cell) = <<-m>> /\ -m \in Int /\ <<-m>>[1] = -m /\ <<-m>> # <<>>
      BY <3>1 DEF NegateFloat
    <3>3. NegateFloat(<<-m>>) = <<-(-m)>> /\ -(-m) = m
      BY <3>2 DEF NegateFloat
    <3>4. CASE m > 0
      BY <3>1, <3>2, <3>3, <3>4 DEF Size
    <3>5. CASE m < 0
      BY <3>1, <3>2, <3>3, <3>5 DEF Size
    <3>6. CASE m = 0
      <4>1. \A a \in Int : ~(a < 0) /\ ~(-a < 0) => -a = a
        OBVIOUS
      <4>2. ~(m < 0) /\ ~(-m < 0)
        BY <3>6
      <4> QED BY <3>1, <3>2, <4>1, <4>2 DEF Size
    <3> QED BY <3>1, <3>4, <3>5, <3>6
  <2> QED BY <2>1, <2>2
<1>3. QED
  BY <1>1, <1>2

\* A row without its note and ISIN.
ShownOnly(date, type, value, shares, fees, taxes) ==
    [date |-> date, type |-> type, value |-> value, shares |-> shares, fees |-> fees, taxes |-> taxes]

LEMMA ShownCells ==
  ASSUME NEW row
  PROVE  Shown(row) = ShownOnly(row.date, row.type, row.value, row.shares, Size(row.fees), Size(row.taxes))
  BY DEF Shown, ShownOnly

\* The same, as a function of its fields.
AllSix(row) == [field \in {"date", "type", "value", "shares", "fees", "taxes"} |-> row[field]]

LEMMA AllSixCells ==
  ASSUME NEW row
  PROVE  AllSix(row) = ShownOnly(row.date, row.type, row.value, row.shares, row.fees, row.taxes)
  BY DEF AllSix, ShownOnly

Bonus(row, type, none) ==
    [row EXCEPT !.type = type, !.value = NegateFloat(@), !.shares = none, !.fees = none, !.taxes = none]

LEMMA BonusCells ==
  ASSUME NEW date, NEW type, NEW value, NEW shares, NEW fees, NEW taxes, NEW deposit, NEW none
  PROVE  Bonus(ShownOnly(date, type, value, shares, fees, taxes), deposit, none)
             = ShownOnly(date, deposit, NegateFloat(value), none, none, none)
<1> DEFINE top == ShownOnly(date, type, value, shares, fees, taxes)
           row == Bonus(top, deposit, none)
<1>1. DOMAIN top = {"date", "type", "value", "shares", "fees", "taxes"}
  BY DEF ShownOnly
<1>2. /\ row.date = date /\ row.type = deposit /\ row.value = NegateFloat(value)
      /\ row.shares = none /\ row.fees = none /\ row.taxes = none
  BY DEF ShownOnly, Bonus
<1> HIDE DEF top
<1>3. DOMAIN row = DOMAIN top /\ row = [field \in DOMAIN row |-> row[field]]
  BY DEF Bonus
<1> HIDE DEF row
<1>4. row = AllSix(row)
  BY <1>1, <1>3 DEF AllSix
<1>5. QED
  BY <1>2, <1>4, AllSixCells DEF row, top

\* eventToRows: the rows of a parsed event are those wanted of its file.
LEMMA RowsAreWanted ==
  ASSUME NEW f, f.event \in Events
  PROVE  ShownRows(EventToRows(ParsedIn(f))) = Wanted(f)
<1> DEFINE te == f.event
           type == InferEventType(te, SectionsOf(f))
           items == TradeItems(SectionsOf(f))
           event == ParsedIn(f)
           value == ValueOf(te)
           cells == [s |-> FormatFloat(SharesIn(type, items)),
                     f |-> Size(FormatFloat(FeesIn(type, items))),
                     t |-> Size(FormatFloat(TaxesIn(type, items)))]
           first == CASE type = "SAVEBACK" -> "BUY"
                      [] type = "TRADE_INVOICE" -> IF value # <<>> /\ value[1] < 0 THEN "BUY" ELSE "SELL"
                      [] OTHER -> type
           top == ShownOnly(te.timestamp, first, FormatFloat(value), cells.s, cells.f, cells.t)
           bonus == ShownOnly(te.timestamp, "DEPOSIT", NegateFloat(FormatFloat(value)), <<>>, <<>>, <<>>)
<1>1. /\ event.date = te.timestamp /\ event.type = type /\ event.value = value
      /\ event.shares = SharesIn(type, items) /\ event.fees = FeesIn(type, items)
      /\ event.taxes = TaxesIn(type, items)
  BY FileParsed DEF Reads
<1>2. FormatFloat(NegateFloat(value)) = NegateFloat(FormatFloat(value))
  BY FileParsed, RoundingIsSymmetric
<1>3. FormatFloat(<<>>) = <<>> /\ Size(<<>>) = <<>>
  BY DEF FormatFloat, Size
<1>9. /\ Size(FormatFloat(NegateFloat(event.fees))) = cells.f
      /\ Size(FormatFloat(NegateFloat(event.taxes))) = cells.t
  <2>1. IsList(SectionsOf(f)) /\ \A i \in DOMAIN SectionsOf(f) : IsList(Items(SectionsOf(f)[i]))
    BY SectionsAreLists
  <2>2. PICK X : items \in Seq(X)
    BY <2>1, ItemsAreLists DEF TradeItems
  <2> HIDE DEF type, items, event
  <2>3. FeesIn(type, items) \in Amounts /\ TaxesIn(type, items) \in Amounts
    BY <2>2, ReadsAmounts
  <2> QED BY <1>1, <2>3, SameSize
<1>4. Wanted(f) = IF type # "SAVEBACK" THEN <<top>> ELSE <<top, bonus>>
  <2> DEFINE trade == type \in {"TRADE_INVOICE", "DIVIDEND", "SAVEBACK"}
             paid == value # <<>> /\ value[1] < 0
             was == CASE type = "SAVEBACK" -> "BUY"
                      [] type = "TRADE_INVOICE" -> IF paid THEN "BUY" ELSE "SELL"
                      [] OTHER -> type
             s == IF ~trade THEN <<>>
                  ELSE FormatFloat(Else(LastOf(Numbers(items, {"shares"})), FirstAny(PrefixNumbers(items))))
             n == IF ~trade THEN <<>> ELSE Size(FormatFloat(LastOf(FeeNumbers(items))))
             t == IF ~trade /\ type # "INTEREST" THEN <<>>
                  ELSE Size(FormatFloat(LastOf(Numbers(items, {"tax", "taxes"}))))
             row == ShownOnly(te.timestamp, was, FormatFloat(value), s, n, t)
  <2>1. Wanted(f) = IF type # "SAVEBACK" THEN <<row>> ELSE <<row, Bonus(row, "DEPOSIT", <<>>)>>
    BY DEF Wanted, ShownOnly, Bonus
  <2>2. s = cells.s /\ n = cells.f /\ t = cells.t
    <3> HIDE DEF type, items
    <3> QED BY <1>3 DEF SharesIn, FeesIn, TaxesIn, TradeTypes
  <2>3. was = first
    OBVIOUS
  <2> HIDE DEF cells, s, n, t, was, first
  <2>4. row = top
    BY <2>2, <2>3
  <2>5. Bonus(row, "DEPOSIT", <<>>) = bonus
    BY BonusCells
  <2> HIDE DEF row
  <2> QED BY <2>1, <2>4, <2>5
<1> HIDE DEF event, type, items, value
<1>5. \A t : Shown(Row(event, t, event.value))
                 = ShownOnly(te.timestamp, t, FormatFloat(value), cells.s, cells.f, cells.t)
  BY <1>1, <1>9, ShownCells DEF Row
<1>6. Shown(DepositRow(event)) = bonus
  BY <1>1, <1>2, <1>3, ShownCells DEF DepositRow, Row
<1> HIDE DEF cells, top, bonus
<1>7. CASE type = "SAVEBACK"
  <2>1. EventToRows(event) = <<Row(event, "BUY", event.value), DepositRow(event)>>
    BY <1>1, <1>7 DEF EventToRows
  <2>2. ShownRows(EventToRows(event)) = <<Shown(Row(event, "BUY", event.value)), Shown(DepositRow(event))>>
    BY <2>1 DEF ShownRows
  <2> QED BY <1>4, <1>5, <1>6, <1>7, <2>2 DEF top, event
<1>8. CASE type # "SAVEBACK"
  <2>1. EventToRows(event) = <<Row(event, GetTransactionType(event), event.value)>>
    BY <1>1, <1>8 DEF EventToRows
  <2>2. ShownRows(EventToRows(event)) = <<Shown(Row(event, GetTransactionType(event), event.value))>>
    BY <2>1 DEF ShownRows
  <2>3. GetTransactionType(event) = first
    BY <1>1, <1>8 DEF GetTransactionType
  <2> QED BY <1>4, <1>5, <1>8, <2>2, <2>3 DEF top, event
<1>10. QED
  BY <1>7, <1>8

---------------------------------------------------------------------------
(* The type of an event                                                    *)

Untyped == ParsedTypes \cup {""}

\* Whatever types are looked for in, what is found is one of them, or none.
LEMMA FirstOfTypes ==
  ASSUME NEW n \in Nat, NEW types, DOMAIN types = 1 .. n, \A i \in 1 .. n : types[i] \in Untyped
  PROVE  FirstOf(types) \in Untyped
<1> DEFINE known == {i \in DOMAIN types : types[i] # ""}
           first == CHOOSE i \in known : \A j \in known : i <= j
<1>1. known \in SUBSET (1 .. n)
  OBVIOUS
<1>2. CASE known = {}
  BY <1>2 DEF FirstOf, Untyped
<1>3. CASE known # {}
  <2> HIDE DEF known
  <2>1. \E i \in known : \A j \in known : i <= j
    BY <1>1, <1>3, LeastExists
  <2>2. first \in known
    BY <2>1
  <2>3. first \in 1 .. n
    BY <1>1, <2>2
  <2>4. FirstOf(types) = types[first]
    BY <1>3 DEF FirstOf, known
  <2> QED BY <2>3, <2>4
<1>4. QED
  BY <1>2, <1>3

LEMMA TableTypes ==
  /\ DOMAIN trEventTypeMap \subseteq ParsedTypes
  /\ DOMAIN titleEventTypeMap \subseteq ParsedTypes
  /\ DOMAIN subtitleEventTypeMap \subseteq ParsedTypes
  /\ DOMAIN sectionTitleEventTypeMap \subseteq ParsedTypes
  BY DEF trEventTypeMap, titleEventTypeMap, subtitleEventTypeMap, sectionTitleEventTypeMap, ParsedTypes

LEMMA LookupTypes ==
  ASSUME NEW table, DOMAIN table \subseteq ParsedTypes, NEW s
  PROVE  Lookup(table, s) \in Untyped
<1> DEFINE known == {type \in DOMAIN table : ToLower(s) \in table[type]}
<1>1. CASE known = {}
  BY <1>1 DEF Lookup, Untyped
<1>2. CASE known # {}
  <2>1. (CHOOSE type \in known : TRUE) \in known
    BY <1>2
  <2>2. Lookup(table, s) = CHOOSE type \in known : TRUE
    BY <1>2 DEF Lookup
  <2> QED BY <2>1, <2>2 DEF Untyped
<1>3. QED
  BY <1>1, <1>2

LEMMA TimelineTypes ==
  ASSUME NEW te
  PROVE  InferFromTimeline(te) \in Untyped
<1> DEFINE a == Lookup(trEventTypeMap, ExplicitType(te))
           b == Lookup(titleEventTypeMap, te.title)
           c == Lookup(subtitleEventTypeMap, te.subtitle)
           d == IF HasPrefix(ToLower(te.subtitle), "saveback") THEN "SAVEBACK" ELSE ""
           types == <<a, b, c, d>>
<1>1. a \in Untyped /\ b \in Untyped /\ c \in Untyped
  BY TableTypes, LookupTypes
<1>2. d \in Untyped
  BY DEF Untyped, ParsedTypes
<1>3. InferFromTimeline(te) = FirstOf(types)
  BY DEF InferFromTimeline
<1> HIDE DEF a, b, c, d
<1>4. DOMAIN types = 1 .. 4 /\ \A i \in 1 .. 4 : types[i] \in Untyped
  BY <1>1, <1>2
<1> HIDE DEF types
<1>5. QED
  BY <1>3, <1>4, FirstOfTypes

LEMMA SectionTypes ==
  ASSUME NEW section, IsList(Items(section))
  PROVE  InferFromSection(section) \in Untyped
<1> DEFINE n == Len(Items(section))
           types == [i \in DOMAIN Items(section) |->
                        Lookup(sectionTitleEventTypeMap, Items(section)[i].title)]
<1>1. n \in Nat /\ DOMAIN types = 1 .. n
  BY DEF IsList
<1>2. \A i \in 1 .. n : types[i] \in Untyped
  BY <1>1, TableTypes, LookupTypes
<1> HIDE DEF n, types
<1>3. FirstOf(types) \in Untyped
  BY <1>1, <1>2, FirstOfTypes
<1>4. "" \in Untyped /\ "DEPOSIT" \in Untyped
  BY DEF Untyped, ParsedTypes
<1>5. QED
  BY <1>3, <1>4 DEF InferFromSection, types

\* inferEventType has no other result.
LEMMA InferredTypes ==
  ASSUME NEW te, NEW sections, IsList(sections), \A i \in DOMAIN sections : IsList(Items(sections[i]))
  PROVE  InferEventType(te, sections) \in Untyped
<1> DEFINE n == Len(sections)
           types == [i \in DOMAIN sections |-> InferFromSection(sections[i])]
<1>1. n \in Nat /\ DOMAIN types = 1 .. n /\ DOMAIN sections = 1 .. n
  BY DEF IsList
<1>2. \A i \in 1 .. n : types[i] \in Untyped
  BY <1>1, SectionTypes
<1> HIDE DEF n, types
<1>3. FirstOf(types) \in Untyped
  BY <1>1, <1>2, FirstOfTypes
<1>4. QED
  BY <1>3, TimelineTypes DEF InferEventType, InferFromDetailSections, types

---------------------------------------------------------------------------
(* The cells and the cash of rows                                          *)

LEMMA AmountIsShort ==
  ASSUME NEW amount \in Amounts
  PROVE  amount \in Seq(Int) /\ Len(amount) <= 1 /\ Number(amount) \in Int
<1>1. CASE amount = <<>>
  BY <1>1 DEF Number
<1>2. ASSUME NEW m \in Int, amount = <<m>> PROVE amount \in Seq(Int) /\ Len(amount) <= 1 /\ Number(amount) \in Int
  BY <1>2 DEF Number
<1>3. QED
  BY <1>1, <1>2 DEF Amounts

\* Rows that can be added up.
AreRows(rows) == IsList(rows) /\ \A i \in DOMAIN rows : IsRow(rows[i])

LEMMA NoRows == AreRows(<<>>)
  BY DEF AreRows, IsList

LEMMA OwnList ==
  ASSUME NEW X, NEW s \in Seq(X)
  PROVE  IsList(s)
<1> DEFINE m == Len(s)
           R == Range(s)
<1>1. m \in Nat /\ s \in [1 .. m -> X]
  OBVIOUS
<1>2. \A i \in 1 .. m : s[i] \in R
  BY <1>1 DEF Range
<1> HIDE DEF m, R
<1>3. s \in [1 .. m -> R]
  BY <1>1, <1>2
<1>4. s \in Seq(R)
  BY <1>1, <1>3
<1>5. QED
  BY <1>4 DEF R, IsList

LEMMA MoreRows ==
  ASSUME NEW rows, AreRows(rows), NEW more, AreRows(more)
  PROVE  AreRows(rows \o more)
<1> DEFINE X == Range(rows) \cup Range(more)
           all == rows \o more
<1>1. rows \in Seq(Range(rows)) /\ more \in Seq(Range(more))
  BY DEF AreRows, IsList
<1>2. rows \in Seq(X) /\ more \in Seq(X)
  <2> DEFINE A == Range(rows)
             B == Range(more)
  <2> HIDE DEF A, B
  <2>1. rows \in Seq(A) /\ more \in Seq(B) /\ A \subseteq X /\ B \subseteq X
    BY <1>1 DEF A, B
  <2> HIDE DEF X
  <2> QED BY <2>1
<1> HIDE DEF X
<1>3. all \in Seq(X)
  BY <1>2
<1>4. IsList(all)
  <2> HIDE DEF all
  <2> QED BY <1>3, OwnList
<1>5. \A i \in DOMAIN all : IsRow(all[i])
  BY <1>2 DEF AreRows
<1>6. QED
  BY <1>4, <1>5 DEF AreRows

\* p has the sums of the first rows.
AddsUp(p, n, rows) ==
    /\ p \in [0 .. n -> Int]
    /\ p[0] = 0 /\ \A k \in 1 .. n : p[k] = p[k - 1] + Number(rows[k].value)
    /\ CashIn(rows) = p[n]

LEMMA SumOfRows ==
  ASSUME NEW n \in Nat, NEW rows, DOMAIN rows = 1 .. n, \A i \in 1 .. n : IsRow(rows[i])
  PROVE  \E p : AddsUp(p, n, rows)
<1> DEFINE step == [x \in (1 .. n) \X Int |-> AddRow(x[2], rows[x[1]])]
<1>1. \A k \in 1 .. n : Number(rows[k].value) \in Int
  <2> SUFFICES ASSUME NEW k \in 1 .. n PROVE Number(rows[k].value) \in Int
    OBVIOUS
  <2>1. rows[k]["value"] \in Seq(Int) /\ Len(rows[k]["value"]) <= 1
    BY DEF IsRow
  <2>2. rows[k].value = <<>> \/ rows[k].value[1] \in Int
    BY <2>1
  <2> QED BY <2>2 DEF Number
<1>2. \A a \in Int : \A k \in 1 .. n : AddRow(a, rows[k]) \in Int
  BY <1>1 DEF AddRow
<1>3. Walk(n, Int, 0, step)
  BY <1>2 DEF Walk
<1>4. \A k \in 1 .. n : \A a \in Int : step[<<k, a>>] = AddRow(a, rows[k])
  OBVIOUS
<1> HIDE DEF step
<1>5. PICK p : Steps(p, n, Int, 0, step)
  BY <1>3, PathExists
<1>6. p \in [0 .. n -> Int] /\ p[0] = 0 /\ \A k \in 1 .. n : p[k] = AddRow(p[k - 1], rows[k])
  <2>1. \A k \in 1 .. n : p[k - 1] \in Int
    BY <1>5 DEF Steps
  <2> QED BY <1>4, <1>5, <2>1 DEF Steps
<1>7. SumFrom(p[0], rows) = p[n]
  BY <1>2, <1>6, RowsFold
<1>8. QED
  BY <1>6, <1>7 DEF AddRow, SumFrom, CashIn, AddsUp

LEMMA CashInNoRows == CashIn(<<>>) = 0
<1>1. DOMAIN <<>> = 1 .. 0
  OBVIOUS
<1>2. QED
  BY <1>1, SumOfRows DEF AddsUp

\* One more row adds its value.
LEMMA CashAdds ==
  ASSUME NEW rows, AreRows(rows), NEW row, IsRow(row)
  PROVE  CashIn(rows \o <<row>>) = CashIn(rows) + Number(row.value)
<1> DEFINE n == Len(rows)
           all == rows \o <<row>>
<1>1. n \in Nat /\ DOMAIN rows = 1 .. n
  BY DEF AreRows, IsList
<1>2. DOMAIN all = 1 .. n + 1 /\ (\A i \in 1 .. n : all[i] = rows[i]) /\ all[n + 1] = row
  BY <1>1 DEF AreRows, IsList
<1> HIDE DEF n, all
<1>3. \A i \in 1 .. n : IsRow(rows[i])
  BY <1>1 DEF AreRows
<1>4. \A i \in 1 .. n + 1 : IsRow(all[i])
  BY <1>1, <1>2, <1>3
<1>5. PICK p : AddsUp(p, n, rows)
  BY <1>1, <1>3, SumOfRows
<1> DEFINE m == n + 1
<1>6. m \in Nat /\ n \in 0 .. m /\ m \in 1 .. m /\ m - 1 = n
  BY <1>1
<1>7. DOMAIN all = 1 .. m /\ \A i \in 1 .. m : IsRow(all[i])
  BY <1>2, <1>4
<1> HIDE DEF m
<1>8. PICK q : AddsUp(q, m, all)
  BY <1>6, <1>7, SumOfRows
<1> DEFINE S == {k \in 0 .. n : p[k] = q[k]}
<1>9. 0 \in S /\ \A k \in 1 .. n : k - 1 \in S => k \in S
  <2>1. \A k \in 1 .. n : k \in 1 .. m /\ k \in 0 .. n /\ all[k] = rows[k]
    BY <1>1, <1>2 DEF m
  <2>2. ASSUME NEW k \in 1 .. n, k - 1 \in S PROVE k \in S
    <3>1. p[k] = p[k - 1] + Number(rows[k].value) /\ q[k] = q[k - 1] + Number(rows[k].value)
      BY <1>5, <1>8, <2>1 DEF AddsUp
    <3>2. p[k - 1] = q[k - 1]
      BY <2>2
    <3> QED BY <1>5, <2>1, <3>1, <3>2
  <2>3. 0 \in S
    BY <1>1, <1>5, <1>8 DEF AddsUp
  <2> QED BY <2>2, <2>3
<1>10. n \in S
  <2> HIDE DEF S
  <2>1. \A k \in 0 .. n : k \in S
    BY <1>1, <1>9, Climb
  <2> QED BY <1>1, <2>1
<1>11. all[m] = row
  BY <1>2 DEF m
<1>12. CashIn(all) = CashIn(rows) + Number(row.value)
  <2>1. q[m] = q[m - 1] + Number(all[m].value)
    BY <1>6, <1>8 DEF AddsUp
  <2>2. q[m - 1] = p[n]
    BY <1>6, <1>10
  <2>3. CashIn(all) = q[m] /\ CashIn(rows) = p[n]
    BY <1>5, <1>8 DEF AddsUp
  <2>4. Number(all[m].value) = Number(row.value)
    BY <1>11
  <2> QED BY <2>1, <2>2, <2>3, <2>4, Zenon
<1>13. QED
  BY <1>12 DEF all

CashOfFile(f) == IF InferEventType(f.event, SectionsOf(f)) = "SAVEBACK" THEN 0
                 ELSE Number(FormatFloat(ValueOf(f.event)))

\* inferEventType has found a type.
IsTyped(f) == InferEventType(f.event, SectionsOf(f)) # ""

LEMMA RowTyped ==
  ASSUME NEW row, row.type \in RowTypes, row.value \in Amounts, row.shares \in Amounts,
         row.fees \in Amounts, row.taxes \in Amounts
  PROVE  IsRow(row)
<1>1. /\ row.value \in Seq(Int) /\ Len(row.value) <= 1 /\ row.shares \in Seq(Int) /\ Len(row.shares) <= 1
      /\ row.fees \in Seq(Int) /\ Len(row.fees) <= 1 /\ row.taxes \in Seq(Int) /\ Len(row.taxes) <= 1
  BY AmountIsShort
<1>2. QED
  BY <1>1 DEF IsRow

LEMMA ParsedAmounts ==
  ASSUME NEW f, f.event \in Events
  PROVE  LET event == ParsedIn(f) IN
         /\ event.type = InferEventType(f.event, SectionsOf(f)) /\ event.value = ValueOf(f.event)
         /\ event.value \in Amounts /\ event.shares \in Amounts /\ event.fees \in Amounts
         /\ event.taxes \in Amounts /\ event.type \in Untyped
<1> DEFINE te == f.event
           sections == SectionsOf(f)
           event == ParsedIn(f)
           type == InferEventType(te, sections)
           items == TradeItems(sections)
<1>1. /\ event.date = te.timestamp /\ event.type = type /\ event.value = ValueOf(te)
      /\ event.shares = SharesIn(type, items) /\ event.fees = FeesIn(type, items)
      /\ event.taxes = TaxesIn(type, items)
  BY FileParsed DEF Reads
<1>2. IsList(sections) /\ \A i \in DOMAIN sections : IsList(Items(sections[i]))
  BY SectionsAreLists
<1>3. PICK X : items \in Seq(X)
  BY <1>2, ItemsAreLists DEF TradeItems
<1>4. /\ SharesIn(type, items) \in Amounts /\ FeesIn(type, items) \in Amounts
      /\ TaxesIn(type, items) \in Amounts
  BY <1>3, ReadsAmounts
<1>5. type \in Untyped
  BY <1>2, InferredTypes
<1>6. ValueOf(te) \in Amounts
  BY FileParsed
<1>7. QED
  BY <1>1, <1>4, <1>5, <1>6

LEMMA CashIsNumber ==
  ASSUME NEW rows, AreRows(rows)
  PROVE  CashIn(rows) \in Int
<1>1. Len(rows) \in Nat /\ DOMAIN rows = 1 .. Len(rows) /\ \A i \in DOMAIN rows : IsRow(rows[i])
  BY DEF AreRows, IsList
<1>2. PICK p : AddsUp(p, Len(rows), rows)
  BY <1>1, SumOfRows
<1>3. QED
  BY <1>1, <1>2 DEF AddsUp

LEMMA TwoMore ==
  ASSUME NEW X, NEW s \in Seq(X), NEW a, NEW b
  PROVE  (s \o <<a>>) \o <<b>> = s \o <<a, b>>
<1> DEFINE Y == X \cup {a, b}
<1>1. s \in Seq(Y) /\ a \in Y /\ b \in Y
  OBVIOUS
<1> HIDE DEF Y
<1>2. <<a>> \in Seq(Y) /\ <<b>> \in Seq(Y) /\ <<a, b>> \in Seq(Y)
  BY <1>1
<1> DEFINE l == (s \o <<a>>) \o <<b>>
           r == s \o <<a, b>>
           n == Len(s) + 2
<1>3. n \in Nat /\ l \in [1 .. n -> Y] /\ r \in [1 .. n -> Y]
  <2>1. l \in Seq(Y) /\ r \in Seq(Y)
    BY <1>1, <1>2
  <2>2. Len(l) = n /\ Len(r) = n /\ n \in Nat
    BY <1>1, <1>2
  <2> HIDE DEF l, r, n
  <2> QED BY <2>1, <2>2
<1>4. ASSUME NEW i \in 1 .. n PROVE l[i] = r[i]
  <2> DEFINE t == s \o <<a>>
             m == Len(s)
  <2>1. t \in Seq(Y) /\ Len(t) = m + 1 /\ t[m + 1] = a /\ \A j \in 1 .. m : t[j] = s[j]
    BY <1>1, <1>2
  <2>2. l = t \o <<b>> /\ m \in Nat
    OBVIOUS
  <2> HIDE DEF t, l
  <2>3. l[m + 2] = b /\ \A j \in 1 .. m + 1 : l[j] = t[j]
    BY <1>2, <2>1, <2>2
  <2>4. r[m + 1] = a /\ r[m + 2] = b /\ \A j \in 1 .. m : r[j] = s[j]
    BY <1>1, <1>2
  <2> HIDE DEF r
  <2>5. i \in 1 .. m \/ i = m + 1 \/ i = m + 2
    BY <2>2
  <2> QED BY <2>1, <2>2, <2>3, <2>4, <2>5
<1> HIDE DEF l, r, n
<1>5. l = r
  BY <1>3, <1>4
<1>6. QED
  BY <1>5 DEF l, r

\* The rows of a file have their types and add the cash of its event, nothing if it
\* is a saveback.
LEMMA FileRows ==
  ASSUME NEW f, f.event \in Events, IsTyped(f)
  PROVE  /\ ParsedIn(f).type \in ParsedTypes
         /\ AreRows(EventToRows(ParsedIn(f)))
         /\ CashOfFile(f) \in Int
         /\ \A rows : AreRows(rows) =>
                CashIn(rows \o EventToRows(ParsedIn(f))) = CashIn(rows) + CashOfFile(f)
<1> DEFINE event == ParsedIn(f)
           type == InferEventType(f.event, SectionsOf(f))
           value == ValueOf(f.event)
<1>1. event.type = type /\ event.value = value
  BY ParsedAmounts
<1>2. event.value \in Amounts /\ event.shares \in Amounts /\ event.fees \in Amounts /\ event.taxes \in Amounts
  BY ParsedAmounts
<1>3. event.type \in ParsedTypes
  <2>1. event.type \in Untyped
    BY ParsedAmounts
  <2> QED BY <1>1, <2>1 DEF Untyped, IsTyped
<1> HIDE DEF event, type, value
<1>4. ASSUME NEW t \in RowTypes
      PROVE  LET row == Row(event, t, event.value) IN
             IsRow(row) /\ row.value = FormatFloat(value) /\ row.value \in Amounts
  <2> DEFINE row == Row(event, t, event.value)
  <2>1. /\ row.type = t /\ row.value = FormatFloat(value) /\ row.shares = FormatFloat(event.shares)
        /\ row.fees = FormatFloat(NegateFloat(event.fees)) /\ row.taxes = FormatFloat(NegateFloat(event.taxes))
    BY <1>1 DEF Row
  <2> HIDE DEF row
  <2>2. /\ FormatFloat(value) \in Amounts /\ FormatFloat(event.shares) \in Amounts
        /\ FormatFloat(NegateFloat(event.fees)) \in Amounts /\ FormatFloat(NegateFloat(event.taxes)) \in Amounts
    BY <1>1, <1>2, CellsAreAmounts
  <2>3. IsRow(row) /\ row.value = FormatFloat(value) /\ row.value \in Amounts
    BY <2>1, <2>2, RowTyped
  <2> QED BY <2>3 DEF row
<1>5. Number(FormatFloat(value)) \in Int
  BY <1>1, <1>2, CellsAreAmounts, AmountIsShort
<1>6. ASSUME NEW a, IsRow(a) PROVE AreRows(<<a>>)
  <2>1. <<a>> \in Seq({a})
    OBVIOUS
  <2>2. IsList(<<a>>)
    BY <2>1, OwnList
  <2> QED BY <1>6, <2>2 DEF AreRows
<1>7. CASE type = "SAVEBACK"
  <2> DEFINE a == Row(event, "BUY", event.value)
             b == DepositRow(event)
  <2>1. IsRow(a) /\ a.value = FormatFloat(value)
    BY <1>4 DEF RowTypes, ParsedTypes
  <2>2. /\ b.type = "DEPOSIT" /\ b.value = FormatFloat(NegateFloat(value))
        /\ b.shares = <<>> /\ b.fees = <<>> /\ b.taxes = <<>>
    BY <1>1 DEF DepositRow, Row
  <2>3. FormatFloat(NegateFloat(value)) = NegateFloat(FormatFloat(value))
    BY <1>1, <1>2, RoundingIsSymmetric
  <2>4. FormatFloat(value) \in Amounts /\ <<>> \in Amounts
    BY <1>1, <1>2, CellsAreAmounts DEF Amounts
  <2>5. NegateFloat(FormatFloat(value)) \in Amounts /\ "DEPOSIT" \in RowTypes
    BY <2>4, CellsAreAmounts DEF RowTypes, ParsedTypes
  <2>6. EventToRows(event) = <<a, b>>
    BY <1>1, <1>7 DEF EventToRows
  <2>7. CashOfFile(f) = 0
    BY <1>7 DEF CashOfFile, type
  <2> HIDE DEF a, b
  <2>8. IsRow(b) /\ Number(b.value) = -Number(a.value) /\ Number(a.value) \in Int
    BY <1>5, <2>1, <2>2, <2>3, <2>4, <2>5, RowTyped, CellsAreAmounts
  <2>9. AreRows(<<a, b>>)
    <3>1. <<a, b>> \in Seq({a, b})
      OBVIOUS
    <3>2. IsList(<<a, b>>)
      BY <3>1, OwnList
    <3> QED BY <2>1, <2>8, <3>2 DEF AreRows
  <2>10. ASSUME NEW rows, AreRows(rows) PROVE CashIn(rows \o <<a, b>>) = CashIn(rows)
    <3> DEFINE more == rows \o <<a>>
    <3>1. AreRows(more) /\ CashIn(more) = CashIn(rows) + Number(a.value)
      BY <1>6, <2>1, <2>10, MoreRows, CashAdds
    <3>2. CashIn(more \o <<b>>) = CashIn(more) + Number(b.value)
      <4> HIDE DEF more
      <4> QED BY <2>8, <3>1, CashAdds
    <3>3. more \o <<b>> = rows \o <<a, b>>
      BY <2>10, TwoMore DEF AreRows, IsList
    <3>4. CashIn(rows) \in Int
      BY <2>10, CashIsNumber
    <3>5. \A x, y, z \in Int : z = -y => (x + y) + z = x
      OBVIOUS
    <3> HIDE DEF more
    <3> DEFINE x == CashIn(rows)
               y == Number(a.value)
               z == Number(b.value)
    <3>6. CashIn(rows \o <<a, b>>) = (x + y) + z
      BY <3>1, <3>2, <3>3, Zenon
    <3>7. x \in Int /\ y \in Int /\ z = -y
      BY <2>8, <3>4
    <3>8. z \in Int
      BY <3>7
    <3> HIDE DEF x, y, z
    <3>9. (x + y) + z = x
      BY <3>5, <3>7, <3>8
    <3> QED BY <3>6, <3>9 DEF x
  <2>11. \A rows : AreRows(rows) => CashIn(rows \o <<a, b>>) = CashIn(rows) + CashOfFile(f)
    <3> SUFFICES ASSUME NEW rows, AreRows(rows) PROVE CashIn(rows \o <<a, b>>) = CashIn(rows) + CashOfFile(f)
      OBVIOUS
    <3>1. CashIn(rows) \in Int
      BY CashIsNumber
    <3>2. \A x \in Int : x + 0 = x
      OBVIOUS
    <3> QED BY <2>7, <2>10, <3>1, <3>2
  <2>12. event.type \in ParsedTypes /\ CashOfFile(f) \in Int
    <3>1. CashOfFile(f) \in Int
      BY <2>7
    <3> QED BY <1>3, <3>1
  <2> QED BY <2>6, <2>9, <2>11, <2>12 DEF event
<1>8. CASE type # "SAVEBACK"
  <2> DEFINE t == GetTransactionType(event)
             a == Row(event, t, event.value)
  <2>1. t \in RowTypes
    BY <1>1, <1>3, <1>8 DEF GetTransactionType, RowTypes, ParsedTypes
  <2>2. IsRow(a) /\ a.value = FormatFloat(value)
    BY <1>4, <2>1
  <2>3. EventToRows(event) = <<a>>
    BY <1>1, <1>8 DEF EventToRows
  <2>4. CashOfFile(f) = Number(a.value)
    BY <1>8, <2>2 DEF CashOfFile, type, value
  <2> HIDE DEF a
  <2>5. AreRows(<<a>>) /\ CashOfFile(f) \in Int
    BY <1>5, <1>6, <2>2, <2>4
  <2>6. \A rows : AreRows(rows) => CashIn(rows \o <<a>>) = CashIn(rows) + CashOfFile(f)
    BY <2>2, <2>4, CashAdds
  <2> QED BY <1>3, <2>3, <2>5, <2>6 DEF event
<1>9. QED
  BY <1>7, <1>8

---------------------------------------------------------------------------
(* Event files in order                                                    *)

FilesTyped == file \in [Dir -> [event : Events, lost : BOOLEAN] \cup {NoFile}]

\* Fit to be written.
Fine(d) == file[d].event \in Events /\ IsTyped(file[d])

LEMMA ListedAreFine ==
  ASSUME FilesTyped, \A d \in Readable : ~FailsIn(d), NEW d \in Listed
  PROVE  d \in Dir /\ Fine(d)
<1>1. d \in Readable /\ ~SkippedIn(d)
  BY DEF Listed
<1>2. d \in Dir /\ file[d] # NoFile
  BY <1>1 DEF Readable
<1>3. file[d].event \in Events
  BY <1>2 DEF FilesTyped
<1>4. IsTyped(file[d])
  BY <1>1 DEF FailsIn, Fails, SkippedIn, IsTyped
<1>5. QED
  BY <1>2, <1>3, <1>4 DEF Fine

\* An order has every listed file once.
Lines(order, n) ==
    /\ n \in Nat /\ order \in [1 .. n -> Listed] /\ n = Len(order)
    /\ \A i, j \in 1 .. n : order[i] = order[j] => i = j
    /\ {order[i] : i \in 1 .. n} = Listed

\* As many places as files, no file twice: every file is there.
LEMMA OrdersAreLines ==
  ASSUME NEW byDate, NEW order \in Orders(byDate)
  PROVE  Lines(order, Len(order))
<1> DEFINE n == Cardinality(Listed)
<1>1. IsFiniteSet(Listed) /\ n \in Nat
  <2>1. IsFiniteSet(Dir) /\ Listed \subseteq Dir
    BY ExportAssumption, FS_Interval DEF Dir, Listed, Readable
  <2> QED BY <2>1, FS_Subset, FS_CardinalityType
<1>2. order \in [1 .. n -> Listed] /\ \A i, j \in 1 .. n : i # j => order[i] # order[j]
  BY DEF Orders, SetToSeqs
<1>3. Len(order) = n
  <2> HIDE DEF n
  <2> QED BY <1>1, <1>2
<1>4. {order[i] : i \in 1 .. n} = Listed
  <2>1. order \in Injection(1 .. n, Listed)
    BY <1>2 DEF Injection, IsInjective
  <2>2. IsFiniteSet(1 .. n) /\ Cardinality(1 .. n) = n
    BY <1>1, FS_Interval
  <2>3. order \in Surjection(1 .. n, Listed)
    BY <1>1, <2>1, <2>2, FS_Injection
  <2> QED BY <1>2, <2>3 DEF Surjection
<1>5. QED
  <2> HIDE DEF n
  <2> QED BY <1>1, <1>2, <1>3, <1>4 DEF Lines

\* The rows wanted of the first k files.
WantedTo(order, k) == FlattenSeq([i \in 1 .. k |-> Wanted(file[order[i]])])

\* g has the sum of the cash of every set of files.
Weighs(g) ==
    /\ g \in [SUBSET Dir -> Int] /\ g[{}] = 0
    /\ \A U \in SUBSET Dir : \A d \in Dir \ U :
           g[U \cup {d}] = (IF d \in Listed THEN CashOf(d) ELSE 0) + g[U]

\* These are the rows of the first k files of an order, and this is their cash.
Written(rows, order, k) ==
    /\ AreRows(rows) /\ ShownRows(rows) = WantedTo(order, k)
    /\ \A g : Weighs(g) => CashIn(rows) = g[{order[i] : i \in 1 .. k}]

LEMMA WantedIsList ==
  ASSUME NEW f, f.event \in Events, IsTyped(f)
  PROVE  Wanted(f) \in Seq(Range(Wanted(f)))
<1> DEFINE rows == EventToRows(ParsedIn(f))
           m == Len(rows)
<1>1. rows \in Seq(Range(rows))
  BY FileRows DEF AreRows, IsList
<1>2. m \in Nat /\ DOMAIN rows = 1 .. m
  BY <1>1
<1>3. Wanted(f) = [i \in 1 .. m |-> Shown(rows[i])]
  BY <1>2, RowsAreWanted DEF ShownRows
<1> HIDE DEF rows, m
<1> DEFINE s == [i \in 1 .. m |-> Shown(rows[i])]
           X == {Shown(rows[i]) : i \in 1 .. m}
<1>4. s \in Seq(X)
  <2>1. s \in [1 .. m -> X]
    OBVIOUS
  <2> HIDE DEF s, X
  <2> QED BY <1>2, <2>1
<1>5. IsList(s)
  <2> HIDE DEF s, X
  <2> QED BY <1>4, OwnList
<1>6. QED
  BY <1>3, <1>5 DEF IsList

LEMMA WantedJoins ==
  ASSUME NEW n \in Nat, NEW order, \A i \in 1 .. n : Fine(order[i]), NEW k \in 1 .. n
  PROVE  WantedTo(order, k) = WantedTo(order, k - 1) \o Wanted(file[order[k]])
<1> DEFINE W == [i \in 1 .. n |-> Wanted(file[order[i]])]
           X == UNION {Range(W[i]) : i \in 1 .. n}
<1>1. Lists(W, n, X)
  <2>1. ASSUME NEW i \in 1 .. n PROVE W[i] \in Seq(X)
    <3> DEFINE R == Range(W[i])
               s == W[i]
    <3>1. s \in Seq(R) /\ R \subseteq X
      BY WantedIsList DEF Fine
    <3> HIDE DEF s, R, X
    <3>2. s \in Seq(X)
      BY <3>1
    <3> QED BY <3>2 DEF s
  <2>2. W \in [1 .. n -> Seq(X)]
    <3> HIDE DEF X
    <3> QED BY <2>1
  <2> HIDE DEF W, X
  <2> QED BY <2>2 DEF Lists
<1>2. \A j \in 0 .. n : WantedTo(order, j) = FlattenSeq([i \in 1 .. j |-> W[i]])
  <2> SUFFICES ASSUME NEW j \in 0 .. n PROVE WantedTo(order, j) = FlattenSeq([i \in 1 .. j |-> W[i]])
    OBVIOUS
  <2>1. [i \in 1 .. j |-> W[i]] = [i \in 1 .. j |-> Wanted(file[order[i]])]
    OBVIOUS
  <2> QED BY <2>1 DEF WantedTo
<1>3. W[k] = Wanted(file[order[k]])
  OBVIOUS
<1> HIDE DEF W, X
<1>4. PICK p : Joins(p, W, n, X)
  BY <1>1, FlattenJoins
<1>5. k - 1 \in 0 .. n /\ k \in 0 .. n
  OBVIOUS
<1>6. p[k] = p[k - 1] \o W[k] /\ WantedTo(order, k) = p[k] /\ WantedTo(order, k - 1) = p[k - 1]
  BY <1>2, <1>4, <1>5 DEF Joins
<1>7. QED
  BY <1>3, <1>6

LEMMA ShownJoins ==
  ASSUME NEW rows, AreRows(rows), NEW more, AreRows(more)
  PROVE  ShownRows(rows \o more) = ShownRows(rows) \o ShownRows(more)
<1> DEFINE all == rows \o more
           n == Len(rows)
           m == Len(more)
           a == ShownRows(rows)
           b == ShownRows(more)
           X == {Shown(rows[i]) : i \in 1 .. n} \cup {Shown(more[i]) : i \in 1 .. m}
<1>1. n \in Nat /\ m \in Nat /\ DOMAIN rows = 1 .. n /\ DOMAIN more = 1 .. m
  BY DEF AreRows, IsList
<1>2. /\ DOMAIN all = 1 .. n + m
      /\ \A i \in 1 .. n : all[i] = rows[i]
      /\ \A i \in 1 .. m : all[n + i] = more[i]
  BY DEF AreRows, IsList
<1>3. a \in [1 .. n -> X] /\ b \in [1 .. m -> X]
  BY <1>1 DEF ShownRows
<1>4. /\ \A i \in 1 .. n : a[i] = Shown(rows[i])
      /\ \A i \in 1 .. m : b[i] = Shown(more[i])
  BY <1>1 DEF ShownRows
<1>5. /\ ShownRows(all) = [i \in 1 .. n + m |-> Shown(all[i])]
  BY <1>2 DEF ShownRows
<1> HIDE DEF all, n, m, a, b, X
<1>6. a \in Seq(X) /\ b \in Seq(X) /\ Len(a) = n /\ Len(b) = m
  BY <1>1, <1>3
<1> DEFINE ab == a \o b
<1>7. /\ ab \in [1 .. n + m -> X]
      /\ \A i \in 1 .. n : ab[i] = a[i]
      /\ \A i \in 1 .. m : ab[n + i] = b[i]
  <2>1. ab \in Seq(X) /\ Len(ab) = n + m
    BY <1>6
  <2>2. ab \in [1 .. n + m -> X]
    <3> HIDE DEF ab
    <3> QED BY <1>1, <2>1
  <2> QED BY <1>1, <1>6, <2>2
<1> HIDE DEF ab
<1>8. ASSUME NEW i \in 1 .. n + m PROVE ab[i] = Shown(all[i])
  <2>1. CASE i \in 1 .. n
    BY <1>2, <1>4, <1>7, <2>1 DEF all, n, m
  <2>2. CASE i \notin 1 .. n
    <3>1. PICK j \in 1 .. m : i = n + j
      <4>1. i - n \in 1 .. m /\ i = n + (i - n)
        BY <1>1, <2>2
      <4> QED BY <4>1
    <3> QED BY <1>2, <1>4, <1>7, <3>1 DEF all, n, m
  <2> QED BY <2>1, <2>2
<1>9. ab = [i \in 1 .. n + m |-> Shown(all[i])]
  BY <1>7, <1>8
<1>10. QED
  BY <1>5, <1>9 DEF all, a, b, ab

\* WriteRows: the rows of the next file.
LEMMA WriteNext ==
  ASSUME NEW order, NEW n, Lines(order, n), Listed \subseteq Dir, \A d \in Listed : Fine(d),
         NEW k \in 1 .. n, NEW rows, Written(rows, order, k - 1)
  PROVE  Written(rows \o EventToRows(ParsedIn(file[order[k]])), order, k)
<1> DEFINE d == order[k]
           more == EventToRows(ParsedIn(file[d]))
           earlier == {order[i] : i \in 1 .. k - 1}
<1>1. n \in Nat /\ (\A i \in 1 .. n : order[i] \in Listed) /\ \A i, j \in 1 .. n : order[i] = order[j] => i = j
  BY DEF Lines
<1>2. d \in Listed /\ d \in Dir /\ Fine(d)
  BY <1>1
<1>3. /\ AreRows(more) /\ CashOfFile(file[d]) \in Int
      /\ \A r : AreRows(r) => CashIn(r \o more) = CashIn(r) + CashOfFile(file[d])
  BY <1>2, FileRows DEF Fine
<1>4. ShownRows(more) = Wanted(file[d])
  BY <1>2, RowsAreWanted DEF Fine
<1>5. CashOf(d) = CashOfFile(file[d])
  BY DEF CashOf, CashOfFile
<1>6. earlier \in SUBSET Dir /\ d \notin earlier /\ {order[i] : i \in 1 .. k} = earlier \cup {d}
  <2>1. \A i \in 1 .. k - 1 : i \in 1 .. n /\ i \in 1 .. k /\ i # k
    BY <1>1
  <2>2. \A i \in 1 .. k : i = k \/ i \in 1 .. k - 1
    OBVIOUS
  <2>3. k \in 1 .. k /\ k \in 1 .. n
    BY <1>1
  <2> QED BY <1>1, <2>1, <2>2, <2>3
<1> HIDE DEF more, earlier
<1>7. AreRows(rows \o more)
  BY <1>3, MoreRows DEF Written
<1>8. ShownRows(rows \o more) = WantedTo(order, k)
  <2>1. ShownRows(rows \o more) = ShownRows(rows) \o ShownRows(more)
    BY <1>3, ShownJoins DEF Written
  <2>2. \A i \in 1 .. n : Fine(order[i])
    BY <1>1
  <2>3. WantedTo(order, k) = WantedTo(order, k - 1) \o Wanted(file[d])
    BY <1>1, <2>2, WantedJoins
  <2> QED BY <1>4, <2>1, <2>3 DEF Written
<1>9. ASSUME NEW g, Weighs(g) PROVE CashIn(rows \o more) = g[{order[i] : i \in 1 .. k}]
  <2>1. CashIn(rows) = g[earlier] /\ g[earlier] \in Int
    BY <1>6, <1>9 DEF Written, earlier, Weighs
  <2>2. g[earlier \cup {d}] = CashOf(d) + g[earlier]
    BY <1>2, <1>6, <1>9 DEF Weighs
  <2>3. CashIn(rows \o more) = CashIn(rows) + CashOf(d)
    BY <1>3, <1>5 DEF Written
  <2>4. CashOf(d) \in Int
    BY <1>3, <1>5
  <2> DEFINE x == CashIn(rows)
             y == CashOf(d)
  <2>5. x + y = y + x
    <3>1. x \in Int /\ y \in Int
      BY <2>1, <2>4
    <3> HIDE DEF x, y
    <3> QED BY <3>1
  <2> QED BY <1>6, <2>1, <2>2, <2>3, <2>5, Zenon
<1>10. QED
  BY <1>7, <1>8, <1>9 DEF Written, more

\* The sum of MapThenSumSet is the one taken file by file.
LEMMA CashTotal ==
  ASSUME Listed \subseteq Dir, \A d \in Listed : Fine(d)
  PROVE  \E g : Weighs(g) /\ MapThenSumSet(CashOf, Listed) = g[Listed]
<1> DEFINE w == [d \in 1 .. Files |-> IF d \in Listed THEN CashOf(d) ELSE 0]
           pick(s) == CHOOSE x \in s : TRUE
           Solves(f) == f = [s \in SUBSET Listed |->
                                IF s = {} THEN 0 ELSE CashOf(pick(s)) + f[s \ {pick(s)}]]
           h == CHOOSE f : Solves(f)
<1>1. MapThenSumSet(CashOf, Listed) = h[Listed]
  BY DEF MapThenSumSet, MapThenFoldSet
<1>2. w \in [1 .. Files -> Int]
  <2>1. \A d \in Listed : CashOf(d) \in Int
    BY FileRows DEF Fine, CashOf, CashOfFile
  <2> QED BY <2>1
<1>3. Files \in Nat /\ Dir = 1 .. Files
  BY ExportAssumption DEF Dir
<1>4. \A d \in Dir : w[d] = IF d \in Listed THEN CashOf(d) ELSE 0
  BY <1>3
<1> HIDE DEF w
<1>5. PICK g : Totals(g, Files, w)
  BY <1>2, <1>3, SumsExist
<1>6. Weighs(g)
  BY <1>3, <1>4, <1>5 DEF Weighs, Totals
<1>7. \A U \in SUBSET Listed : U # {} => pick(U) \in U
  OBVIOUS
<1> HIDE DEF pick
<1>8. \A U \in SUBSET Listed : U # {} => g[U] = CashOf(pick(U)) + g[U \ {pick(U)}]
  <2> SUFFICES ASSUME NEW U \in SUBSET Listed, U # {}
               PROVE  g[U] = CashOf(pick(U)) + g[U \ {pick(U)}]
    OBVIOUS
  <2> DEFINE x == pick(U)
             V == U \ {x}
  <2>1. x \in Listed /\ x \in Dir /\ V \in SUBSET Dir /\ x \notin V /\ U = V \cup {x}
    BY <1>7
  <2> HIDE DEF x, V
  <2>2. g[V \cup {x}] = w[x] + g[V]
    BY <1>3, <1>5, <2>1 DEF Totals
  <2>3. w[x] = CashOf(x)
    BY <1>4, <2>1
  <2> QED BY <2>1, <2>2, <2>3 DEF x, V
<1>9. Solves(h)
  <2> DEFINE f == [s \in SUBSET Listed |-> g[s]]
  <2>1. f = [s \in SUBSET Listed |-> IF s = {} THEN 0 ELSE CashOf(pick(s)) + f[s \ {pick(s)}]]
    BY <1>5, <1>8 DEF Totals
  <2>2. Solves(f)
    <3> HIDE DEF f
    <3> QED BY <2>1
  <2> HIDE DEF Solves
  <2> QED BY <2>2
<1> HIDE DEF h
<1>10. h[{}] = 0
  BY <1>9
<1>11. \A U \in SUBSET Listed : U # {} => \E x \in U : h[U] = w[x] + h[U \ {x}]
  <2> SUFFICES ASSUME NEW U \in SUBSET Listed, U # {} PROVE \E x \in U : h[U] = w[x] + h[U \ {x}]
    OBVIOUS
  <2>1. h[U] = CashOf(pick(U)) + h[U \ {pick(U)}]
    BY <1>9
  <2>2. pick(U) \in U /\ w[pick(U)] = CashOf(pick(U))
    BY <1>4, <1>7
  <2> QED BY <2>1, <2>2
<1> HIDE DEF Solves
<1>12. Counts(h, Listed, w)
  BY <1>10, <1>11 DEF Counts
<1>13. h[Listed] = g[Listed]
  BY <1>3, <1>5, <1>12, SumsAreOne
<1>14. QED
  BY <1>1, <1>6, <1>13

\* The parsed events after the first k.
ParsedFrom(order, k) == [i \in 1 .. Len(order) - k |-> ParsedIn(file[order[i + k]])]

\* runExport has written the first k files of the order.
Halfway(order, k) ==
    /\ todo = ParsedFrom(order, k)
    /\ pc = "create" => k = 0
    /\ pc = "write" => Written(csv.rows, order, k)

Shaped ==
    /\ FilesTyped /\ unread \subseteq Dir
    /\ csv = [state |-> csv.state, rows |-> csv.rows]
    /\ csv.state \in {"none", "torn", "whole"} /\ AreRows(csv.rows)
    /\ pc \in {"idle", "create", "write"} /\ sorted \in BOOLEAN
    /\ result \in {"none", "ok", "refused"}
    /\ pc = "idle" => todo = <<>>

\* A run under way is halfway through an order of the listed files.
Going == pc # "idle" => \E order \in Orders(sorted) : \E k \in 0 .. Len(order) : Halfway(order, k)

\* A run that ended well has written them all.
Ended == result = "ok" => /\ csv.state = "whole"
                          /\ \E order \in Orders(sorted) : Written(csv.rows, order, Len(order))

\* While no file changes, nothing that is read from files does.
LEMMA SameFiles ==
  ASSUME UNCHANGED <<file, unread>>
  PROVE  /\ Listed' = Listed /\ Readable' = Readable
         /\ \A order, k : ParsedFrom(order, k)' = ParsedFrom(order, k)
         /\ \A order, k : WantedTo(order, k)' = WantedTo(order, k)
         /\ \A g : Weighs(g)' <=> Weighs(g)
<1>1. Listed' = Listed /\ Readable' = Readable
  BY DEF Listed, Readable, SkippedIn, FailsIn
<1>2. \A d : CashOf(d)' = CashOf(d)
  BY DEF CashOf
<1>3. \A g : Weighs(g)' <=> Weighs(g)
  BY <1>1, <1>2 DEF Weighs
<1>4. QED
  BY <1>1, <1>3 DEF ParsedFrom, WantedTo

LEMMA SameOrders ==
  ASSUME UNCHANGED <<file, unread>>
  PROVE  \A b : b = sorted' => Orders(sorted)' = Orders(b)
  BY SameFiles DEF Orders, DateOf

LEMMA SameWritten ==
  ASSUME UNCHANGED <<file, unread>>, NEW rows, csv'.rows = rows, NEW order, NEW k
  PROVE  Written(csv.rows, order, k)' <=> Written(rows, order, k)
  BY SameFiles DEF Written

---------------------------------------------------------------------------
(* The CSV file                                                            *)

\* The inductive invariant.
ExportInv == Shaped /\ Underway /\ AllParsed /\ Going /\ Ended

\* Once everything has been parsed, every listed file is fit to be written.
LEMMA ListedFit ==
  ASSUME FilesTyped, AllParsed, pc # "idle" \/ result = "ok"
  PROVE  Listed \subseteq Dir /\ \A d \in Listed : Fine(d)
  BY ListedAreFine DEF AllParsed

LEMMA NothingWritten ==
  ASSUME NEW order
  PROVE  Written(<<>>, order, 0)
<1>1. ShownRows(<<>>) = <<>>
  BY DEF ShownRows
<1>2. WantedTo(order, 0) = <<>>
  <2> DEFINE W == [i \in 1 .. 0 |-> Wanted(file[order[i]])]
  <2>1. Lists(W, 0, {})
    BY DEF Lists
  <2>2. [i \in 1 .. 0 |-> W[i]] = W
    OBVIOUS
  <2> HIDE DEF W
  <2>3. PICK p : Joins(p, W, 0, {})
    BY <2>1, FlattenJoins
  <2>4. FlattenSeq(W) = <<>>
    BY <2>3 DEF Joins
  <2> QED BY <2>4 DEF W, WantedTo
<1>3. {order[i] : i \in 1 .. 0} = {}
  OBVIOUS
<1>4. QED
  BY <1>1, <1>2, <1>3, NoRows, CashInNoRows DEF Written, Weighs

\* Each action keeps the invariant.
LEMMA LoadInv ==
  ASSUME ExportInv, Load
  PROVE  Shaped' /\ Going' /\ Ended'
<1> USE DEF Load
<1>1. PICK byDate \in BOOLEAN : \E order \in Orders(byDate) :
          /\ sorted' = byDate
          /\ todo' = [i \in DOMAIN order |-> ParsedEvent(file[order[i]].event, SectionsOf(file[order[i]]))]
  OBVIOUS
<1>2. PICK order \in Orders(byDate) :
          /\ sorted' = byDate
          /\ todo' = [i \in DOMAIN order |-> ParsedEvent(file[order[i]].event, SectionsOf(file[order[i]]))]
  BY <1>1
<1>3. Lines(order, Len(order))
  BY OrdersAreLines
<1>4. DOMAIN order = 1 .. Len(order) /\ Len(order) \in Nat
  BY <1>3 DEF Lines
<1>5. todo' = ParsedFrom(order, 0)
  BY <1>2, <1>4 DEF ParsedFrom, ParsedIn
<1>6. Orders(sorted)' = Orders(byDate)
  BY <1>2, SameOrders
<1>7. Halfway(order, 0)'
  BY <1>5, SameFiles DEF Halfway
<1>8. Going'
  <2>1. 0 \in 0 .. Len(order)
    BY <1>4
  <2> QED BY <1>6, <1>7, <2>1 DEF Going
<1>9. Shaped'
  BY <1>1 DEF ExportInv, Shaped, FilesTyped
<1>10. Ended'
  BY DEF Ended
<1>11. QED
  BY <1>8, <1>9, <1>10

LEMMA CreateInv ==
  ASSUME ExportInv, Create
  PROVE  Shaped' /\ Going' /\ Ended'
<1> USE DEF Create
<1>1. csv' = [state |-> "torn", rows |-> <<>>] /\ csv'.rows = <<>>
  BY DEF Created
<1>2. PICK order \in Orders(sorted) : \E k \in 0 .. Len(order) : Halfway(order, k)
  BY DEF ExportInv, Going
<1>3. Halfway(order, 0) /\ 0 \in 0 .. Len(order)
  BY <1>2, OrdersAreLines DEF Halfway, Lines
<1>4. Orders(sorted)' = Orders(sorted)
  BY SameOrders
<1>5. Written(csv.rows, order, 0)'
  BY <1>1, NothingWritten, SameWritten
<1>6. Halfway(order, 0)'
  BY <1>3, <1>5, SameFiles DEF Halfway
<1>7. Going'
  BY <1>3, <1>4, <1>6 DEF Going
<1>8. Shaped'
  BY <1>1, NoRows DEF ExportInv, Shaped, FilesTyped
<1>9. Ended'
  BY DEF Ended, ExportInv, Underway
<1>10. QED
  BY <1>7, <1>8, <1>9

LEMMA HeadAndTail ==
  ASSUME NEW X, NEW s \in Seq(X), NEW m, m = Len(s), m > 0
  PROVE  Head(s) = s[1] /\ Tail(s) = [i \in 1 .. m - 1 |-> s[i + 1]]
<1>1. Head(s) = s[1]
  OBVIOUS
<1>2. Tail(s) = [i \in 1 .. m - 1 |-> s[i + 1]]
  <2>1. Tail(s) \in Seq(X) /\ Len(Tail(s)) = m - 1 /\ m \in Nat
    OBVIOUS
  <2>2. \A i \in 1 .. m - 1 : Tail(s)[i] = s[i + 1]
    OBVIOUS
  <2> DEFINE t == Tail(s)
  <2>3. t \in [1 .. m - 1 -> X]
    <3>1. t \in Seq(X) /\ Len(t) = m - 1 /\ m \in Nat
      BY <2>1
    <3> HIDE DEF t
    <3> QED BY <3>1
  <2>4. \A i \in 1 .. m - 1 : t[i] = s[i + 1]
    BY <2>2
  <2> HIDE DEF t
  <2>5. t = [i \in 1 .. m - 1 |-> s[i + 1]]
    BY <2>3, <2>4
  <2> QED BY <2>5 DEF t
<1>3. QED
  BY <1>1, <1>2

LEMMA WriteInv ==
  ASSUME ExportInv, WriteRows
  PROVE  Shaped' /\ Going' /\ Ended'
<1> USE DEF WriteRows
<1>0. PICK order \in Orders(sorted) : \E k \in 0 .. Len(order) : Halfway(order, k)
  BY DEF ExportInv, Going
<1>1. PICK k \in 0 .. Len(order) : Halfway(order, k)
  BY <1>0
<1> DEFINE n == Len(order)
           f == file[order[k + 1]]
           rows == csv.rows \o EventToRows(ParsedIn(f))
<1>2. Lines(order, n) /\ n \in Nat
  BY OrdersAreLines DEF Lines
<1>3. todo = ParsedFrom(order, k) /\ Written(csv.rows, order, k)
  BY <1>1 DEF Halfway
<1>4. k + 1 \in 1 .. n /\ (k + 1) - 1 = k
  BY <1>1, <1>2, <1>3 DEF ParsedFrom
<1>5. Head(todo) = ParsedIn(f) /\ Tail(todo) = ParsedFrom(order, k + 1)
  <2> DEFINE X == {ParsedIn(file[order[i + k]]) : i \in 1 .. n - k}
  <2>1. n - k \in Nat /\ n - k > 0
    BY <1>2, <1>4
  <2>2. todo \in [1 .. n - k -> X] /\ \A i \in 1 .. n - k : todo[i] = ParsedIn(file[order[i + k]])
    BY <1>3 DEF ParsedFrom
  <2> HIDE DEF X, n
  <2>3. todo \in Seq(X) /\ Len(todo) = n - k
    BY <2>1, <2>2
  <2>4. Head(todo) = todo[1] /\ Tail(todo) = [i \in 1 .. (n - k) - 1 |-> todo[i + 1]]
    BY <2>1, <2>3, HeadAndTail
  <2>5. todo[1] = ParsedIn(f)
    <3>1. 1 + k = k + 1 /\ 1 \in 1 .. n - k
      BY <2>1
    <3> QED BY <2>2, <3>1
  <2>6. [i \in 1 .. (n - k) - 1 |-> todo[i + 1]] = ParsedFrom(order, k + 1)
    <3>1. (n - k) - 1 = n - (k + 1)
      BY <1>2
    <3>2. \A i \in 1 .. n - (k + 1) : i + 1 \in 1 .. n - k /\ (i + 1) + k = i + (k + 1)
      BY <1>2
    <3> QED BY <2>2, <3>1, <3>2 DEF ParsedFrom, n
  <2> QED BY <2>4, <2>5, <2>6
<1>6. csv' = [state |-> csv.state, rows |-> rows] /\ csv'.rows = rows /\ csv'.state = csv.state
  BY <1>5 DEF ExportInv, Shaped
<1>7. Listed \subseteq Dir /\ \A d \in Listed : Fine(d)
  BY ListedFit DEF ExportInv, Shaped
<1>8. Written(rows, order, k + 1)
  <2> HIDE DEF n
  <2> QED BY <1>2, <1>3, <1>4, <1>7, WriteNext
<1> HIDE DEF rows
<1>9. Written(csv.rows, order, k + 1)'
  BY <1>6, <1>8, SameWritten
<1>10. Halfway(order, k + 1)'
  BY <1>5, <1>9, SameFiles DEF Halfway
<1>11. Going'
  <2>1. Orders(sorted)' = Orders(sorted)
    BY SameOrders
  <2>2. k + 1 \in 0 .. Len(order)
    BY <1>2, <1>4
  <2> QED BY <1>10, <2>1, <2>2 DEF Going
<1>12. Shaped'
  BY <1>6, <1>8 DEF ExportInv, Shaped, FilesTyped, Written
<1>13. Ended'
  BY DEF Ended, ExportInv, Underway
<1>14. QED
  BY <1>11, <1>12, <1>13

LEMMA FinishInv ==
  ASSUME ExportInv, Finish
  PROVE  Shaped' /\ Going' /\ Ended'
<1> USE DEF Finish
<1>0. PICK order \in Orders(sorted) : \E k \in 0 .. Len(order) : Halfway(order, k)
  BY DEF ExportInv, Going
<1>1. PICK k \in 0 .. Len(order) : Halfway(order, k)
  BY <1>0
<1>2. Len(order) \in Nat
  BY OrdersAreLines DEF Lines
<1>3. todo = ParsedFrom(order, k) /\ Written(csv.rows, order, k)
  BY <1>1 DEF Halfway
<1>4. k = Len(order)
  <2> DEFINE n == Len(order)
  <2>1. ~(1 \in 1 .. n - k)
    BY <1>3 DEF ParsedFrom
  <2> HIDE DEF n
  <2> QED BY <1>2, <2>1 DEF n
<1>5. csv' = [state |-> "whole", rows |-> csv.rows] /\ csv'.rows = csv.rows /\ csv'.state = "whole"
  BY DEF ExportInv, Shaped
<1>6. Written(csv.rows, order, Len(order))'
  <2>1. Written(csv.rows, order, Len(order))
    BY <1>3, <1>4
  <2> QED BY <1>5, <2>1, SameWritten
<1>7. Orders(sorted)' = Orders(sorted)
  BY SameOrders
<1>8. Ended'
  BY <1>5, <1>6, <1>7 DEF Ended
<1>9. Shaped'
  BY <1>5 DEF ExportInv, Shaped, FilesTyped
<1>10. Going'
  BY DEF Going
<1>11. QED
  BY <1>8, <1>9, <1>10

LEMMA FetchInv ==
  ASSUME ExportInv, NEW d \in Dir, Fetch(d)
  PROVE  Shaped' /\ Going' /\ Ended'
<1>1. FilesTyped'
  <2>1. PICK e \in (IF file[d] = NoFile THEN Events ELSE {file[d].event}), lost \in BOOLEAN :
            file' = [file EXCEPT ![d] = [event |-> e, lost |-> lost]]
    BY DEF Fetch
  <2>2. e \in Events
    BY DEF ExportInv, Shaped, FilesTyped
  <2>3. [event |-> e, lost |-> lost] \in [event : Events, lost : BOOLEAN]
    BY <2>2
  <2> QED BY <2>1, <2>3 DEF ExportInv, Shaped, FilesTyped
<1>2. QED
  BY <1>1 DEF Fetch, Rest, ExportInv, Shaped, Going, Ended

LEMMA NextExport ==
  ASSUME ExportInv, [Next]_vars
  PROVE  ExportInv'
<1>1. Underway' /\ AllParsed'
  BY NextUnderway, NextParsed DEF ExportInv
<1>2. Shaped' /\ Going' /\ Ended'
  <2>1. CASE Refuse
    BY <2>1 DEF Refuse, Rest, ExportInv, Shaped, FilesTyped, Going, Ended
  <2>2. CASE Load
    BY <2>2, LoadInv
  <2>3. CASE Create
    BY <2>3, CreateInv
  <2>4. CASE CreateFails
    BY <2>4 DEF CreateFails, ExportInv, Shaped, FilesTyped, Going, Ended
  <2>5. CASE WriteRows
    BY <2>5, WriteInv
  <2>6. CASE Finish
    BY <2>6, FinishInv
  <2>7. CASE Cut
    BY <2>7 DEF Cut, Rest, ExportInv, Shaped, FilesTyped, Going, Ended
  <2>8. CASE \E d \in Dir : Fetch(d)
    BY <2>8, FetchInv
  <2>11. CASE Disk
    BY <2>11, ExportAssumption DEF Disk, Dir, Rest, ExportInv, Shaped, FilesTyped, Going, Ended
  <2>9. CASE UNCHANGED vars
    <3>1. UNCHANGED <<file, unread>> /\ csv' = csv /\ todo' = todo /\ pc' = pc /\ result' = result /\ sorted' = sorted
      BY <2>9 DEF vars
    <3>2. Shaped'
      BY <3>1 DEF ExportInv, Shaped, FilesTyped
    <3>3. Orders(sorted)' = Orders(sorted)
      BY <3>1, SameOrders
    <3>4. \A order, k : Written(csv.rows, order, k)' <=> Written(csv.rows, order, k)
      BY <3>1, SameWritten
    <3>5. \A order, k : Halfway(order, k)' <=> Halfway(order, k)
      BY <3>1, <3>4, SameFiles DEF Halfway
    <3>6. Going'
      BY <3>1, <3>3, <3>5 DEF ExportInv, Going
    <3>7. Ended'
      BY <3>1, <3>3, <3>4 DEF ExportInv, Ended
    <3> QED BY <3>2, <3>6, <3>7
  <2>10. QED
    BY <2>1, <2>2, <2>3, <2>4, <2>5, <2>6, <2>7, <2>8, <2>9, <2>11 DEF Next
<1>3. QED
  BY <1>1, <1>2 DEF ExportInv

LEMMA InitExport == Init => ExportInv
<1> SUFFICES ASSUME Init PROVE ExportInv
  OBVIOUS
<1>1. csv = [state |-> "none", rows |-> <<>>] /\ csv.state = "none" /\ csv.rows = <<>>
  BY DEF Init
<1>2. Shaped
  BY <1>1, NoRows DEF Init, Shaped, FilesTyped
<1>3. QED
  BY <1>2 DEF Init, ExportInv, Underway, RefusalKeepsCsv, AllParsed, Going, Ended

LEMMA ExportInvariant == Spec => []ExportInv
<1>1. Init => ExportInv
  BY InitExport
<1>2. ExportInv /\ [Next]_vars => ExportInv'
  BY NextExport
<1>3. QED
  BY <1>1, <1>2, PTL DEF Spec

\* The model's state has its types, those of the rows and of the parsed events.
THEOREM ExportTypeCorrect == Spec => []TypeOK
<1>1. ExportInv => TypeOK
  <2> SUFFICES ASSUME ExportInv PROVE TypeOK
    OBVIOUS
  <2>1. \A i \in DOMAIN todo : todo[i].type \in ParsedTypes
    <3>1. CASE pc = "idle"
      BY <3>1 DEF ExportInv, Shaped
    <3>2. CASE pc # "idle"
      <4>0. PICK order \in Orders(sorted) : \E k \in 0 .. Len(order) : Halfway(order, k)
        BY <3>2 DEF ExportInv, Going
      <4>1. PICK k \in 0 .. Len(order) : Halfway(order, k)
        BY <4>0
      <4>2. Lines(order, Len(order))
        BY OrdersAreLines
      <4>3. \A d \in Listed : Fine(d)
        BY <3>2, ListedFit DEF ExportInv, Shaped
      <4> SUFFICES ASSUME NEW i \in DOMAIN todo PROVE todo[i].type \in ParsedTypes
        OBVIOUS
      <4>4. todo[i] = ParsedIn(file[order[i + k]]) /\ i + k \in 1 .. Len(order)
        BY <4>1, <4>2 DEF Halfway, ParsedFrom, Lines
      <4>5. Fine(order[i + k])
        BY <4>2, <4>3, <4>4 DEF Lines
      <4> QED BY <4>4, <4>5, FileRows DEF Fine
    <3> QED BY <3>1, <3>2
  <2> QED BY <2>1 DEF ExportInv, Shaped, FilesTyped, AreRows, TypeOK
<1>2. QED
  BY <1>1, ExportInvariant, PTL

\* runExport, applyTradeDetail, eventToRows: the CSV file is the old one, or exactly
\* the rows of the listed events, one event after the other in the order asked for.
THEOREM ExportIsOldOrExact == Spec => []CsvIsOldOrExact
<1>1. ExportInv => CsvIsOldOrExact
  <2> SUFFICES ASSUME ExportInv PROVE RefusalKeepsCsv /\ SuccessIsExact
    BY DEF CsvIsOldOrExact
  <2>1. ASSUME result = "ok" PROVE /\ csv.state = "whole"
                                   /\ \E order \in Orders(sorted) :
                                          [i \in DOMAIN csv.rows |-> Shown(csv.rows[i])]
                                              = FlattenSeq([i \in DOMAIN order |-> Wanted(file[order[i]])])
    <3>1. csv.state = "whole"
      BY <2>1 DEF ExportInv, Ended
    <3>2. PICK order \in Orders(sorted) : Written(csv.rows, order, Len(order))
      BY <2>1 DEF ExportInv, Ended
    <3>3. DOMAIN order = 1 .. Len(order)
      BY OrdersAreLines DEF Lines
    <3> QED BY <3>1, <3>2, <3>3 DEF Written, ShownRows, WantedTo
  <2> QED BY <2>1 DEF SuccessIsExact, ExportInv, Underway
<1>2. QED
  BY <1>1, ExportInvariant, PTL

\* eventToRows, formatFloat: the values of the CSV add up to the amounts of the listed
\* events, those of savebacks left out.
THEOREM ExportBalances == Spec => []CashBalances
<1>1. ExportInv => CashBalances
  <2> SUFFICES ASSUME ExportInv, result = "ok" PROVE CashIn(csv.rows) = MapThenSumSet(CashOf, Listed)
    BY DEF CashBalances
  <2>1. Listed \subseteq Dir /\ \A d \in Listed : Fine(d)
    BY ListedFit DEF ExportInv, Shaped
  <2>2. PICK g : Weighs(g) /\ MapThenSumSet(CashOf, Listed) = g[Listed]
    BY <2>1, CashTotal
  <2>3. PICK order \in Orders(sorted) : Written(csv.rows, order, Len(order))
    BY DEF ExportInv, Ended
  <2>4. {order[i] : i \in 1 .. Len(order)} = Listed
    BY OrdersAreLines DEF Lines
  <2> QED BY <2>2, <2>3, <2>4 DEF Written
<1>2. QED
  BY <1>1, ExportInvariant, PTL
=============================================================================
