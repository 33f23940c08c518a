------------------------------- MODULE MCExport -------------------------------
(***************************************************************************)
(* Export over two event files: every way an event gets its type, every    *)
(* item its details are read from, and every shape its sections come in.   *)
(***************************************************************************)
EXTENDS Export

LowerCase ==
    "CANCELED" :> "canceled" @@ "Card Verification" :> "card verification"
    @@ "Transaction" :> "transaction" @@ "Overview" :> "overview" @@ "Shares" :> "shares"
    @@ "Fee" :> "fee" @@ "Tax" :> "tax" @@ "Taxes" :> "taxes" @@ "From" :> "from"
    @@ "To" :> "to" @@ "IBAN" :> "iban" @@ "Merchant" :> "merchant" @@ "Interest" :> "interest"
    @@ "Dividend" :> "dividend" @@ "Buy Order" :> "buy order"
    @@ "You received EUR 5" :> "you received eur 5" @@ "Saveback May" :> "saveback may"

Prefixed ==
    "saveback" :> {"saveback", "saveback may"}
    @@ "you received" :> {"you received eur 5"} @@ "you spent" :> {}
    @@ "card_" :> {"card_refund", "card_successful_oct", "card_tr_refund",
                   "card_failed_transaction", "card_order_billed",
                   "card_successful_atm_withdrawal", "card_successful_transaction"}

Floats ==
    "1.5" :> 1500 @@ "0.018 x " :> 18 @@ "2 x " :> 2000 @@ "1.00 EUR" :> 1000
    @@ "0,25 EUR" :> 250 @@ "-2.50 EUR" :> -2500 @@ "1.234,56 EUR" :> 1234560

\* 12.505 is above its decimal, 1.505 below.
RoundedUp == {12505}

ISINTexts == {"US0378331005", "IE00B4L5Y983"}

Header   == [kind |-> "header"]
List(items) == [kind |-> "list", items |-> items]

NoAction == [type |-> "none"]
Section(title, data) == [title |-> title, data |-> data, action |-> NoAction]

Instrument == [title |-> "You", data |-> Header,
               action |-> [type |-> "instrumentDetail", value |-> "IE00B4L5Y983"]]

Item(title, text) ==
    [title |-> title, detail |-> [kind |-> "object", text |-> text, prefix |-> <<>>]]
PrefixItem(prefix) ==
    [title |-> "Transaction", detail |-> [kind |-> "object", text |-> "x", prefix |-> <<prefix>>]]
Bare(title, text)  == [title |-> title, detail |-> [kind |-> "string", text |-> text]]
Empty(title, kind) == [title |-> title, detail |-> [kind |-> kind]]

Event(eventType, title, subtitle, amount, sections) ==
    [status |-> "EXECUTED", timestamp |-> 1, icon |-> <<"logos", "US0378331005", "light">>,
     title |-> title, subtitle |-> subtitle, eventType |-> eventType, amount |-> amount,
     sections |-> sections]

Trade(items) == Section("Transaction", List(items))
Overview(items) == Section("Overview", List(items))

Trades ==
    {Event("order_executed", "Apple", "Buy Order", <<-150500>>, <<Section("You", Header), Trade(items)>>) :
        items \in {<<Item("Shares", "1.5"), PrefixItem("2 x "), Item("Fee", "free"),
                     Item("Taxes", "0,25 EUR"), Empty("Fee", "absent")>>,
                   <<PrefixItem("0.018 x "), Item("Shares", "1.5"), Item("Fee", "1.00 EUR"),
                     Item("Fee", "Free"), Bare("Tax", "-2.50 EUR")>>}}
        \cup {Event("order_executed", "Apple", "Sell Order", <<>>,
                    <<Trade(<<PrefixItem("none"), PrefixItem("2 x "), Item("Shares", "none")>>)>>)}

Savebacks ==
    {Event("benefits_saveback_execution", "Saveback", "", <<1505>>,
           <<Instrument, Overview(<<PrefixItem("0.018 x "), Item("From", "you")>>)>>),
     Event("timeline_legacy_migrated_events", "Bonus", "Saveback May", <<-18>>, <<>>)}

\* Two that only their title or subtitle names, and two that only details do.
Inferred ==
    {Event("new_type", "Interest", "", <<2500>>, <<Trade(<<Item("Tax", "0,25 EUR")>>)>>),
     Event("", "Apple", "Dividend", <<12505>>,
           <<Section("You received EUR 5", Header), Overview(<<Item("Taxes", "1.234,56 EUR")>>)>>),
     Event("new_type", "Friend", "", <<5000>>, <<Section("You received EUR 5", Header)>>),
     Event("new_type", "Friend", "", <<-5000>>,
           <<Section("You", Header), Overview(<<Item("Sent", "x"), Item("To", "a friend")>>)>>)}

Transfers ==
    {Event("card_successful_transaction", "Cafe", "", <<-3200>>,
           <<Overview(<<Item("Merchant", "Cafe"), Item("From", "me")>>)>>),
     Event("incoming_transfer", "Me", "", <<0>>,
           <<Overview(<<Item("IBAN", "DE00"), Item("Merchant", "Bank")>>)>>)}

LeftOut ==
    {[Event("order_executed", "Apple", "Buy Order", <<-1000>>, <<>>) EXCEPT !.status = "CANCELED"],
     [Event("tax_refund", "Refund", "", <<1000>>, <<>>) EXCEPT !.timestamp = 0],
     Event("card_successful_transaction", "Cafe", "", <<-1>>, <<Section("Card Verification", Header)>>),
     Event("new_type", "Cafe", "Card Verification", <<>>, <<>>),
     Event("new_type", "Apple", "", <<-1000>>, <<Overview(<<Item("Order", "x")>>)>>),
     Event("tax_refund", "Refund", "", <<1000>>, <<Trade(<<Empty("Fee", "null")>>)>>),
     Event("tax_refund", "Refund", "", <<1000>>, <<Section("Steps", [kind |-> "null"])>>)}

Today == Trades \cup Savebacks \cup Inferred \cup Transfers \cup LeftOut

\* One of them at a later date, too.
Saved == Today \cup {[e EXCEPT !.timestamp = 2] : e \in {x \in Savebacks : x.title = "Saveback"}}
=============================================================================
