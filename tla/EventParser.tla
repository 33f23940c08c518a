----------------------------- MODULE EventParser -----------------------------
(***************************************************************************)
(* From a saved event to its CSV rows (internal/types, internal/export):   *)
(* which events are left out, what type an event has, what is read from    *)
(* its details, and the rows it becomes.                                   *)
(*                                                                         *)
(* A value that may be missing is <<>> or <<v>>, and so is a pointer.      *)
(* Amounts are whole thousandths, cells of the CSV whole hundredths.       *)
(***************************************************************************)
EXTENDS Integers, Sequences, SequencesExt

CONSTANTS
    Lowered,     \* strings.ToLower of the texts that are not in lower case
    StartsWith,  \* the texts that start with each of the prefixes looked for
    FloatOf,     \* the number in the texts that hold one
    ISINs,       \* the texts isinRE matches
    RoundsUp     \* those of the amounts half way between two cells that are
                 \* printed as the larger one, their double being larger

ASSUME ParserAssumption == FloatOf \in [DOMAIN FloatOf -> Int]

ToLower(s) == IF s \in DOMAIN Lowered THEN Lowered[s] ELSE s

HasPrefix(s, prefix) == s \in StartsWith[prefix]

\* "1.234,56 EUR" is 1234.56, "1,234.56" is 1.23456, "free" is no number.
parseFloatFromText(text) == IF text \in DOMAIN FloatOf THEN <<FloatOf[text]>> ELSE <<>>

---------------------------------------------------------------------------
(* Tables                                                                  *)

\* The words each type goes by, no word in two lists of one table.
trEventTypeMap ==
    [DEPOSIT |-> {"account_transfer_incoming", "incoming_transfer", "incoming_transfer_delegation",
         "payment_inbound", "payment_inbound_apple_pay", "payment_inbound_google_pay",
         "payment_inbound_sepa_direct_debit", "payment_inbound_credit_card",
         "payment-service-in-payment-direct-debit", "card_refund", "card_successful_oct",
         "card_tr_refund"},
     DIVIDEND |-> {"credit", "ssp_corporate_action_invoice_cash"},
     INTEREST |-> {"interest_payout", "interest_payout_created"},
     REMOVAL |-> {"outgoing_transfer", "outgoing_transfer_delegation", "payment_outbound",
         "card_failed_transaction", "card_order_billed", "card_successful_atm_withdrawal",
         "card_successful_transaction", "junior_p2p_transfer"},
     SAVEBACK |-> {"acquisition_trade_perk", "benefits_saveback_execution"},
     TAX_REFUND |-> {"tax_correction", "tax_refund", "ssp_tax_correction_invoice"},
     TRADE_INVOICE |-> {"order_executed", "savings_plan_executed", "savings_plan_invoice_created",
         "trade_corrected", "trade_invoice", "benefits_spare_change_execution",
         "trading_savingsplan_executed", "trading_trade_executed"}]

titleEventTypeMap ==
    [INTEREST |-> {"interest"}, TRADE_INVOICE |-> {"savings plan"},
     DEPOSIT |-> {"card refund", "cash in"}, REMOVAL |-> {"card payment"},
     CARD_VERIFICATION |-> {"card verification"}]

subtitleEventTypeMap ==
    [DIVIDEND |-> {"dividend", "cash dividend"}, REMOVAL |-> {"sent"},
     SAVEBACK |-> {"saveback"}, SELL |-> {"repayment"},
     TRADE_INVOICE |-> {"buy order", "limit buy order", "sell order", "limit sell order",
         "stop sell order", "saving executed"},
     CARD_VERIFICATION |-> {"card verification"}]

sectionTitleEventTypeMap ==
    [DEPOSIT |-> {"card refund", "from", "sender"}, REMOVAL |-> {"card payment", "to"},
     CARD_VERIFICATION |-> {"card verification"}]

\* EventTypes of a parsed event, and of a row.
ParsedTypes == {"BUY", "DEPOSIT", "DIVIDEND", "INTEREST", "REMOVAL", "SELL", "TAX_REFUND",
                "SAVEBACK", "TRADE_INVOICE", "CARD_VERIFICATION"}

RowTypes == ParsedTypes \ {"SAVEBACK", "TRADE_INVOICE"}

---------------------------------------------------------------------------
(* Decoding                                                                *)

\* A section's data is absent, a list of items, one header object, or null; an
\* item's detail is an object, a text, absent, or null.  Null cannot be decoded.
DetailDecodes(item) == item.detail.kind # "null"

SectionDecodes(section) ==
    /\ section.data.kind # "null"
    /\ section.data.kind = "list" =>
           \A i \in DOMAIN section.data.items : DetailDecodes(section.data.items[i])

Decodes(sections) == \A i \in DOMAIN sections : SectionDecodes(sections[i])

Items(section) == IF section.data.kind = "list" THEN section.data.items ELSE <<>>

Text(item) == IF item.detail.kind = "absent" THEN "" ELSE item.detail.text

Prefix(item) == IF item.detail.kind = "object" THEN item.detail.prefix ELSE <<>>

---------------------------------------------------------------------------
(* The type of an event                                                    *)

\* The texts of the event itself are compared as they are sent.
IsCardVerification(te, sections) ==
    \/ te.title = "card verification" \/ te.subtitle = "card verification"
    \/ \E i \in DOMAIN sections : ToLower(sections[i].title) = "card verification"

Skipped(te, sections) == ToLower(te.status) = "canceled" \/ IsCardVerification(te, sections)

Lookup(table, s) ==
    LET known == {type \in DOMAIN table : ToLower(s) \in table[type]}
    IN  IF known = {} THEN "" ELSE CHOOSE type \in known : TRUE

FirstOf(types) ==
    LET known == {i \in DOMAIN types : types[i] # ""}
    IN  IF known = {} THEN "" ELSE types[CHOOSE i \in known : \A j \in known : i <= j]

ExplicitType(te) == IF te.eventType = "timeline_legacy_migrated_events" THEN "" ELSE te.eventType

InferFromTimeline(te) ==
    FirstOf(<<Lookup(trEventTypeMap, ExplicitType(te)),
              Lookup(titleEventTypeMap, te.title),
              Lookup(subtitleEventTypeMap, te.subtitle),
              IF HasPrefix(ToLower(te.subtitle), "saveback") THEN "SAVEBACK" ELSE "">>)

InferFromSection(section) ==
    LET title == ToLower(section.title)
    IN  IF HasPrefix(title, "you received") \/ HasPrefix(title, "you spent") THEN "DEPOSIT"
        ELSE IF title # "overview" THEN ""
        ELSE FirstOf([i \in DOMAIN Items(section) |->
                         Lookup(sectionTitleEventTypeMap, Items(section)[i].title)])

InferFromDetailSections(sections) == FirstOf([i \in DOMAIN sections |-> InferFromSection(sections[i])])

\* Mutant: the details are asked first.
InferDetailsFirst(te, sections) ==
    LET type == InferFromDetailSections(sections)
    IN  IF type # "" THEN type ELSE InferFromTimeline(te)

\* "" is an error.
InferEventType(te, sections) ==
    LET type == InferFromTimeline(te)
    IN  IF type # "" THEN type ELSE InferFromDetailSections(sections)

---------------------------------------------------------------------------
(* What is read from the details                                           *)

IsISIN(s) == s \in ISINs

\* Neither the first nor the last part of the icon's path counts.
ParseISIN(te, sections) ==
    LET inIcon == SelectSeq(SubSeq(te.icon, 2, Len(te.icon) - 1), IsISIN)
        inAction == SelectSeq(sections, LAMBDA s : s.action.type = "instrumentDetail")
    IN  IF inIcon # <<>> THEN Head(inIcon)
        ELSE IF inAction # <<>> THEN Head(inAction).action.value ELSE ""

ItemsUnder(sections, titles) ==
    FlattenSeq([i \in DOMAIN sections |->
                   IF ToLower(sections[i].title) \in titles THEN Items(sections[i]) ELSE <<>>])

TradeItems(sections) == ItemsUnder(sections, {"transaction", "trade", "overview"})

Else(new, old) == IF new # <<>> THEN new ELSE old

\* Mutant: the prefix of a transaction replaces the number of shares.
SharesFromPrefix(event, item) ==
    IF Prefix(item) # <<>> THEN parseFloatFromText(Prefix(item)[1]) ELSE event.shares

SharesFrom(event, item) ==
    IF event.shares = <<>> /\ Prefix(item) # <<>> THEN parseFloatFromText(Prefix(item)[1])
    ELSE event.shares

ApplyTax(event, item) ==
    IF ToLower(item.title) \in {"tax", "taxes"}
    THEN [event EXCEPT !.taxes = Else(parseFloatFromText(Text(item)), @)]
    ELSE event

ApplyTradeDetail(event, item) ==
    LET title == ToLower(item.title)
    IN  CASE title = "shares" -> [event EXCEPT !.shares = Else(parseFloatFromText(Text(item)), @)]
          [] title = "transaction" -> [event EXCEPT !.shares = SharesFrom(event, item)]
          [] title = "fee" ->
                 [event EXCEPT !.fees = IF Text(item) = "free" THEN <<0>>
                                        ELSE Else(parseFloatFromText(Text(item)), @)]
          [] OTHER -> ApplyTax(event, item)

ApplyTransferDetail(event, item) ==
    LET title == ToLower(item.title)
    IN  CASE title \in {"from", "sender"} -> [event EXCEPT !.sender = Text(item)]
          [] title = "to" -> [event EXCEPT !.recipient = Text(item)]
          [] title = "iban" -> [event EXCEPT !.iban = Text(item)]
          [] title = "merchant" /\ Text(item) \notin {"", event.title} ->
                 [event EXCEPT !.note = Text(item)]
          [] OTHER -> event

ParseEventDetails(event, te, sections) ==
    CASE event.type \in {"TRADE_INVOICE", "DIVIDEND", "SAVEBACK"} ->
             FoldLeft(ApplyTradeDetail, [event EXCEPT !.isin = ParseISIN(te, sections)],
                      TradeItems(sections))
      [] event.type = "INTEREST" -> FoldLeft(ApplyTax, event, TradeItems(sections))
      [] event.type \in {"DEPOSIT", "REMOVAL"} ->
             FoldLeft(ApplyTransferDetail,
                      [event EXCEPT !.note = IF HasPrefix(te.eventType, "card_") THEN te.eventType
                                             ELSE @],
                      ItemsUnder(sections, {"overview"}))
      [] OTHER -> event

---------------------------------------------------------------------------
(* ParseEvent                                                              *)

\* A timestamp that time.Parse refuses is 0.
Fails(te, sections) ==
    ~Skipped(te, sections) /\ (te.timestamp = 0 \/ InferEventType(te, sections) = "")

\* An amount of zero is no amount.
ValueOf(te) == IF te.amount = <<0>> THEN <<>> ELSE te.amount

ParsedEvent(te, sections) ==
    ParseEventDetails(
        [date |-> te.timestamp, title |-> te.title, subtitle |-> te.subtitle,
         type |-> InferEventType(te, sections), value |-> ValueOf(te), isin |-> "",
         shares |-> <<>>, fees |-> <<>>, taxes |-> <<>>,
         note |-> "", sender |-> "", recipient |-> "", iban |-> ""],
        te, sections)

---------------------------------------------------------------------------
(* Rows                                                                    *)

\* Mutant: an event without a value keeps the type it was parsed with.
TypeUnlessNil(event) ==
    IF event.type \notin {"TRADE_INVOICE", "SAVEBACK"} \/ event.value = <<>> THEN event.type
    ELSE IF event.value[1] < 0 THEN "BUY" ELSE "SELL"

GetTransactionType(event) ==
    IF event.type \notin {"TRADE_INVOICE", "SAVEBACK"} THEN event.type
    ELSE IF event.value # <<>> /\ event.value[1] < 0 THEN "BUY" ELSE "SELL"

Part(label, text) == IF text = "" THEN <<>> ELSE <<label, text>>

GetNote(event) ==
    Part("subtitle", event.subtitle) \o <<"title", event.title>> \o Part("From", event.sender)
        \o Part("To", event.recipient) \o Part("IBAN", event.iban)
        \o (IF event.note # event.title THEN Part("note", event.note) ELSE <<>>)

\* %.2f of a number of thousandths, whatever its sign.
Cents(n) == (n + (IF n \in RoundsUp THEN 5 ELSE 4)) \div 10

FormatFloat(number) ==
    IF number = <<>> THEN <<>>
    ELSE IF number[1] >= 0 THEN <<Cents(number[1])>> ELSE <<-Cents(-number[1])>>

NegateFloat(number) == IF number = <<>> THEN <<>> ELSE <<-number[1]>>

Row(event, type, value) ==
    [date |-> event.date, type |-> type, value |-> FormatFloat(value), note |-> GetNote(event),
     isin |-> event.isin, shares |-> FormatFloat(event.shares),
     fees |-> FormatFloat(NegateFloat(event.fees)), taxes |-> FormatFloat(NegateFloat(event.taxes))]

\* Mutant: the deposit of a saveback has the sign of its purchase.
DepositSameSign(event) ==
    [Row(event, "DEPOSIT", event.value)
        EXCEPT !.isin = "", !.shares = <<>>, !.fees = <<>>, !.taxes = <<>>]

DepositRow(event) ==
    [Row(event, "DEPOSIT", NegateFloat(event.value))
        EXCEPT !.isin = "", !.shares = <<>>, !.fees = <<>>, !.taxes = <<>>]

EventToRows(event) ==
    IF event.type = "SAVEBACK" THEN <<Row(event, "BUY", event.value), DepositRow(event)>>
    ELSE <<Row(event, GetTransactionType(event), event.value)>>
=============================================================================
