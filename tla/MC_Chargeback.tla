--------------------------- MODULE MC_Chargeback ---------------------------
(***************************************************************************)
(* Exports of one account: two applications on one database, a correction, *)
(* a refund, two native names of one canonical service, rows without tags, *)
(* rows that do not parse, and a bucket with two currencies.               *)
(***************************************************************************)
EXTENDS Chargeback

MCCanonical == ("rds" :> "postgres") @@ ("aurora" :> "postgres")

Row(service, period, currency, cost, tags) ==
  [service |-> service, period |-> period, currency |-> currency, cost |-> cost, tags |-> tags]
App(v) == "app" :> v
NoTags == <<>>

MCExports ==
  {<<Row("rds", "july", "EUR", 3, App("web")), Row("rds", "july", "EUR", 97, App("api"))>>,
   <<Row("rds", "july", "EUR", -5, App("web"))>>,
   <<Row("aurora", "july", "EUR", 1, NoTags), Row("rds", "july", "EUR", 2, App("web")),
     Row("s3", "july", "EUR", 10, NoTags)>>,
   <<Row("s3", "july", "USD", NotADecimal, App("")), Row("s3", "july", "USD", 7, App("web")),
     Row("s3", "august", "XXX", 50, App("web"))>>,
   <<Row("rds", "july", "EUR", 4, NoTags), Row("aurora", "july", "USD", 4, NoTags)>>}
=============================================================================
