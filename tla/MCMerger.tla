-------------------------------- MODULE MCMerger --------------------------------
(***************************************************************************)
(* The statement merger with three folders: statements of two banks whose  *)
(* headers tell them apart, a table that is no statement, and one that     *)
(* cannot be decoded. The demonstration adds one statement of each bank.   *)
(***************************************************************************)
EXTENDS StatementMerger, TLC

Statement(issuer, ext, text, columns) ==
    [issuer |-> issuer, ext |-> ext, text |-> text, columns |-> columns]

StatementFolders ==
    ("d1" :> {Statement(1, "xlsx", "utf-8", {"trade_date", "balance"}),
              Statement(2, "csv", "gbk", {"booking_date", "card"})})
    @@ ("d2" :> {Statement(0, "csv", "utf-8", {"name"})})
    @@ ("d3" :> {Statement(0, "csv", "undecodable", {"name"})})
=============================================================================
