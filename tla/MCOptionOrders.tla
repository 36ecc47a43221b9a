----------------------------- MODULE MCOptionOrders -----------------------------
(***************************************************************************)
(* Six orders of a put series, of which any three are submitted.  s1 can   *)
(* be filled in part and twice, s2 has the better price, is post-only and  *)
(* may expire, s3 has the price of s1, b1 can rest a residual, b2 gives it *)
(* up, b3 takes all or nothing.  s1 and b1 are of one account.             *)
(***************************************************************************)
EXTENDS OptionOrders

CONSTANTS s1, s2, s3, b1, b2, b3, self, other, third

MCOrders == {s1, s2, s3, b1, b2, b3}

MCAccounts == {self, other, third}

Gtc(account, side, price, size) ==
    [account |-> account, side |-> side, price |-> price, size |-> size,
     tif |-> "gtc", postOnly |-> FALSE, deadline |-> FALSE]

MCTerms ==
    [o \in MCOrders |->
        CASE o = s1 -> Gtc(self, "sell", 2, 2)
          [] o = s2 -> [Gtc(other, "sell", 1, 1) EXCEPT !.postOnly = TRUE, !.deadline = TRUE]
          [] o = s3 -> Gtc(other, "sell", 2, 1)
          [] o = b1 -> Gtc(self, "buy", 2, 2)
          [] o = b2 -> [Gtc(third, "buy", 2, 1) EXCEPT !.tif = "ioc"]
          [] o = b3 -> [Gtc(third, "buy", 2, 2) EXCEPT !.tif = "fok"]]
=================================================================================
