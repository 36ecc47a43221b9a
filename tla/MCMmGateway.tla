------------------------------ MODULE MCMmGateway ------------------------------
(* Small instances of MmGateway: two accounts around one price, two sessions. *)
EXTENDS MmGateway, TLC

Signed(account, nonce, side, price, size, tif, postOnly, client) ==
    [account |-> account, nonce |-> nonce, side |-> side, price |-> price, size |-> size,
     tif |-> tif, postOnly |-> postOnly, client |-> client]

MCAccounts == {"a", "b"}

Bid    == Signed("a", 1, "Buy", 2, 2, "Gtc", FALSE, "x")
LowBid == Signed("a", 2, "Buy", 1, 1, "Gtc", TRUE, "x")
Ask    == Signed("a", 3, "Sell", 1, 2, "Gtc", FALSE, "y")
QuoteBid == Signed("b", 1, "Buy", 2, 1, "Gtc", FALSE, "z")
QuoteAsk == Signed("b", 3, "Sell", 3, 1, "Gtc", FALSE, "z")
IocAsk == Signed("b", 2, "Sell", 1, 2, "Ioc", FALSE, "w")

MCSignedOrders == {Bid, LowBid, Ask, QuoteBid, QuoteAsk, IocAsk}

(* The second batch mixes accounts: the gateway refuses one of the two orders *)
MCBatches == {<<LowBid, Bid>>, <<IocAsk, Ask>>, <<Bid>>}

MCQuotes == {<<QuoteBid, QuoteAsk>>}

SessionSymmetry == Permutations(Callers)
================================================================================
