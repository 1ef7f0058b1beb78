----------------------------- MODULE MCChannels -----------------------------
(* How a business meets its customers, in one run: the data source and the   *)
(* carts of its store, its account on a social platform, and its Google      *)
(* reviews.  The four share no state: `part' is the one that moves, and the  *)
(* others stay as they began.                                                *)
EXTENDS TenantSources, Carts, SocialAccounts, Reviews, TLC

\* Requests of every part have the same names, none of which is distinguished.
CallSymmetry == Permutations(CartCalls)

VARIABLE part
channelsVars == <<part, sourceVars, cartVars, connectVars, reviewVars>>

SomePrices == [x \in Items |-> IF x = "product" THEN {1, 3} ELSE {0, 2}]

\* What stands still is in one state only.
CartsStill == CartsInit /\ price = [x \in Items |-> IF x = "product" THEN 1 ELSE 0]
ConnectStill == ConnectInit /\ platform = "TIKTOK"
ReviewsStill == ReviewsInit /\ highRated = {} /\ ~remembers

ChannelsInit ==
  \/ part = "sources" /\ SourcesInit /\ CartsStill /\ ConnectStill /\ ReviewsStill
  \/ part = "carts" /\ SourcesInit /\ CartsInit /\ ConnectStill /\ ReviewsStill
  \/ part = "connect" /\ SourcesInit /\ CartsStill /\ ConnectInit /\ ReviewsStill
  \/ part = "reviews" /\ SourcesInit /\ CartsStill /\ ConnectStill /\ ReviewsInit
ChannelsNext ==
  /\ UNCHANGED part
  /\ \/ part = "sources" /\ SourcesNext /\ UNCHANGED <<cartVars, connectVars, reviewVars>>
     \/ part = "carts" /\ CartsNext /\ UNCHANGED <<sourceVars, connectVars, reviewVars>>
     \/ part = "connect" /\ ConnectNext /\ UNCHANGED <<sourceVars, cartVars, reviewVars>>
     \/ part = "reviews" /\ ReviewsNext /\ UNCHANGED <<sourceVars, cartVars, connectVars>>
ChannelsSpec == ChannelsInit /\ [][ChannelsNext]_channelsVars

\* The types of the four parts: initializations and their promises
\* (tenant-datasource.factory.ts), lines and reads of a cart (cart.service.ts),
\* tokens and rows of accounts (social-accounts.service.ts), and reviews and
\* their tasks (google-business.service.ts).
ChannelsTypeOK == SourcesTypeOK /\ CartsTypeOK /\ ConnectTypeOK /\ ReviewsTypeOK
=============================================================================
