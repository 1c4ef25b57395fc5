----------------------------- MODULE MCOneShots -----------------------------
(***************************************************************************)
(* bazaar-check against a service of either bazaar variant, complete or    *)
(* not, listed or not, with or without a declared facilitator; validate of *)
(* challenges that can and cannot be paid, alone or beside facilitators;   *)
(* lookups of a transaction that is broadcast and mined meanwhile.         *)
(***************************************************************************)
EXTENDS OneShots

\* bazaar-check.
MCWindow == [c \in NetworkCauses |-> 3]

Bodies == [members |-> BodyMembers, sound |-> BodyMembers]
Partial == [members |-> BodyMembers, sound |-> {"info.input"}]
Mcp == [members |-> {"name", "description"}, sound |-> {"name", "description"}]

Manifest(name, accepts, declares, bazaar, facilitator) ==
  [name |-> name, description |-> "a service", accepts |-> accepts,
   declaresBazaar |-> declares, bazaar |-> bazaar, facilitator |-> facilitator]

MCManifests == {
  Manifest("shop", "list", TRUE, Bodies, "cdp"),
  Manifest("shop", "absent", TRUE, Mcp, "payai"),
  Manifest("shop", "list", TRUE, Mcp, "CDP's URL"),
  Manifest("shop", "not a list", TRUE, NoObject, "unheard of"),
  Manifest(NoText, "list", TRUE, Partial, NoText),
  Manifest("shop", "list", FALSE, NoObject, NoText)}

Challenge(bazaar, payTo) == [kind |-> "challenge", bazaar |-> bazaar, payTo |-> payTo]
MCChallenges == {Challenge(Bodies, "seller"), Challenge(Partial, "seller"),
                 Challenge(NoObject, "seller"), Challenge(Mcp, "payer")}

Resource(name, description, host, path) ==
  [name |-> name, description |-> description, host |-> host, path |-> path]
MCListings == {
  <<>>,
  <<Resource("shop", "a service", "shop.example", "/buy")>>,
  <<Resource(NoText, NoText, "shop.example", "/buy")>>,
  <<Resource("old shop", "a service", "shop.example", "/buy"),
    Resource("shop", "a service", "copy.example", "/buy")>>}

Probe(cause, t) == [cause |-> cause, t |-> t]
MCEarlierProbes == {
  <<>>,
  <<Probe("dns_failure", 19), Probe("tcp_refused", 20)>>}

Given(wellFormed, endpoint, payerHint, history, payload, settle) ==
  [wellFormed |-> wellFormed, endpoint |-> endpoint, payerHint |-> payerHint,
   history |-> history, payload |-> payload, settle |-> settle]
MCOptions == {
  Given(FALSE, FALSE, "payer", TRUE, NoObject, NoObject),
  Given(TRUE, FALSE, "payer", TRUE, NoObject, NoObject),
  Given(TRUE, TRUE, "payer", FALSE, "bare string", NoObject),
  Given(TRUE, FALSE, "payer", FALSE, "object", "2xx, none echoed"),
  Given(TRUE, FALSE, "nobody", FALSE, "no object", "2xx, echoed"),
  Given(TRUE, FALSE, "nobody", FALSE, "object", "2xx, echoed")}

\* validate.
MCCommandLines ==
  {[wellFormed |-> TRUE, wallet |-> "payer", rpc |-> "given", strict |-> s, diff |-> d] :
     s \in BOOLEAN, d \in {<<>>, <<"cdp", "xpay">>}}
  \union {[wellFormed |-> w, wallet |-> "seller", rpc |-> r, strict |-> FALSE, diff |-> <<"cdp">>] :
     w \in BOOLEAN, r \in {"given", "missing"}}

AllKeys == {"scheme", "network", "maxAmountRequired", "resource", "payTo", "asset"}
Terms(network, asset, amount, timeout) ==
  [scheme |-> "exact", network |-> network, payTo |-> "seller", asset |-> asset,
   maxAmountRequired |-> amount, amount |-> amount, maxTimeoutSeconds |-> timeout]
Good == Terms("base-sepolia", "BASE_SEPOLIA_USDC", 500, 60)
Body(version, strings, terms) ==
  [version |-> version, accepts |-> <<[strings |-> strings, terms |-> terms]>>]
MCBodies402 == {
  NoBody,
  [version |-> 1, accepts |-> NoList],
  [version |-> 1, accepts |-> <<>>],
  [version |-> 2, accepts |-> <<NoEntry>>],
  Body(1, AllKeys, Good),
  Body(2, (AllKeys \ {"maxAmountRequired", "resource"}) \union {"amount"},
       [Good EXCEPT !.maxAmountRequired = Absent]),
  Body(1, AllKeys \ {"resource"}, Good),
  Body(1, AllKeys, Terms("base", "another token", 500, Absent)),
  Body(1, AllKeys, Terms("base-sepolia", "another token", 500, 60)),
  Body(1, AllKeys, Terms("base-sepolia", "BASE_SEPOLIA_USDC", NotANumber, 60)),
  Body(1, AllKeys, Terms("base-sepolia", "BASE_SEPOLIA_USDC", 2000, 0))}

Says(code, isValid, what) ==
  [isCdp |-> FALSE, stage |-> "verify", statusCode |-> code, isValid |-> isValid,
   success |-> FALSE, extensionResponses |-> FALSE, says |-> what]
MCVerifications == {
  Says(200, TRUE, {}), Says(200, FALSE, {"unable to estimate gas"}),
  Says(429, Absent, {}), Says(500, TRUE, {})}

\* A lookup.
Moved(token, to, value) == [token |-> token, from |-> "buyer", to |-> to, value |-> value]
MCReceipts == {
  [status |-> "reverted", transfers |-> <<>>],
  [status |-> "success", transfers |-> <<>>],
  [status |-> "success", transfers |-> <<Moved("USDC", "seller", 5)>>],
  [status |-> "success", transfers |-> <<Moved("other", "seller", 5)>>],
  [status |-> "success", transfers |-> <<Moved("USDC", "other", 1), Moved("USDC", "seller", 5)>>]}
MCQuestions ==
  {[asks |-> "get", token |-> "USDC", to |-> Unspecified, amount |-> Unspecified, from |-> Unspecified]}
  \union {[asks |-> "verify", token |-> "USDC", to |-> to, amount |-> n, from |-> from] :
            to \in {Unspecified, "seller"}, n \in {Unspecified, 5}, from \in {"buyer", "nobody"}}
=============================================================================
