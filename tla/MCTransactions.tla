---- MODULE MCTransactions ----
(* Two custom tokens, one that takes a deposit and one that pays fees, and one of each
   version that is created; native utxos, one of them shielded, two of each custom token,
   and authorities, alone and together. *)
EXTENDS Transactions

CONSTANTS d, f, nd, nf, h1, h2, h3, hs, d1, d2, f1, f2, mint, melt, melts, both

MCTokenOrder == <<d, f, nd, nf>>
MCVersion == d :> "deposit" @@ nd :> "deposit" @@ f :> "fee" @@ nf :> "fee"
MCUtxoOrder == <<h1, h2, h3, hs, d1, d2, f1, f2, mint, both, melt, melts>>
Utxo(token, value) == [token |-> token, value |-> value, authorities |-> {}, shielded |-> FALSE]
Right(token, kinds) == [token |-> token, value |-> 0, authorities |-> kinds, shielded |-> FALSE]
MCUtxoOf == h1 :> Utxo(HTR, 1) @@ h2 :> Utxo(HTR, 3) @@ h3 :> Utxo(HTR, 8)
            @@ hs :> [Utxo(HTR, 2) EXCEPT !.shielded = TRUE]
            @@ d1 :> Utxo(d, 2) @@ d2 :> Utxo(d, 5) @@ f1 :> Utxo(f, 3) @@ f2 :> Utxo(f, 4)
            @@ mint :> Right(f, {"mint"}) @@ melt :> Right(f, {"melt"})
            @@ melts :> Right(d, {"melt"})
            @@ both :> Right(d, {"mint", "melt"})
Native == {h1, h2, h3, hs}
Custom == {d1, d2, f1, f2}
Granted == {mint, melt, melts, both}
Owned == {h2, h3, hs, d2, f2} \cup Granted

Plain(t, v) == Output(t, v, {}, "plain")
DataOutput == Output(HTR, 1, {}, "data")
Shielded(t, v, m) == [mode |-> m] @@ [Plain(t, v) EXCEPT !.kind = "shielded"]
Asked(builder, inputs, outputs, mode) ==
    [builder |-> builder, inputs |-> inputs, outputs |-> outputs, mode |-> mode,
     wallet |-> Native \cup Custom]

OutputLists == {<<Plain(HTR, 3)>>, <<Plain(HTR, 6), DataOutput>>, <<Plain(d, 3)>>,
                <<Plain(d, 3), Plain(HTR, 1)>>, <<Plain(f, 3)>>,
                <<Plain(f, 2), Plain(f, 2)>>, <<Plain(d, 5), Plain(f, 4), Plain(HTR, 1)>>}
InputLists == {<<>>, <<h2>>, <<f2>>, <<h3, f1>>, <<h3, f2>>, <<h2, d2>>}
Sends == {Asked(b, i, o, "none") : b \in {"send", "service_send", "service_data"},
                                   i \in InputLists, o \in OutputLists}
HiddenSends ==
    {Asked("send", i, o, m) :
        m \in {"none", "amount", "full"}, i \in {<<>>, <<h2, h3>>, <<h3, f1>>},
        o \in {<<Shielded(HTR, 1, "amount"), Shielded(HTR, 2, "full")>>,
               <<Shielded(f, 1, "full"), Shielded(f, 1, "full"), Plain(d, 1)>>,
               <<Shielded(f, 1, "full"), Shielded(f, 1, "amount"), Shielded(d, 1, "full"), Plain(d, 1)>>}}
Operation(builders, tokens, wallet) ==
    {[builder |-> b, token |-> t, amount |-> a, another |-> x, data |-> n,
      nft |-> FALSE, kind |-> "mint", wallet |-> wallet] :
        b \in builders, t \in tokens, a \in {1, 4}, x \in BOOLEAN, n \in {0, 2}}
Rights(builders) ==
    {[builder |-> b, token |-> t, amount |-> a, another |-> x, kind |-> k, wallet |-> Granted] :
        b \in builders, t \in {d, f}, a \in {1, 2}, x \in BOOLEAN, k \in {"mint", "melt"}}
Nft == {[r EXCEPT !.nft = TRUE] : r \in Operation({"service_create"}, {nd}, Native)}
Act(type, token, amount) == [type |-> type, token |-> token, amount |-> amount]
Given(type, token, kind, another) ==
    [type |-> type, token |-> token, authority |-> kind, another |-> another]
Contract(actions, create, pays, max) ==
    [builder |-> "nano", actions |-> actions, create |-> create, contractPaysFees |-> pays,
     maxFee |-> max, wallet |-> Owned \cup {f1}]
New(t, pays) == [token |-> t, amount |-> 3, another |-> TRUE, data |-> 1,
                 contractPaysTokenDeposit |-> pays]
Contracts ==
    {Contract(a, NoToken, FALSE, 9) :
        a \in {<<Act("deposit", HTR, 2), Act("deposit", f, 3)>>,
               <<Act("deposit", f, 2), Act("withdrawal", HTR, 3), Act("deposit", f, 2)>>,
               <<Act("withdrawal", f, 2), Given("grant", d, "mint", TRUE), Act("deposit", HTR, 1)>>,
               <<Given("acquire", d, "melt", FALSE), Act("deposit", d, 5)>>}}
    \cup {Contract(<<Act("withdrawal", HTR, 3), Act("deposit", f, 3)>>, NoToken, TRUE, m) : m \in {0, 2}}
    \cup {Contract(<<Act("deposit", HTR, 2)>>, New(t, FALSE), FALSE, 9) : t \in {nd, nf}}
    \cup {Contract(<<Act("withdrawal", HTR, 4)>>, New(t, t = nd), t = nf, 9) : t \in {nd, nf}}
    \cup {Contract(<<Act("deposit", f, 2)>>, New(t, FALSE), FALSE, 9) : t \in {nd, nf}}
In(token, fill, change) ==
    [type |-> "input/utxo", token |-> token, fill |-> fill, autoChange |-> change]
Raw(utxo) == [type |-> "input/raw", utxo |-> utxo]
InAuthority(token, kind) ==
    [type |-> "input/authority", token |-> token, authority |-> kind, count |-> 1]
Out(token, amount) ==
    [type |-> "output/token", token |-> token, amount |-> amount, created |-> token \in {nd, nf}]
OutAuthority(token, kind) ==
    [type |-> "output/authority", token |-> token, authority |-> kind, count |-> 1,
     created |-> token \in {nd, nf}]
Config(version, create, named) ==
    [type |-> "action/config", version |-> version, createToken |-> create, named |-> named]
Creation == Config(NoVersion, TRUE, TRUE)
Fee(amount) == [type |-> "action/fee", amount |-> amount]
Complete(token, fee) ==
    [type |-> "action/complete", token |-> token, calculateFee |-> fee, skipSelection |-> FALSE,
     skipChange |-> FALSE, skipAuthorities |-> FALSE]
ChangeOnly == [Complete(AnyToken, TRUE) EXCEPT !.skipSelection = TRUE, !.skipAuthorities = TRUE]
Execute(actions) ==
    [type |-> "nano/execute",
     actions |-> [i \in DOMAIN actions |->
        actions[i] @@ [skip |-> FALSE, created |-> FALSE, autoChange |-> TRUE]]]
Exactly(action) == [autoChange |-> FALSE] @@ action
OfCreated(action) == [created |-> TRUE] @@ action
Template(token, template) ==
    [builder |-> "template", token |-> token, template |-> template, wallet |-> Owned \cup {f1}]
Templates ==
    {Template(nd, t) : t \in
        {<<Out(d, 3), Out(HTR, 1), Complete(AnyToken, TRUE)>>,
         <<Out(f, 5), OutAuthority(f, "melt"), Complete(AnyToken, TRUE)>>,
         <<Raw(h3), Out(HTR, 3), In(d, 4, FALSE), InAuthority(d, "mint"), Out(d, 1),
           Complete(AnyToken, FALSE)>>,
         <<In(HTR, 1, TRUE), InAuthority(d, "mint"), Out(d, 2), OutAuthority(d, "mint")>>,
         <<In(f, 3, TRUE), InAuthority(f, "melt"), Complete(HTR, TRUE)>>,
         <<In(f, 4, FALSE), Out(f, 1), In(HTR, 5, FALSE), ChangeOnly>>,
         <<Execute(<<Act("deposit", d, 3), Act("withdrawal", HTR, 2)>>), Complete(HTR, TRUE)>>,
         <<Execute(<<Exactly(Act("deposit", d, 3))>>), Out(d, 2)>>,
         <<Execute(<<Given("grant", d, "mint", FALSE), Given("acquire", f, "melt", FALSE)>>),
           Out(HTR, 2), Complete(HTR, TRUE)>>,
         <<Config("other", FALSE, TRUE), Out(HTR, 2), Complete(HTR, TRUE)>>,
         <<Config(NoVersion, TRUE, FALSE), Out(nd, 2), Complete(HTR, TRUE)>>}}
    \cup {Template(nf, <<Config("create", FALSE, FALSE), Config(NoVersion, FALSE, TRUE),
                         OutAuthority(nf, "mint"), Out(nf, 3),
                         Execute(<<OfCreated(Act("deposit", HTR, 2)),
                                   OfCreated(Given("grant", HTR, "mint", FALSE))>>),
                         In(HTR, 2, TRUE), Fee(2)>>)}
    \cup {Template(t, <<Creation, OutAuthority(t, "mint"), Out(t, 3), Out(t, 2), Complete(HTR, TRUE)>>) :
            t \in {nd, nf}}
    \cup {Template(nf, <<Creation, Out(nf, 3), In(HTR, 1, TRUE), Fee(1)>>)}
    \cup {Template(nf, <<Creation, In(HTR, 1, TRUE), Out(nf, 2), Out(nf, 2), Complete(HTR, TRUE)>>)}
Selections == {[builder |-> "select", token |-> HTR, amount |-> a, wallet |-> Native] : a \in 1..12}

MCRequests ==
    Sends \cup HiddenSends \cup Nft \cup Contracts \cup Templates \cup Selections
    \cup Operation({"create", "service_create"}, {nd, nf}, Native)
    \cup Operation({"mint", "melt"}, {d, f}, Owned)
    \cup {r \in Operation({"service_mint", "service_melt"}, {d, f}, Owned) : r.data = 0}
    \cup Rights({"delegate", "service_delegate"})
    \cup Rights({"destroy", "service_destroy"})
    \cup {[builder |-> "consolidate", token |-> t, wallet |-> Native \cup Custom] : t \in {HTR, d, f}}

=============================
