---------------------------- MODULE MCBackOffice ----------------------------
(***************************************************************************)
(* The instance of BackOffice for TLC.                                     *)
(***************************************************************************)
EXTENDS BackOffice, TLC

CONSTANT OldDevice    \* a device that was registered long ago

AllEndpoints == Handlers

\* Three devices of a host who also buys, a buyer, and a seller who does not.
MCTokens == Pair \cup {OldDevice}
MCRoles == [host |-> {"seller", "buyer", "BUYER"}, buyer |-> {"BUYER"}, shop |-> {"seller", "BUYER"}]
MCPeople == DOMAIN MCRoles
MCHostOf == [s \in Announced |-> "host"]

\* An account that buys and sells, an order of two sellers, and a replacement.
MCShapes ==
    {[kind |-> "order", buyer |-> "both", sellers |-> {"shop"}],
     [kind |-> "order", buyer |-> "buyer", sellers |-> {"shop", "both"}],
     [kind |-> "replacement", buyer |-> "both", sellers |-> {"shop"}]}
List(view, user, statuses, date) ==
    [view |-> view, user |-> user, want |-> [statuses |-> statuses, date |-> date]]
MCLists ==
    {List("mine", "buyer", {}, -1), List("sales", "shop", {}, 1),
     List("sales", "both", {"PAID"}, -2), List("returns", "shop", {}, -1),
     List("console", "admin", {}, -2), List("counts", "shop", {}, -1)}

\* Orders of one prefix: a replacement, and an order of two sellers in odd paise.
Line(s, amount, gst) == [seller |-> s, amount |-> amount, gst |-> gst]
MCPurchases ==
    {[kind |-> "replacement", lines |-> <<Line("a", 9999, 5)>>, fee |-> 0, pin |-> 4],
     [kind |-> "order", fee |-> 4999, pin |-> 4,
      lines |-> <<Line("a", 5001, 18), Line("b", 10002, 12), Line("a", 3333, 28)>>]}
MCPrefixes == [d \in Pair |-> 1]
MCGstStates == [a |-> 27, b |-> 0]
MCAddresses == [a |-> {{"business"}, {}}, b |-> {{"pickup"}}]

\* Two complete variants, a choice twice, an option without values and a negative stock,
\* and a value twice.
Item(id, size, price, stock) ==
    [id |-> id, choice |-> [size |-> size], price |-> price, stock |-> stock]
Option(name, values) == [name |-> name, values |-> values]
MCSheets ==
    {[options |-> <<Option("size", <<"S", "M">>)>>,
      items |-> <<Item("v1", "S", 2, 1), Item("v2", "M", 1, 1)>>],
     [options |-> <<Option("size", <<"S", "M">>)>>,
      items |-> <<Item("v1", "S", 3, 1), Item("v2", "S", 3, 2)>>],
     [options |-> <<Option("size", <<"L">>), Option("fit", <<>>)>>,
      items |-> <<Item("v1", "L", 3, 2), Item("v2", "M", 3, -1)>>],
     [options |-> <<Option("size", <<"L", "L">>)>>,
      items |-> <<Item("v1", "L", 3, 2), Item("v2", "L", 3, 1)>>]}

\* Orders with one line of the product, and with two: of one variant, of both, of none.
MCLines ==
    {<<"v1">>, <<"v2">>, <<"plain">>, <<"v1", "v1">>, <<"v1", "v2">>, <<"plain", "plain">>}

\* The old device is the host's, the others the buyer's or nobody's.
MCInit ==
    /\ PartInit
    /\ part = "alerts" => t4[OldDevice] = "host" /\ \A t \in Pair : t4[t] \in {"buyer", NoUser}

MCSpec == MCInit /\ [][PartNext]_<<vars, store>>

Symmetry == Permutations(Slots) \cup Permutations(Pair)
=============================================================================
