------------------------------- MODULE Router -------------------------------
(***************************************************************************)
(* The route table of internal/proxy/proxy.go: SetRoutes sorts a list of   *)
(* routes by the length of their prefixes and builds their proxies; Match  *)
(* takes the first route whose prefix starts the path.  A path is a        *)
(* sequence of characters.                                                 *)
(*                                                                         *)
(* An operator named Faulty... is a wrong version of the definition after  *)
(* it, kept to show that the properties notice it; nothing uses it.        *)
(***************************************************************************)
EXTENDS Integers, Sequences, SequencesExt, FiniteSetsExt

CONSTANT Paths   \* paths that requests ask for and upstream URLs have

VARIABLES
    table,   \* Router.routes, the longest prefix first
    proxies  \* Router.proxies: route id -> the route its proxy was built from

routerVars == <<table, proxies>>

\* A route, or the zero Route that Match returns with false.
NoRoute == [id |-> 0]

\* url.Parse fails on this upstream: the route gets no proxy.
Unparsable == "unparsable"

-----------------------------------------------------------------------------
(* SetRoutes *)

FaultyLonger(a, b) == Len(a.prefix) < Len(b.prefix)
Longer(a, b) == Len(a.prefix) > Len(b.prefix)

\* One round of the insertion sort: r moves left past strictly shorter prefixes.
InsertRoute(sorted, r) ==
    LET stop == Max({0} \cup {i \in DOMAIN sorted : ~Longer(r, sorted[i])})
    IN  InsertAt(sorted, stop + 1, r)

SortRoutes(list) ==
    LET sorted[n \in 0 .. Len(list)] ==
            IF n = 0 THEN <<>> ELSE InsertRoute(sorted[n - 1], list[n])
    IN  sorted[Len(list)]

\* The proxies of the routes of a list; ids are unique.
ProxiesOf(list) ==
    LET built == {r \in ToSet(list) : r.upstream # Unparsable}
    IN  [id \in {r.id : r \in built} |-> CHOOSE r \in built : r.id = id]

InitRouter == table = <<>> /\ proxies = ProxiesOf(<<>>)

SetRoutes(list) ==
    \E sorted \in {SortRoutes(list)} : table' = sorted /\ proxies' = ProxiesOf(sorted)

-----------------------------------------------------------------------------
(* Match and the Director *)

FaultyHits(path) == {i \in DOMAIN table : IsPrefix(path, table[i].prefix)}
Hits(path) == {i \in DOMAIN table : IsPrefix(table[i].prefix, path)}

Match(path) == IF Hits(path) = {} THEN NoRoute ELSE table[Min(Hits(path))]

\* The path of the upstream URL, put in front of the path of the request.
Joined(base, path) ==
    IF base # <<>> /\ Last(base) = "/" THEN Front(base) \o path ELSE base \o path

\* strings.TrimPrefix, and the slash that must come first.
Trimmed(prefix, joined) ==
    LET trimmed == IF IsPrefix(prefix, joined)
                   THEN SubSeq(joined, Len(prefix) + 1, Len(joined))
                   ELSE joined
    IN  IF IsPrefix(<<"/">>, trimmed) THEN trimmed ELSE <<"/">> \o trimmed

\* The path the upstream of a matched route (r) is asked for: a route that strips
\* its prefix takes it from the joined path.
FaultyAsked(base, r, path) == Trimmed(r.prefix, Joined(base, path))
Asked(base, r, path) ==
    IF r.strip THEN Trimmed(r.prefix, Joined(base, path)) ELSE Joined(base, path)

-----------------------------------------------------------------------------
(* Properties *)

\* The most specific route wins, whatever the order the routes were given in:
\* Match finds a route exactly when some prefix starts the path, and no route
\* of the table that starts it has a longer prefix.
MostSpecificAlwaysWins ==
    \A path \in Paths :
        LET starting == {r \in ToSet(table) : IsPrefix(r.prefix, path)}
            chosen == Match(path)
        IN  /\ chosen = NoRoute <=> starting = {}
            /\ starting # {} =>
                /\ chosen \in starting
                /\ \A r \in starting : Len(r.prefix) <= Len(chosen.prefix)

\* The Director takes away no more than the prefix that was matched, and nothing
\* if the route keeps its prefix: what is left (kept) reaches the upstream,
\* whatever the path of the upstream URL (base).  It is all that reaches it when
\* that URL has no path; an URL with a path keeps the prefix unless it starts
\* with it.  A path that was stripped is made absolute again.
StripsPrefix ==
    \A path \in Paths, base \in {<<>>} \cup Paths : Match(path) # NoRoute =>
        LET prefix == Match(path).prefix
            strip == Match(path).strip
            kept == IF strip THEN SubSeq(path, Len(prefix) + 1, Len(path)) ELSE path
            asked == Asked(base, Match(path), path)
        IN  /\ IsSuffix(kept, asked)
            /\ strip => asked[1] = "/"
            /\ base \in {<<>>, <<"/">>} =>
                asked = IF strip /\ ~IsPrefix(<<"/">>, kept) THEN <<"/">> \o kept ELSE kept
            /\ ~IsPrefix(prefix, Joined(base, path)) => asked = Joined(base, path)

=============================================================================
