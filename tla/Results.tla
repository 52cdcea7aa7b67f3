------------------------------ MODULE Results -------------------------------
(***************************************************************************)
(* What a collection module hands to the core for one function             *)
(* (schema.ModuleExecution): the results, whether Error is set, and the    *)
(* target the function was asked about.  Values stand for classes of       *)
(* strings: hosts, addresses and mailboxes that validator.Validate accepts *)
(* or refuses, and texts.  Local ids are made by modutil.LocalIDGenerator: *)
(* here the record a result was read from and its place in it.             *)
(***************************************************************************)
EXTENDS Naturals, Sequences, FiniteSets, Functions

Key(t, v) == [type |-> t, value |-> v]

\* A reference to an entity: by local id, or by type and value only.
Ref(k, id) == [key |-> k, lid |-> id]
ByValue(k) == Ref(k, 0)

\* The id given at a place of a record. The mutant starts anew with every record.
IdOfRecord(record, place) == place
Id(record, place) == 100 * record + place

\* Results, by what processing tells apart.
Result(cat, k, source, id, tags) ==
    [key |-> k, category |-> cat, source |-> source, lid |-> id, tagged |-> tags]
Node(k, source, id) == Result("node", k, source, id, FALSE)
Tagged(k, source, id) == Result("node", k, source, id, TRUE)
Property(k, source, id) == Result("property", k, source, id, FALSE)

\* The result r as the source of another, by its local id.
By(r) == Ref(r.key, r.lid)

Output(fn, target, results, error) ==
    [fn |-> fn, target |-> target, results |-> results, error |-> error]

-----------------------------------------------------------------------------
(* The values. The target of the functions that take a domain is "t", whose  *)
(* registered domain it is; addresses and numbers have targets of their own. *)

Registered == {"t", "o"}
Hosts == Registered \cup {"w.t"}
Names == Hosts \cup {"v.w.t"}
Addresses == {"a1", "a2"}
Mailboxes == {"m@o", "n@t"}
Malformed == {"bad"}

Zone(h) == CASE h \in {"t", "w.t", "v.w.t", "n@t"} -> "t"
             [] h \in {"o", "m@o"} -> "o"

Domain(h) == Key("domain", h)
Host(h) == Key(IF h \in Registered THEN "domain" ELSE "subdomain", h)
Address(a) == Key("ipv4", a)
Email(m) == Key("email", m)

T == Domain("t")
Root == ByValue(T)

Others == {Host(h) : h \in Hosts \ {"t"}}
AnyHost == {Host(h) : h \in Hosts}
AnyAddress == {Key("ip", a) : a \in Addresses}
AnyMailbox == {Email(m) : m \in Mailboxes}
KeysOf(type, values) == {Key(type, v) : v \in values}

-----------------------------------------------------------------------------
(* Sets of the sets of results that a response may lead to. *)

\* The results of up to two records, each giving one of the sets R(i); a record
\* that cannot be read gives nothing.
Pair(R(_)) == {a \cup b : a \in R(1) \cup {{}}, b \in R(2) \cup {{}}}

\* At most one further result, made of a key: none, or of(k) of one k.
Perhaps(keys, of(_)) == {{}} \cup {{of(k)} : k \in keys}

\* Every union of one member of A and one of B; of a member of each of the sets.
Join(A, B) == {a \cup b : a \in A, b \in B}
All(sets) == FoldFunction(Join, {{}}, sets)

\* Properties of these kinds, all or none of them: they make one group.
Facts(source, kinds, record, place) ==
    {{}, {Property(Key(kinds[i], "some"), source, Id(record, place + i)) :
          i \in DOMAIN kinds}}

\* The result r, with one of the sets of results below it, or nothing.
Headed(r, below) == {{}} \cup {{r} \cup b : b \in below}

\* At most one result, made of a key, with one of the sets of results below it.
Each(keys, of(_), below(_)) ==
    {{}} \cup UNION {Headed(of(k), below(By(of(k)))) : k \in keys}

\* What a function found for a target.
Lookup(fn, k, found) == {Output(fn, k, results, FALSE) : results \in found}
=============================================================================
