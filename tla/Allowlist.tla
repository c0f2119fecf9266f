------------------------------ MODULE Allowlist -----------------------------
(***************************************************************************)
(* The entries of an allowlist and the names they match, as Rust has it    *)
(* (AllowlistEntry in crates/hyperbox-core/src/config.rs, with the         *)
(* evaluator of crates/hyperbox-network/src/lib.rs) and as the script of   *)
(* the apple helper does (apple_helper.rs).  A name is a sequence of       *)
(* characters: "a" stands for a letter, a digit or a hyphen, "/" for a     *)
(* character that is none of these, such as the underscore of a name that  *)
(* is asked for; case is folded before.                                    *)
(***************************************************************************)
EXTENDS Naturals, Sequences, SequencesExt

Characters == {"a", ".", "*", "/"}
NotAnEntry == [kind |-> "none", name |-> <<>>]

\* The characters of a domain, for the parser and in the expression of the evaluator.
DomainOnly(name) == \A i \in DOMAIN name : name[i] \in {"a", "."}

IsHostname(name) ==
    /\ name # <<>>
    /\ Head(name) # "." /\ Last(name) # "."
    /\ \A i \in 1 .. Len(name) - 1 : ~(name[i] = "." /\ name[i + 1] = ".")
    /\ DomainOnly(name)

\* AllowlistEntry::parse
ParseEntry(raw) ==
    LET wild == IsPrefix(<<"*", ".">>, raw)
        name == IF wild THEN SubSeq(raw, 3, Len(raw)) ELSE raw
    IN  IF IsHostname(name) THEN [kind |-> IF wild THEN "wildcard" ELSE "exact", name |-> name]
        ELSE NotAnEntry

\* to_pattern_string
Pattern(entry) == IF entry.kind = "wildcard" THEN <<"*", ".">> \o entry.name ELSE entry.name

\* AllowlistEntry::matches, of a host the evaluator takes for a domain (allows_domain).
EntryMatches(entry, host) ==
    LET prefix == SubSeq(host, 1, Len(host) - Len(entry.name)) IN
    /\ host # <<>> /\ DomainOnly(host)
    /\ IF entry.kind = "exact" THEN host = entry.name
       ELSE IsSuffix(entry.name, host) /\ prefix # <<>> /\ Last(prefix) = "."

\* The script's allows, for one value of its list.
ScriptMatches(value, host) ==
    /\ host # <<>>
    /\ \/ host = value
       \/ IsPrefix(<<"*", ".">>, value) /\ IsSuffix(Tail(value), host)

-----------------------------------------------------------------------------
NamesUpTo(n) == UNION {[1 .. k -> Characters] : k \in 0 .. n}

\* An entry matches for the script what it matches for the server, and of the names of a
\* domain's characters no other: a name with another character, such as _dmarc.github.com,
\* is matched by a wildcard in the script and never at the server.  And an entry does not
\* change when its pattern is parsed again by the server and by the helper.
ListsAgree(n) ==
    \A raw \in NamesUpTo(n) :
        LET entry == ParseEntry(raw) IN
        entry # NotAnEntry =>
            /\ ParseEntry(Pattern(entry)) = entry
            /\ \A host \in NamesUpTo(n + 1) :
                  EntryMatches(entry, host) <=>
                     ScriptMatches(Pattern(entry), host) /\ DomainOnly(host)
=============================================================================
