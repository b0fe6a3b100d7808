-------------------------------- MODULE Glob --------------------------------
(* Patterns of subscriptions (server/src/glob.ts): paths and patterns are    *)
(* sequences of segments, "" between two slashes; a literal segment may be   *)
(* written %2A for a star.                                                   *)
EXTENDS Integers, Sequences

Wild == "*"
DeepWild == "**"

SplitPath(p) == SelectSeq(p, LAMBDA segment : segment # "")

Literal(segment) == IF segment \in {"%2A", "%2a"} THEN Wild ELSE segment

MatchParts(pattern, path) ==
    LET np == Len(pattern)
        ns == Len(path)
        match[pi \in 1 .. (np + 1), si \in 1 .. (ns + 1)] ==
          IF pi <= np /\ si <= ns
          THEN CASE pattern[pi] = DeepWild -> \E i \in si .. (ns + 1) : match[pi + 1, i]
                 [] pattern[pi] = Wild \/ Literal(pattern[pi]) = path[si] -> match[pi + 1, si + 1]
                 [] OTHER -> FALSE
          ELSE si = ns + 1 /\ \A i \in pi .. np : pattern[i] = DeepWild
    IN  match[1, 1]

GlobMatch(pattern, path) == MatchParts(SplitPath(pattern), SplitPath(path))

\* The reference: the pattern's segments divide the path among them, one each
\* and any number for **.
GlobExpands(pattern, path) ==
    \E cut \in [0 .. Len(pattern) -> 0 .. Len(path)] :
        /\ cut[0] = 0 /\ cut[Len(pattern)] = Len(path)
        /\ \A i \in 1 .. Len(pattern) :
             IF pattern[i] = DeepWild THEN cut[i] >= cut[i - 1]
             ELSE /\ cut[i] = cut[i - 1] + 1
                  /\ pattern[i] = Wild \/ Literal(pattern[i]) = path[cut[i]]

\* Of all patterns and paths of three segments at most.
ASSUME GlobMatchesExpansions ==
    \A n, m \in 0 .. 3 :
        \A pattern \in [1 .. n -> {"a", "%2A", Wild, DeepWild}], path \in [1 .. m -> {"a", "*"}] :
            GlobMatch(pattern, path) <=> GlobExpands(pattern, path)
=============================================================================
