--------------------------- MODULE PermissionRules ---------------------------
(* Permission rules (permission_rules.rs): the rules are judged in order    *)
(* for one call, the last that matches wins, and the access mode decides    *)
(* the rest.  A path is matched by backtracking over the stars of the       *)
(* pattern; one step of the model is one turn of that loop.                 *)
EXTENDS Integers, Sequences, FiniteSets

CONSTANTS
    Letters,        \* letters of names; "/" is the separator
    MaxPattern,     \* bound on the tokens of a pattern
    MaxPath,        \* bound on the characters of a path
    MaxRules        \* bound on the rules

VARIABLES
    call,           \* what classify makes of it: its action, its path
    at,             \* "rules", "match" or "done"
    rule,           \* the rule in hand
    judged,         \* rules judged so far
    tries,          \* the globs that are still to be tried, the first in hand
    place,          \* of the glob in hand: tokens and characters behind it
    stars,          \* the open stars, oldest first
    effect,         \* evaluate's `decided`
    expected,       \* the same by the meaning of the patterns
    decision

vars == <<call, at, rule, judged, tries, place, stars, effect, expected, decision>>

matcher == <<tries, place, stars>>

Separator == "/"
Stars == {"*", "**"}
Tokens == Letters \cup {Separator, "?"} \cup Stars
Effects == {"allow", "deny", "ask"}

Strings(S, n) == UNION {[1..k -> S] : k \in 0..n}

(* tokenize: two stars in a row are one token. *)
Patterns ==
    {p \in Strings(Tokens, MaxPattern) \ {<<>>} :
        \A i \in 1..Len(p) - 1 : p[i] = "*" => p[i + 1] \notin Stars}

(* classify: a file tool is known by its path, others by their alias. *)
Calls ==
    [action : {"path"}, path : Strings(Letters \cup {Separator}, MaxPath)]
    \cup [action : {"tool"}, path : {<<>>}]

NoRule == [action |-> "none", pattern |-> <<>>, effect |-> "none"]
Rest == tries = <<>> /\ place = <<1, 1>> /\ stars = <<>>
Start == <<1, 1>>

Init ==
    /\ call \in Calls
    /\ at = "rules" /\ rule = NoRule /\ judged = 0 /\ Rest
    /\ effect = "none" /\ expected = "none" /\ decision = "none"

-----------------------------------------------------------------------------
(* Meaning *)

(* From which tokens and characters on the pattern covers the string. *)
CoversFrom(pattern, string) ==
    LET Passes(i, j) == pattern[i] = "**" \/ string[j] # Separator
        C[from \in (1..Len(pattern) + 1) \X (1..Len(string) + 1)] ==
          LET i == from[1]
              j == from[2]
          IN IF i > Len(pattern) THEN j > Len(string)
             ELSE IF pattern[i] \in Stars
                  THEN C[<<i + 1, j>>] \/ (j <= Len(string) /\ Passes(i, j) /\ C[<<i, j + 1>>])
                  ELSE /\ j <= Len(string) /\ C[<<i + 1, j + 1>>]
                       /\ \/ pattern[i] = string[j]
                          \/ pattern[i] = "?" /\ string[j] # Separator
    IN C

Covers(pattern, string) == CoversFrom(pattern, string)[Start]

From(string, i) == SubSeq(string, i, Len(string))
UnderDirectory(p) == Len(p) >= 2 /\ From(p, Len(p) - 1) = <<Separator, "**">>
AnyDirectory(p) == Len(p) >= 2 /\ SubSeq(p, 1, 2) = <<"**", Separator>>
Relative(p) == p[1] \notin Stars \cup {Separator, "?"}

(* Where a pattern may begin: a relative one behind any separator too. *)
Beginnings(p, path) ==
    {1} \cup (IF Relative(p) THEN {i + 1 : i \in {j \in DOMAIN path : path[j] = Separator}} ELSE {})

(* A directory's pattern covers the directory, and a file of any directory *)
(* may be in none.                                                         *)
PathMatches(p, path) ==
    \E i \in Beginnings(p, path), q \in {p} \cup (IF AnyDirectory(p) THEN {From(p, 3)} ELSE {}) :
        Covers(q, From(path, i))
        \/ (UnderDirectory(q) /\ Covers(SubSeq(q, 1, Len(q) - 2), From(path, i)))

Matches(r) == r.action = call.action /\ (r.action = "tool" \/ PathMatches(r.pattern, call.path))

-----------------------------------------------------------------------------
(* The code *)

(* path_glob_matches *)
Globs(p, string) ==
    <<[pattern |-> p, string |-> string]>>
    \o IF UnderDirectory(p) THEN <<[pattern |-> SubSeq(p, 1, Len(p) - 2), string |-> string]>> ELSE <<>>

(* path_matches: a relative pattern is tried behind each separator. *)
Behind(p, path) ==
    LET B[i \in 1..Len(path) + 1] ==
          IF i > Len(path) THEN <<>>
          ELSE (IF path[i] = Separator THEN Globs(p, From(path, i + 1)) ELSE <<>>) \o B[i + 1]
    IN B[1]

Attempts(p, path) ==
    Globs(p, path)
    \o IF Relative(p) THEN Behind(p, path) ELSE IF AnyDirectory(p) THEN Globs(From(p, 3), path) ELSE <<>>

(* The next rule, of any pattern: one of another action is passed over. *)
Consider ==
    /\ at = "rules" /\ judged < MaxRules
    /\ \E action \in {"path", "tool"}, e \in Effects :
       \E p \in IF action = "path" THEN Patterns ELSE {<<>>} :
         LET r == [action |-> action, pattern |-> p, effect |-> e]
         IN /\ expected' = IF Matches(r) THEN e ELSE expected
            /\ IF action = "path" /\ call.action = "path"
               THEN /\ at' = "match" /\ rule' = r /\ tries' = Attempts(p, call.path)
                    /\ place' = Start /\ stars' = <<>> /\ UNCHANGED effect
               ELSE /\ effect' = IF action = call.action THEN e ELSE effect
                    /\ rule' = [r EXCEPT !.pattern = <<>>] /\ UNCHANGED <<at, matcher>>
    /\ judged' = judged + 1
    /\ UNCHANGED <<call, decision>>

Pattern == Head(tries).pattern
String == Head(tries).string
Token == IF place[1] > Len(Pattern) THEN "end" ELSE Pattern[place[1]]
AtEnd == place[2] > Len(String)

Judging == at = "match" /\ UNCHANGED <<call, judged, expected, decision>>

Literal ==
    ~AtEnd /\ (Token = String[place[2]] \/ (Token = "?" /\ String[place[2]] # Separator))

Advance ==
    /\ Judging /\ Literal
    /\ place' = <<place[1] + 1, place[2] + 1>>
    /\ UNCHANGED <<at, rule, tries, stars, effect>>

OpenStar ==
    /\ Judging /\ ~AtEnd /\ Token \in Stars
    /\ stars' = Append(stars, place)
    /\ place' = <<place[1] + 1, place[2]>>
    /\ UNCHANGED <<at, rule, tries, effect>>

OnlyStarsLeft == \A i \in place[1]..Len(Pattern) : Pattern[i] \in Stars

(* A slip: the first rule that matches is final. *)
FirstFound ==
    /\ Judging /\ AtEnd /\ OnlyStarsLeft
    /\ effect' = IF effect = "none" THEN rule.effect ELSE effect
    /\ at' = "rules" /\ rule' = NoRule /\ tries' = <<>> /\ place' = Start /\ stars' = <<>>

(* Some glob has matched: the rule decides so far. *)
Found ==
    /\ Judging /\ AtEnd /\ OnlyStarsLeft
    /\ effect' = rule.effect
    /\ at' = "rules" /\ rule' = NoRule /\ tries' = <<>> /\ place' = Start /\ stars' = <<>>

(* widen_star: the newest star that may take one more character. *)
CanWiden(k) ==
    stars[k][2] <= Len(String)
    /\ (Pattern[stars[k][1]] = "**" \/ String[stars[k][2]] # Separator)
Open == {k \in DOMAIN stars : CanWiden(k)}

Stuck == IF AtEnd THEN ~OnlyStarsLeft ELSE ~Literal /\ Token \notin Stars

Widen ==
    /\ Judging /\ Stuck /\ Open # {}
    /\ LET k == CHOOSE i \in Open : \A j \in Open : j <= i
       IN /\ stars' = Append(SubSeq(stars, 1, k - 1), <<stars[k][1], stars[k][2] + 1>>)
          /\ place' = <<stars[k][1] + 1, stars[k][2] + 1>>
    /\ UNCHANGED <<at, rule, tries, effect>>

(* The glob fails; the next is tried, or the rule does not match. *)
Fails ==
    /\ Judging /\ Stuck /\ Open = {}
    /\ tries' = Tail(tries) /\ place' = Start /\ stars' = <<>>
    /\ IF Len(tries) > 1 THEN UNCHANGED <<at, rule>> ELSE at' = "rules" /\ rule' = NoRule
    /\ UNCHANGED effect

(* decide_for_tool: the tool's own approval outlives a rule that allows. *)
Automatic(mode, trusted) == mode = "full" \/ (mode = "reads" /\ trusted)

Decides(mode, trusted, asks) ==
    IF effect = "none" THEN IF Automatic(mode, trusted) THEN "allow" ELSE "ask"
    ELSE IF effect = "allow" /\ asks THEN "ask" ELSE effect

Decide ==
    /\ at = "rules"
    /\ \E mode \in {"ask", "reads", "full"}, trusted, asks \in BOOLEAN :
         decision' = Decides(mode, trusted, asks)
    /\ at' = "done"
    /\ UNCHANGED <<call, rule, judged, matcher, effect, expected>>

Next == Consider \/ Advance \/ OpenStar \/ Found \/ Widen \/ Fails \/ Decide

Spec == Init /\ [][Next]_vars

-----------------------------------------------------------------------------
(* "The LAST matching rule decides" (evaluate): after every rule, the      *)
(* effect so far is that of the last rule whose pattern means the path,    *)
(* however the stars were widened and given up.                            *)
LastMatchDecides == at # "match" => effect = expected

(* "A tool name: `shell_run*` covers the shell family" (PERMISSIONS.md):   *)
(* a rule for tools also governs those that are known by their path or     *)
(* command.                                                                *)
ToolRulesCover == at = "rules" /\ rule.action = "tool" => effect = rule.effect
=============================================================================
