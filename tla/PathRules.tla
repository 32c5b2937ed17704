----------------------------- MODULE PathRules -----------------------------
(***************************************************************************)
(* The paths of a Proxy Delivery: what forwardedPath                       *)
(* (internal/agentapi/proxy.go) lets through, and what the path prefix of  *)
(* a Policy matches (internal/config/pathprefix.go).                       *)
(*                                                                         *)
(* A path is a sequence of the characters that these functions tell apart, *)
(* written as in the escaped path: "a" is any ordinary one, "%FF" a byte   *)
(* that is not UTF-8, "%zz" an invalid escape.                             *)
(***************************************************************************)
EXTENDS Naturals, Sequences, SequencesExt

Invalid == "%zz"

\* url.PathUnescape on one character.
unescaped == [c \in {"a", ".", "/", ";", "%2F", "%5C", "%2E", "%FF"} |->
                CASE c = "%2F" -> "/" [] c = "%5C" -> "\\" [] c = "%2E" -> "." [] OTHER -> c]
PathUnescape(seg) == [i \in DOMAIN seg |-> unescaped[seg[i]]]

Holds(seg, chars) == \E i \in DOMAIN seg : seg[i] \in chars

\* strings.Split at every character of seps.
Split(s, seps) ==
  FoldLeft(LAMBDA parts, c :
             IF c \in seps THEN Append(parts, <<>>)
             ELSE [parts EXCEPT ![Len(parts)] = Append(@, c)],
           << <<>> >>, s)

Dots == {<<".">>, <<".", ".">>}

\* (Faulty variants are named Bad...: each is a slip this code could have, and a
\* property of MCRequests rejects it.)
BaddotSegment(seg) == \E part \in Range(Split(seg, {"/", "\\"})) : part \in Dots

\* A decoded segment holds a dot segment, behind an encoded slash or backslash or
\* before ;parameters too.
dotSegment(seg) ==
  \E part \in Range(Split(seg, {"/", "\\"})) : Head(Split(part, {";"})) \in Dots

\* Whether forwardedPath forwards the escaped path rest, which has its leading slash
\* and comes after /proxy/{secret_name}/{upstream}.
forwardedPath(rest) ==
  \A seg \in Range(Split(rest, {"/"})) : ~Holds(seg, {Invalid}) /\ ~dotSegment(PathUnescape(seg))

\* The segments of an escaped path, unless it could reach something other than it
\* appears to.
TrimPrefix(path) == IF path # <<>> /\ Head(path) = "/" THEN Tail(path) ELSE path

decodePath(path) ==
  LET raw  == Split(TrimPrefix(path), {"/"})
      segs == [i \in DOMAIN raw |-> PathUnescape(raw[i])]
  IN  CASE TrimPrefix(path) = <<>> -> [ok |-> TRUE, segments |-> <<>>]
        [] Holds(path, {Invalid, "%FF"}) -> [ok |-> FALSE, segments |-> <<>>]
        [] \E i \in DOMAIN segs : dotSegment(segs[i]) -> [ok |-> FALSE, segments |-> <<>>]
        [] OTHER -> [ok |-> TRUE, segments |-> segs]

\* The segments of a prefix as the Operator writes it, or a refusal.
TrimSuffix(s) == IF s # <<>> /\ Last(s) = "/" THEN Front(s) ELSE s

ParsePathPrefix(s) ==
  LET raw  == Split(Tail(TrimSuffix(s)), {"/"})
      segs == [i \in DOMAIN raw |-> PathUnescape(raw[i])]
  IN  CASE s = <<>> \/ Head(s) # "/" -> [ok |-> FALSE, segments |-> <<>>]
        [] s = <<"/">> -> [ok |-> TRUE, segments |-> <<>>]
        [] \E i \in DOMAIN raw : raw[i] = <<>> \/ Holds(raw[i], {";", Invalid, "%FF"}) ->
             [ok |-> FALSE, segments |-> <<>>]
        [] \E i \in DOMAIN segs : Holds(segs[i], {"/", "\\", ";"}) \/ segs[i] \in Dots ->
             [ok |-> FALSE, segments |-> <<>>]
        [] OTHER -> [ok |-> TRUE, segments |-> segs]

\* A prefix matches by whole decoded segments.
Matches(prefix, path) == decodePath(path).ok /\ IsPrefix(prefix, decodePath(path).segments)
=============================================================================
