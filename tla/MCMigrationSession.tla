------------------------- MODULE MCMigrationSession -------------------------
(***************************************************************************)
(* Small instances of MigrationSession for TLC: two workspaces of one move *)
(* and a third one, each with or without a configured credential.          *)
(***************************************************************************)
EXTENDS MigrationSession, TLC

\* Configured credentials: the plain one, the same with another vault, with
\* another host and with another endpoint, one of a second account on a second
\* name of the same endpoint, and one whose rotator key is a provider variable
\* of the first.  The third workspace has a variable file for its password.
Credential ==
  LET plain == [account |-> "a1", host |-> "h1", endpoint |-> "e1", user |-> "u",
                pass |-> "p", key |-> "k", secret |-> "s1"]
  IN  {plain, [plain EXCEPT !.secret = "s2"], [plain EXCEPT !.secret = Missing],
       [plain EXCEPT !.host = "h2"], [plain EXCEPT !.endpoint = "e2"],
       [plain EXCEPT !.account = "a2", !.host = "h2", !.key = "l"],
       [plain EXCEPT !.account = "a2", !.user = "v", !.pass = "q", !.key = "p"],
       [plain EXCEPT !.key = "p"]}

At(scope, selector, found) ==
  {[x \in {"scope", "selector", "supplied"} \cup DOMAIN b |->
      CASE x = "scope" -> scope
        [] x = "selector" -> selector
        [] x = "supplied" -> IF selector = "rest" THEN {b.pass} ELSE {}
        [] OTHER -> b[x]] : b \in found}

Slot(scope, selector) ==
  {<<>>} \cup {<<b>> : b \in At(scope, selector, Credential)}

MCConfigurations ==
  {cutover \o other \o original : cutover \in Slot("cutover", "new"),
     other \in Slot("cutover", "rest"), original \in Slot("original", "old")}

MCMoves == {[source |-> "old", destination |-> "new"]}
MCInherited == [name \in {"u", "p", "q", "k", "l"} |-> "inherited"]
=============================================================================
