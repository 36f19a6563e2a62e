---------------------------- MODULE AuthOutcome ----------------------------
(***************************************************************************)
(* What an answer of the EcoFlow endpoints proves about the credentials    *)
(* (auth_classification.py), and what the hosts of an account may answer   *)
(* to a sign-in (enhanced_auth.py, api.py).                                *)
(*                                                                         *)
(* An answer keeps what the classification looks at: the HTTP status, the  *)
(* application code of the body, and whether the payload has all that its  *)
(* reader needs (token and user id, or a certificate that decrypts).       *)
(***************************************************************************)
EXTENDS Naturals

CONSTANT
  Statuses  \* the HTTP statuses an endpoint may answer with

ASSUME StatusAssumption == Statuses \subseteq 100..599

AuthOutcomes == {"success", "auth_failure", "connection_failure"}
Responses == [status : Statuses, code : {"missing", "zero", "nonzero"}, complete : BOOLEAN]

AuthStatuses == {401, 403}

\* 408, 425, 429, the server errors and every other status that is no success
\* are all the same to the caller.
ClassifyTransport(status) ==
  IF status \in AuthStatuses THEN "auth_failure"
  ELSE IF status \in 200..299 THEN "undecided" ELSE "connection_failure"

ClassifyCredential(r) ==
  IF ClassifyTransport(r.status) # "undecided" THEN ClassifyTransport(r.status)
  ELSE CASE r.code = "missing" -> "connection_failure"
         [] r.code = "nonzero" -> "auth_failure"
         [] r.code = "zero"    -> "success"

ClassifyData(r) ==
  IF ClassifyTransport(r.status) # "undecided" THEN ClassifyTransport(r.status)
  ELSE IF r.code = "zero" THEN "success" ELSE "connection_failure"

\* Also the certificate's: a payload that is not usable is no refusal.
ClassifyLogin(r) ==
  IF ClassifyCredential(r) = "success" /\ ~r.complete THEN "connection_failure"
  ELSE ClassifyCredential(r)

\* The outcomes of one attempt at several hosts; the order does not matter, for
\* an attempt ends at the first success.
AnyRefusalMutant(outcomes) ==
  IF "success" \in outcomes THEN "success"
  ELSE IF "auth_failure" \in outcomes THEN "auth_failure" ELSE "connection_failure"
AggregateOutcomes(outcomes) ==
  IF "success" \in outcomes THEN "success"
  ELSE IF outcomes = {"auth_failure"} THEN "auth_failure" ELSE "connection_failure"

-----------------------------------------------------------------------------
(* The cloud: an account lives at one host, and no other host accepts it.  *)
(* Its host refuses only a wrong password, may answer unusably at any      *)
(* time, and may not answer at all.                                        *)

Refuses(r) == \/ r.status \in {401, 403}
              \/ r.status \in 200..299 /\ r.code = "nonzero"
Accepts(r) == r.status \in 200..299 /\ r.code = "zero" /\ r.complete

Classified(answers) == {ClassifyLogin(r) : r \in answers} \cup {"connection_failure"}

\* enhanced_login tries every host: what may come of it when the account's own
\* gives one of the answers, and the others any but an acceptance.
LoginOutcomes(answers) ==
  {o \in AuthOutcomes :
     \E home \in Classified(answers), foreign \in Classified({r \in Responses : ~Accepts(r)}) :
       o = AggregateOutcomes({home, foreign})}

ValidLogin   == LoginOutcomes({r \in Responses : ~Refuses(r)})
ChangedLogin == LoginOutcomes({r \in Responses : ~Accepts(r)})

\* get_enhanced_credentials asks one host.
CertificateOutcomes == Classified(Responses)

\* A list or detail request, with a token the endpoints may refuse at any time.
DiscoverOutcomes == {ClassifyData(r) : r \in Responses} \cup {"connection_failure"}
DetailOutcomes ==
  {AggregateOutcomes({a, b, c}) : a, b, c \in DiscoverOutcomes}
=============================================================================
