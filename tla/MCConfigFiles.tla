--------------------------- MODULE MCConfigFiles ---------------------------
(***************************************************************************)
(* The configuration files MCDecisions draws: one line varied over its     *)
(* boundary values, in a file whose other sections vary in what matters to *)
(* it (what is enabled, where it binds, the secret policies).              *)
(***************************************************************************)
EXTENDS Integers, Sequences, FiniteSets, SequencesExt, TLC
LOCAL C == INSTANCE ConfigFile

Entry(key, value) == [key |-> key, mark |-> "plain", blank |-> FALSE, value |-> value]
Lines(f) == LET keys == SetToSeq(DOMAIN f) IN [i \in DOMAIN keys |-> Entry(keys[i], f[keys[i]])]

Profile(id, key) == [id |-> id, key |-> key, chain |-> TRUE, names |-> TRUE]
Complete ==
  "tls.identities.profiles" :> <<Profile("p", "file")>> @@ "tls.client_ca_bundle" :> "ca"
  @@ "tls.revocation.crl_bundle" :> "crl"

(* One line of a section of the document, or a mapping the reader refuses. *)
Numbers ==
  {-1, 0, 16, 20, 4097, 5 * C!Second, C!Minute, 65537, 300 * C!Second + 1, 64 * C!MiB + 1}
Changes(section) ==
  LET default == C!defaultDocument[section]
      flags == {"enabled", "required", "limit_proxy_state", "admin_only", "allow_environment_secrets",
                "strict_secret_files", "single_connect.enabled", "tls.enabled", "tls.reject_early_data",
                "tls.session_resumption.enabled", "tls.session_resumption.recheck_client_revocation",
                "require_message_authenticator"}
      texts == {"bind", "transport", "message_authenticator", "startup_failure_mode", "tls.minimum_version",
                "tls.client_authentication", "tls.revocation.mode", "tls.identities.default_id",
                "tls.client_ca_bundle", "tls.revocation.crl_bundle"}
      values(k) ==
        CASE k \in flags -> BOOLEAN
          [] k \in texts -> {"", "other", "p", "allow_missing"}
          [] k = "tls.identities.profiles" ->
               {<<>>, <<Profile("p", "none")>>, <<Profile("p", "environment")>>, <<Profile("p", "both")>>,
                <<Profile("p", "file"), Profile("p", "file")>>, <<[Profile("p", "file") EXCEPT !.chain = FALSE]>>}
          [] OTHER -> Numbers
  IN UNION {{k :> v : v \in values(k)} : k \in DOMAIN default \cup (IF section = "dynauth" THEN {"require_message_authenticator"} ELSE {})}

Sections == DOMAIN C!defaultDocument
Parts == UNION {{[section |-> s, change |-> c] : c \in Changes(s)} : s \in Sections}

(* The rest of the file.                                                   *)
Around ==
  {[secure |-> se, radius |-> ra, length |-> le] :
     se \in {"complete", "off"}, ra \in {"off", "on", "clash"}, le \in {0, 20}}
Base(a) ==
  [s \in Sections |->
     CASE s = "secure" -> IF a.secure = "off" THEN "enabled" :> FALSE ELSE Complete
       [] s = "security" -> "allow_environment_secrets" :> (a.length > 0)
       [] s = "legacySecrets" /\ a.length > 0 -> "minimum_length_characters" :> a.length
       [] s \in {"access", "accounting"} /\ a.radius # "off" ->
            "enabled" :> TRUE @@ "bind" :> (IF a.radius = "clash" THEN "same" ELSE s)
       [] s = "radsec" /\ a.radius # "off" -> "enabled" :> TRUE @@ Complete
       [] OTHER -> <<>>]

Files(part) ==
  LET of(a, schema) ==
        LET lines(s) == IF s = part.section THEN part.change @@ Base(a)[s] ELSE Base(a)[s]
            names == {n \in DOMAIN C!Names(schema) : DOMAIN lines(C!Names(schema)[n]) # {}}
        IN [schema |-> schema, documents |-> 1, sections |-> [n \in names |-> Lines(lines(C!Names(schema)[n]))]]
      plain == {of(a, v) : a \in Around, v \in {1, 2}}
      one == CHOOSE f \in plain : f.schema = 1 /\ DOMAIN f.sections # {}
      some == CHOOSE n \in DOMAIN one.sections : TRUE
  IN plain \cup
       {[one EXCEPT !.schema = 3], [one EXCEPT !.documents = 2], [one EXCEPT !.schema = 2],
        [one EXCEPT !.sections[some] = @ \o @],
        [one EXCEPT !.sections[some][1].mark = "anchor"],
        [one EXCEPT !.sections[some][1].blank = TRUE]}

=============================================================================
