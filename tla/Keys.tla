---------------------------------- MODULE Keys ----------------------------------
(***************************************************************************)
(* The certificate and the key that a server needs (src/src/config.rs):     *)
(* AirDropConfig::new makes them when one of the files does not exist, and  *)
(* server_tls reads them at every Start.  Applets may be started one after  *)
(* the other or at once, and may die at any moment; a run below is the life *)
(* of one of them.                                                          *)
(*                                                                         *)
(* A text is the sequence of its PEM markers and base64 bodies; a body is   *)
(* named by the run that made it, or by Older.                              *)
(***************************************************************************)
EXTENDS Naturals, Sequences

CONSTANTS
  Runs,   \* the runs of the applet
  Older   \* what made the pair that may be there at first

VARIABLES
  exists,    \* the files that exist
  text,      \* the text of each file
  at,        \* where each run is
  disturbed  \* history: a run died while it made its pair, or another started then

vars == <<exists, text, at, disturbed>>

Files == {"cert", "key"}
Markers == {"BEGIN", "END", "--"}

Pem(p) == <<"BEGIN", p, "END">>

\* What a write that broke off leaves of it.
Torn(p) == {<<>>, <<"BEGIN">>, <<"BEGIN", p>>}

\* The four places of create_default_key, and the others of a run.
Creating == {"open cert", "write cert", "open key", "write key"}
Opens(f) == IF f = "cert" THEN "open cert" ELSE "open key"
Writes(f) == IF f = "cert" THEN "write cert" ELSE "write key"
After(f) == IF f = "cert" THEN "open key" ELSE "ready"

\* The user's ~/.opendrop/keys is empty, or has the pair of another program.
Init ==
  /\ exists \in {{}, Files}
  /\ text = [f \in Files |-> IF f \in exists THEN Pem(Older) ELSE <<>>]
  /\ at = [r \in Runs |-> "off"]
  /\ disturbed = FALSE

-----------------------------------------------------------------------------
(* Making the pair. *)

Go(r, place) == at' = [at EXCEPT ![r] = place]

(* AirDropConfig::new asks only whether the files exist. *)
Start(r) ==
  /\ at[r] = "off"
  /\ Go(r, IF exists = Files THEN "ready" ELSE "open cert")
  /\ disturbed' = (disturbed \/ \E o \in Runs : at[o] \in Creating)
  /\ UNCHANGED <<exists, text>>

(* fs::write creates or empties the file, *)
Open(r, f) ==
  /\ at[r] = Opens(f)
  /\ exists' = exists \cup {f}
  /\ text' = [text EXCEPT ![f] = <<>>]
  /\ Go(r, Writes(f))
  /\ UNCHANGED disturbed

(* and then writes the text. *)
Write(r, f) ==
  /\ at[r] = Writes(f)
  /\ text' = [text EXCEPT ![f] = Pem(r)]
  /\ Go(r, After(f))
  /\ UNCHANGED <<exists, disturbed>>

(* A full disk: create_default_key returns the error, and the applet, which *)
(* has no configuration, does not go on.                                    *)
WriteFails(r, f) ==
  /\ at[r] = Writes(f)
  /\ text' \in {[text EXCEPT ![f] = s] : s \in Torn(r)}
  /\ Go(r, "dead") /\ disturbed' = TRUE
  /\ UNCHANGED exists

(* The applet is closed, killed, or loses its power. *)
Dies(r) ==
  /\ at[r] \in Creating \cup {"ready", "built", "refused"}
  /\ Go(r, "dead")
  /\ disturbed' = (disturbed \/ at[r] \in Creating)
  /\ UNCHANGED <<exists, text>>

-----------------------------------------------------------------------------
(* Reading the pair. *)

\* The bodies of a text: what stands before an END, from the BEGIN, or the
\* start of the file, before it.
Bodies(t) ==
  { SubSeq(t, ij[1] + 1, ij[2] - 1) :
      ij \in { ij \in (0 .. Len(t)) \X (1 .. Len(t)) :
                 /\ ij[1] < ij[2] /\ t[ij[2]] = "END"
                 /\ ij[1] = 0 \/ t[ij[1]] = "BEGIN"
                 /\ \A k \in ij[1] + 1 .. ij[2] - 1 : t[k] \notin {"BEGIN", "END"} } }

\* rustls_pemfile takes base64 and refuses every other character.
Decodes(body) == \A k \in 1 .. Len(body) : body[k] \notin Markers

\* load_certs cuts a block at end + 2, where end is the place of the END
\* marker: its first two dashes go into the body.
CertBlock(body) == Append(body, "--")

CertsLoad(t) == Bodies(t) # {} /\ \A b \in Bodies(t) : Decodes(CertBlock(b))

\* load_key hands the whole text to the library, which wants every section
\* ended.
KeyLoads(t) ==
  /\ Bodies(t) # {} /\ \A b \in Bodies(t) : Decodes(b)
  /\ t[Len(t)] = "END"

(* server_tls, at every Start on the Receive page. *)
ServerTls(r) ==
  /\ at[r] \in {"ready", "built", "refused"}
  /\ Go(r, IF CertsLoad(text["cert"]) /\ KeyLoads(text["key"]) THEN "built" ELSE "refused")
  /\ UNCHANGED <<exists, text, disturbed>>

-----------------------------------------------------------------------------
Next ==
  \E r \in Runs :
    \/ Start(r) \/ Dies(r) \/ ServerTls(r)
    \/ \E f \in Files : Open(r, f) \/ Write(r, f) \/ WriteFails(r, f)

Spec == Init /\ [][Next]_vars

-----------------------------------------------------------------------------
(* Properties *)

TypeOK ==
  /\ exists \subseteq Files
  /\ text \in [Files -> Seq(Markers \cup Runs \cup {Older})]
  /\ at \in [Runs -> Creating \cup {"off", "ready", "built", "refused", "dead"}]
  /\ disturbed \in BOOLEAN

(* `Build a rustls server config from the persisted cert/key' (config.rs,   *)
(* of server_tls): an applet whose start found or made the pair gets its    *)
(* server configuration.                                                    *)
PersistedServes == \A r \in Runs : at[r] # "refused"

(* Who made both files, whole. *)
PairOf(p) == exists = Files /\ \A f \in Files : text[f] = Pem(p)

(* When no run died while it made its pair and no other was started then,   *)
(* every run that has a configuration has a whole pair that belongs         *)
(* together (config.rs new, create_default_key).                            *)
UndisturbedPair ==
  (~disturbed /\ \E r \in Runs : at[r] \in {"ready", "built", "refused"})
    => \E p \in Runs \cup {Older} : PairOf(p)

(* Once both files exist and nobody is making them, nothing ever changes    *)
(* them again: a torn or mixed pair stays as it is (config.rs new, which    *)
(* asks only whether the files exist).                                      *)
NeverRepaired ==
  [][ (exists = Files /\ \A r \in Runs : at[r] \notin Creating)
        => UNCHANGED <<exists, text>> ]_vars

(* No applet ever gets a server configuration, whatever the files hold.     *)
NeverBuilt == \A r \in Runs : at[r] # "built"
=============================================================================
