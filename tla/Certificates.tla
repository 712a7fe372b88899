---------------------------- MODULE Certificates ----------------------------
(***************************************************************************)
(* security/tls.py: certificates made for rovers and written beside their  *)
(* keys (CertGenerator), a manager that loads such a pair once and keeps   *)
(* what it loaded (TlsManager), and a store of the fleet's certificates    *)
(* with an index by rover and a directory it is loaded from                *)
(* (CertificateStore).  A certificate is its serial number, fingerprint    *)
(* and key being as unique; 0 stands for None.                             *)
(***************************************************************************)
EXTENDS Integers, FiniteSets

CONSTANTS Holder,       \* the rovers certificates are made for
          Prefixed,     \* those whose id starts with "rover-"
          Self,         \* the rover whose files TlsManager is given
          Authority,    \* whom the certificates of a CA name
          MaxSerial,    \* bound on the certificates made
          MaxFailures   \* bound on the writes that fail

ASSUME CertificatesAssumption ==
  /\ Prefixed \subseteq Holder /\ Self \in Holder /\ Authority \notin Holder
  /\ MaxSerial \in Nat /\ MaxFailures \in Nat

VARIABLES owner,        \* whom each certificate made so far names
          pair,         \* the key and the certificate in the manager's files
          certInfo, serverContext, clientContext,    \* what TlsManager keeps
          table,        \* CertificateStore._certificates
          byRover,      \* CertificateStore._certificates_by_rover
          certFiles,    \* the readable files of the store's directory
          failures,     \* history: the number of failed writes
          unsaved,      \* history: certificates whose last write failed
          newest        \* history: the last one added for a rover, if still there

certVars == <<owner, pair, certInfo, serverContext, clientContext, table, byRover,
              certFiles, failures, unsaved, newest>>

managerVars == <<certInfo, serverContext, clientContext>>
storeVars == <<table, byRover, certFiles, failures, unsaved, newest>>

Serial == DOMAIN owner
NotMade == -1

CertTypeOK ==
  /\ Serial = 1..Cardinality(Serial) /\ owner \in [Serial -> Holder \cup {Authority}]
  /\ pair \in [key : Serial \cup {0}, cert : Serial \cup {0}]
  /\ certInfo \in Serial \cup {0}
  /\ serverContext \in Serial \cup {0, NotMade} /\ clientContext \in Serial \cup {0, NotMade}
  /\ table \subseteq Serial /\ certFiles \subseteq Serial /\ unsaved \subseteq Serial
  /\ DOMAIN byRover \subseteq Holder /\ byRover \in [DOMAIN byRover -> Serial]
  /\ failures \in Nat /\ newest \in [Holder -> Serial \cup {0}]

CertInit ==
  /\ owner = [n \in {} |-> ""] /\ pair = [key |-> 0, cert |-> 0]
  /\ certInfo = 0 /\ serverContext = NotMade /\ clientContext = NotMade
  /\ table = {} /\ byRover = [r \in {} |-> 0] /\ certFiles = {}
  /\ failures = 0 /\ unsaved = {} /\ newest = [r \in Holder |-> 0]

\* x509.random_serial_number(): no two are the same, and no two keys are.
NewSerial == Cardinality(Serial) + 1

Make(name) ==
  /\ NewSerial <= MaxSerial
  /\ owner' = [i \in 1..NewSerial |-> IF i = NewSerial THEN name ELSE owner[i]]

\* create_ca_certificate(): what it returns is written nowhere.
CreateCaCertificate == Make(Authority) /\ UNCHANGED <<pair, managerVars, storeVars>>

\* create_rover_certificate(): the first of the names is the rover's.  Who signs it is
\* given and not looked at.
CreateRoverCertificate(r) == Make(r)

\* create_rover_cert_files(): the key is written, then the certificate, to files of the
\* rover's name; the process may end in between.
WriteKey(r) ==
  /\ CreateRoverCertificate(r)
  /\ pair' = IF r = Self THEN [pair EXCEPT !.key = NewSerial] ELSE pair
  /\ UNCHANGED <<managerVars, storeVars>>

WriteCert ==
  /\ pair' = [pair EXCEPT !.cert = pair.key]
  /\ UNCHANGED <<owner, managerVars, storeVars>>

\* _validate_paths(), before there is a TlsManager: files once written stay.
FilesThere == pair.key # 0 /\ pair.cert # 0

\* Nothing is looked at twice.
GetCertificateInfo ==
  /\ FilesThere
  /\ certInfo' = IF certInfo = 0 THEN pair.cert ELSE certInfo
  /\ UNCHANGED <<owner, pair, serverContext, clientContext, storeVars>>

\* load_cert_chain() refuses a certificate of another key.
CreateServerContext ==
  /\ FilesThere /\ (serverContext = NotMade => pair.cert = pair.key)
  /\ serverContext' = IF serverContext = NotMade THEN pair.cert ELSE serverContext
  /\ UNCHANGED <<owner, pair, certInfo, clientContext, storeVars>>

\* A context made for a call without mTLS serves the calls that ask for it too.
CreateClientContext(mtls) ==
  /\ FilesThere /\ (clientContext = NotMade /\ mtls => pair.cert = pair.key)
  /\ clientContext' = IF clientContext # NotMade THEN clientContext
                      ELSE IF mtls THEN pair.cert ELSE 0
  /\ UNCHANGED <<owner, pair, certInfo, serverContext, storeVars>>

\* _extract_rover_id(), for certificates made without names of other rovers.
ExtractRoverId(n) == {owner[n]} \cap Prefixed

\* The rover a certificate is added for: the one given, or the one it names.
ActualRoverId(n, given) == IF given # {} THEN given ELSE ExtractRoverId(n)

\* add_certificate(): the disk may be full when the file is written, old or new.
AddCertificate(n, given, written) ==
  LET who == ActualRoverId(n, given) IN
  /\ written \/ failures < MaxFailures
  /\ table' = table \cup {n}
  /\ byRover' = [r \in DOMAIN byRover \cup who |-> IF r \in who THEN n ELSE byRover[r]]
  /\ newest' = [r \in Holder |-> IF r \in who THEN n ELSE newest[r]]
  /\ certFiles' = IF written THEN certFiles \cup {n} ELSE certFiles \ {n}
  /\ unsaved' = IF written THEN unsaved \ {n} ELSE unsaved \cup {n}
  /\ failures' = IF written THEN failures ELSE failures + 1
  /\ UNCHANGED <<owner, pair, managerVars>>

\* Mutant: only the entry of the rover the certificate names goes.
RemoveNamed(n) ==
  /\ n \in table /\ table' = table \ {n}
  /\ byRover' = [r \in {s \in DOMAIN byRover : byRover[s] # n \/ s \notin ExtractRoverId(n)}
                   |-> byRover[r]]
  /\ newest' = [r \in Holder |-> IF newest[r] = n THEN 0 ELSE newest[r]]
  /\ UNCHANGED <<owner, pair, managerVars, certFiles, failures, unsaved>>

\* remove_certificate(): its file stays, and so does an older one of the same rover,
\* which no index entry finds again.
RemoveCertificate(n) ==
  /\ n \in table /\ table' = table \ {n}
  /\ byRover' = [r \in {s \in DOMAIN byRover : byRover[s] # n} |-> byRover[r]]
  /\ newest' = [r \in Holder |-> IF newest[r] = n THEN 0 ELSE newest[r]]
  /\ UNCHANGED <<owner, pair, managerVars, certFiles, failures, unsaved>>

\* _load_from_disk(): the files come in any order, the last one of a rover is found
\* by its id, and the ids given when they were added are forgotten.
LoadFromDisk ==
  /\ table' = certFiles
  /\ \E found \in [{r \in Prefixed : \E n \in certFiles : owner[n] = r} -> certFiles] :
       /\ \A r \in DOMAIN found : owner[found[r]] = r
       /\ byRover' = found
  /\ unsaved' = {} /\ newest' = [r \in Holder |-> 0]

\* The process ends, and the next one makes its manager and its store.
CertRestart ==
  /\ LoadFromDisk
  /\ certInfo' = 0 /\ serverContext' = NotMade /\ clientContext' = NotMade
  /\ UNCHANGED <<owner, pair, certFiles, failures>>

GetByRoverId(r) == IF r \in DOMAIN byRover THEN {byRover[r]} ELSE {}

CertNext ==
  \/ \E r \in Holder : WriteKey(r)
  \/ CreateCaCertificate \/ WriteCert \/ GetCertificateInfo \/ CreateServerContext
  \/ \E mtls \in BOOLEAN : CreateClientContext(mtls)
  \/ \E n \in Serial :
       \/ RemoveCertificate(n)
       \/ \E given \in {{}} \cup {{r} : r \in Holder}, written \in BOOLEAN :
            AddCertificate(n, given, written)
  \/ CertRestart

CertSpec == CertInit /\ [][CertNext]_certVars
-----------------------------------------------------------------------------
(* Properties *)

\* The store's parts agree: the index leads to certificates that are in the table, to
\* the newest one added for a rover while that is there, and what is in the table is
\* in a file unless its last write failed.
StoreAgrees ==
  /\ \A r \in Holder : GetByRoverId(r) \subseteq table
  /\ \A r \in Holder : newest[r] # 0 => GetByRoverId(r) = {newest[r]}
  /\ table \subseteq certFiles \cup unsaved
=============================================================================
