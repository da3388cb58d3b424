------------------------------ MODULE Identity ------------------------------
(***************************************************************************)
(* The key pair of a host (common/src/identity.rs): load_or_generate_at    *)
(* reads the certificate and the key if both files exist, and otherwise    *)
(* makes a new pair and writes one file, then the other.  Every process    *)
(* that needs the identity calls it, without a lock.                       *)
(***************************************************************************)
EXTENDS Integers, FiniteSets

CONSTANTS IdProc,      \* processes that call load_or_generate
          Key,         \* the pairs that can be generated
          Absent, Emptied  \* a file that does not exist; one that is created and empty

ASSUME FileStates == Absent \notin Key /\ Emptied \notin Key

VARIABLES crt, key,   \* the two files
          stage,      \* stage[p]: where p is in load_or_generate_at
          id,         \* id[p]: the certificate and key p holds
          made,       \* pairs generated so far
          interfered  \* history: two calls overlapped and one of them generated,
                      \* or one died between creating the key file and filling it

idVars == <<crt, key, stage, id, made, interfered>>

Writing == {"gen", "crt_cut", "crt_put", "key_cut"}
Busy == {"crt_read", "key_read"} \cup Writing
Stages == {"start", "done", "failed"} \cup Busy
Pem == Key \cup {Absent, Emptied}
NoId == [crt |-> Absent, key |-> Absent]

IdInit ==
    /\ crt = Absent /\ key = Absent
    /\ stage = [p \in IdProc |-> "start"]
    /\ id = [p \in IdProc |-> NoId]
    /\ made = {} /\ interfered = FALSE

To(p, s) == stage' = [stage EXCEPT ![p] = s]
OthersBusy(p) == \E q \in IdProc \ {p} : stage[q] \in Busy
OthersWriting(p) == \E q \in IdProc \ {p} : stage[q] \in Writing

\* Mutant of Check: the certificate alone decides.
CheckCrt(p) ==
    /\ stage[p] = "start"
    /\ IF crt # Absent THEN To(p, "crt_read") ELSE To(p, "gen")
    /\ interfered' = (interfered \/ OthersWriting(p) \/ (crt = Absent /\ OthersBusy(p)))
    /\ UNCHANGED <<crt, key, id, made>>

\* Mutant of Check: a pair that exists is not looked for.
CheckNever(p) ==
    /\ stage[p] = "start" /\ To(p, "gen")
    /\ interfered' = (interfered \/ OthersBusy(p))
    /\ UNCHANGED <<crt, key, id, made>>

\* exists() of both files.
Check(p) ==
    /\ stage[p] = "start"
    /\ IF crt # Absent /\ key # Absent THEN To(p, "crt_read") ELSE To(p, "gen")
    /\ interfered' = (interfered \/ OthersWriting(p)
                                 \/ ((crt = Absent \/ key = Absent) /\ OthersBusy(p)))
    /\ UNCHANGED <<crt, key, id, made>>

ReadCrt(p) ==
    /\ stage[p] = "crt_read" /\ To(p, "key_read")
    /\ id' = [id EXCEPT ![p].crt = crt]
    /\ UNCHANGED <<crt, key, made, interfered>>

\* The fingerprint is the certificate's; an empty one has none.
ReadKey(p) ==
    /\ stage[p] = "key_read"
    /\ id' = [id EXCEPT ![p].key = key]
    /\ To(p, IF id[p].crt \in Key THEN "done" ELSE "failed")
    /\ UNCHANGED <<crt, key, made, interfered>>

\* generate(), and the certificate file is created or truncated.
Generate(p) ==
    /\ stage[p] = "gen" /\ To(p, "crt_cut")
    /\ \E k \in Key \ made :
         /\ id' = [id EXCEPT ![p] = [crt |-> k, key |-> k]]
         /\ made' = made \cup {k}
    /\ crt' = Emptied
    /\ UNCHANGED <<key, interfered>>

PutCrt(p) ==
    /\ stage[p] = "crt_cut" /\ To(p, "crt_put")
    /\ crt' = id[p].crt
    /\ UNCHANGED <<key, id, made, interfered>>

\* write_key: created or truncated with its mode, then filled.
CutKey(p) ==
    /\ stage[p] = "crt_put" /\ To(p, "key_cut")
    /\ key' = Emptied
    /\ UNCHANGED <<crt, id, made, interfered>>

PutKey(p) ==
    /\ stage[p] = "key_cut" /\ To(p, "done")
    /\ key' = id[p].key
    /\ UNCHANGED <<crt, id, made, interfered>>

\* The process ends, wherever it is; the next one starts over.
Stop(p) ==
    /\ stage[p] # "start" /\ To(p, "start")
    /\ id' = [id EXCEPT ![p] = NoId]
    /\ interfered' = (interfered \/ stage[p] = "key_cut")
    /\ UNCHANGED <<crt, key, made>>

IdStep(p) ==
    \/ Check(p) \/ ReadCrt(p) \/ ReadKey(p) \/ Generate(p) \/ PutCrt(p) \/ CutKey(p) \/ PutKey(p)

-----------------------------------------------------------------------------
IdTypeOK ==
    /\ crt \in Pem /\ key \in Pem /\ stage \in [IdProc -> Stages]
    /\ id \in [IdProc -> [crt : Pem, key : Pem]]
    /\ made \subseteq Key /\ interfered \in BOOLEAN

(* "Keys are generated once and reused": a process that has its identity has a
   certificate with its own key, the same as every other and the same as on
   disk, also after crashes, unless calls overlapped while one of them was
   generating, or one died between creating the key file and filling it. *)
GeneratedOnce ==
    ~interfered => \A p \in IdProc : stage[p] = "done" =>
        id[p] = [crt |-> crt, key |-> key] /\ crt = key /\ crt \in Key
=============================================================================
