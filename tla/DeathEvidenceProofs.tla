-------------------------- MODULE DeathEvidenceProofs --------------------------
(* Theorems about DeathEvidence, for every value of its constants: which      *)
(* deaths get a row, and the encounter a death is given.                      *)
(*                                                                            *)
(* The damage buffers, and the causes of a death, are in DeathCausesProofs;   *)
(* nothing here looks at them.                                                *)
EXTENDS DeathEvidence, FiniteSetTheorems, TLAPS

USE EvidenceAssumption DEF Files

(* The types of everything but the evidence of a death and the damage buffers.*)
TypeInv ==
  /\ files \in Seq(Seq(Line)) /\ Current \in Files
  /\ \A f \in DOMAIN files : Len(files[f]) <= MaxLines
  /\ rows \in [Files -> [offset : 0 .. MaxLines, code : 0 .. 2]]
  /\ \A f \in Files : rows[f].offset <= (IF f \in DOMAIN files THEN Len(files[f]) ELSE 0)
  /\ file \in 1 .. Current
  /\ pos \in 0 .. Len(files[file]) /\ limit \in 0 .. Len(files[file])
  /\ format \in Formats
  /\ encounter \in Bosses \union {NoBoss}
  /\ \E D : deaths \in Seq(D)
  /\ \A k \in DOMAIN deaths : deaths[k].place \in Place
  /\ persistedDeaths \in 0 .. Len(deaths)
  /\ heard \in Seq(Place)

(* A stopped process remembers nothing.                                       *)
DownIsBlank ==
  pc = "down" =>
    /\ deaths = << >> /\ persistedDeaths = 0 /\ heard = << >> /\ encounter = NoBoss
    /\ limit = 0

-------------------------------------------------------------------------------
(* Types.                                                                     *)

LEMMA PlaceFinite == IsFiniteSet(Place)
  <1> DEFINE S == Files \X (1 .. MaxLines)
             f == [x \in S |-> [file |-> x[1], at |-> x[2]]]
  <1>1. IsFiniteSet(S)
    <2>1. IsFiniteSet(1 .. MaxFiles) /\ IsFiniteSet(1 .. MaxLines)
      BY FS_Interval
    <2> QED BY <2>1, FS_Product
  <1>2. f \in [S -> Place]
    BY DEF Place
  <1>3. \A p \in Place : \E x \in S : f[x] = p
    <2> SUFFICES ASSUME NEW p \in Place PROVE \E x \in S : f[x] = p
      OBVIOUS
    <2>1. <<p.file, p.at>> \in S /\ f[<<p.file, p.at>>] = p
      BY DEF Place
    <2> QED BY <2>1
  <1> HIDE DEF f, S
  <1>4. f \in Surjection(S, Place)
    BY <1>2, <1>3 DEF Surjection
  <1> QED BY <1>1, <1>4, FS_Surjection

LEMMA WrittenType == Written \in Nat
  <1>1. {p \in Place : p.file \in DOMAIN files /\ p.at \in DOMAIN files[p.file]} \in SUBSET Place
    OBVIOUS
  <1> QED BY <1>1, PlaceFinite, FS_Subset, FS_CardinalityType DEF Written

(* The bound on all lines bounds those of one file.                           *)
LEMMA RoomLeft ==
  ASSUME TypeInv, Written < MaxLines
  PROVE  Len(files[Current]) < MaxLines
  <1> SUFFICES ASSUME Len(files[Current]) >= MaxLines PROVE FALSE
    <2>1. files[Current] \in Seq(Line)
      BY DEF TypeInv, Current
    <2> QED BY <2>1
  <1> DEFINE W == {p \in Place : p.file \in DOMAIN files /\ p.at \in DOMAIN files[p.file]}
             f == [i \in 1 .. MaxLines |-> [file |-> Current, at |-> i]]
  <1>1. files[Current] \in Seq(Line) /\ Current \in DOMAIN files /\ Current \in Files
    BY DEF TypeInv, Current
  <1>2. \A i \in 1 .. MaxLines : i \in DOMAIN files[Current]
    BY <1>1
  <1>3. f \in [1 .. MaxLines -> W]
    BY <1>1, <1>2 DEF Place
  <1>4. \A i, j \in 1 .. MaxLines : f[i] = f[j] => i = j
    OBVIOUS
  <1>5. IsFiniteSet(W)
    BY PlaceFinite, FS_Subset
  <1> HIDE DEF f, W
  <1>6. f \in Injection(1 .. MaxLines, W)
    BY <1>3, <1>4 DEF Injection, IsInjective
  <1>7. Cardinality(1 .. MaxLines) <= Cardinality(W)
    BY <1>5, <1>6, FS_Injection
  <1>8. Cardinality(1 .. MaxLines) = MaxLines
    BY FS_Interval
  <1>9. Cardinality(W) \in Nat
    BY <1>5, FS_CardinalityType
  <1> QED BY <1>7, <1>8, <1>9 DEF Written, W

LEMMA AppendAnything ==
  ASSUME NEW D, NEW s \in Seq(D), NEW d
  PROVE  /\ Append(s, d) \in Seq(D \union {d})
         /\ Len(s) \in Nat /\ Len(Append(s, d)) = Len(s) + 1
         /\ DOMAIN Append(s, d) = 1 .. Len(s) + 1 /\ DOMAIN s = 1 .. Len(s)
         /\ Append(s, d)[Len(s) + 1] = d
         /\ \A k \in 1 .. Len(s) : Append(s, d)[k] = s[k]
         /\ \A k \in 1 .. Len(s) + 1 : k \in 1 .. Len(s) \/ k = Len(s) + 1
  <1>1. s \in Seq(D \union {d})
    OBVIOUS
  <1> QED BY <1>1

LEMMA InitType == Init => TypeInv /\ DownIsBlank
  <1> SUFFICES ASSUME Init PROVE TypeInv /\ DownIsBlank
    OBVIOUS
  <1>1. PICK f \in FirstLines : files = <<f>>
    BY DEF Init
  <1>2. /\ files \in Seq(Seq(Line)) /\ Current = 1 /\ DOMAIN files = {1}
        /\ files[1] = f /\ Len(f) \in Nat /\ Len(f) <= MaxLines
    BY <1>1 DEF Current
  <1>3. rows \in [Files -> [offset : 0 .. MaxLines, code : 0 .. 2]]
    BY DEF Init, NoRow, EncodeFormat
  <1>4. deaths \in Seq({}) /\ heard \in Seq(Place) /\ Len(deaths) = 0 /\ DOMAIN deaths = {}
    BY DEF Init
  <1>5. \A n \in Files : rows[n].offset <= (IF n \in DOMAIN files THEN Len(files[n]) ELSE 0)
    BY <1>2 DEF Init, NoRow
  <1> QED BY <1>2, <1>3, <1>4, <1>5 DEF Init, TypeInv, DownIsBlank, Formats

(* A file only grows, and the lines it has stay.                              *)
LEMMA FilesGrow ==
  ASSUME TypeInv, [Next]_vars
  PROVE  /\ DOMAIN files = 1 .. Current /\ Current \in Nat
         /\ \A f \in DOMAIN files :
              /\ files[f] \in Seq(Line) /\ Len(files[f]) \in Nat
              /\ DOMAIN files[f] = 1 .. Len(files[f])
              /\ f \in DOMAIN files' /\ Len(files'[f]) \in Nat
              /\ Len(files[f]) <= Len(files'[f])
              /\ \A i \in 1 .. Len(files[f]) : files'[f][i] = files[f][i]
         /\ files' \in Seq(Seq(Line)) /\ Current' \in Nat /\ Current <= Current'
         /\ Current' \in Files
         /\ \A f \in DOMAIN files' : Len(files'[f]) <= MaxLines
  <1> USE DEF Current
  <1>1. /\ files \in Seq(Seq(Line)) /\ DOMAIN files = 1 .. Len(files) /\ Len(files) \in Nat
        /\ Len(files) \in Files /\ \A f \in DOMAIN files : Len(files[f]) <= MaxLines
    BY DEF TypeInv
  <1>2. \A f \in DOMAIN files :
           files[f] \in Seq(Line) /\ Len(files[f]) \in Nat /\ DOMAIN files[f] = 1 .. Len(files[f])
    BY <1>1
  <1>3. CASE WriteLine
    <2>1. PICK l \in Lines : files' = [files EXCEPT ![Len(files)] = Append(@, l)]
      BY <1>3 DEF WriteLine
    <2>2. Len(files[Len(files)]) < MaxLines
      BY <1>3, RoomLeft DEF WriteLine
    <2> DEFINE g == Append(files[Len(files)], l)
    <2>3. /\ g \in Seq(Line) /\ Len(g) = Len(files[Len(files)]) + 1
          /\ \A i \in 1 .. Len(files[Len(files)]) : g[i] = files[Len(files)][i]
      BY <1>1, <1>2
    <2>4. /\ files' \in Seq(Seq(Line)) /\ Len(files') = Len(files)
          /\ DOMAIN files' = DOMAIN files
          /\ \A f \in DOMAIN files : files'[f] = IF f = Len(files) THEN g ELSE files[f]
      <3> HIDE DEF g
      <3>1. files' = [files EXCEPT ![Len(files)] = g]
        BY <2>1 DEF g
      <3> QED BY <1>1, <2>3, <3>1
    <2> HIDE DEF g
    <2>5. \A f \in DOMAIN files :
             /\ f \in DOMAIN files' /\ Len(files'[f]) \in Nat
             /\ Len(files[f]) <= Len(files'[f])
             /\ \A i \in 1 .. Len(files[f]) : files'[f][i] = files[f][i]
      BY <1>2, <2>3, <2>4
    <2>6. \A f \in DOMAIN files' : Len(files'[f]) <= MaxLines
      <3>1. Len(files[Len(files)]) \in Nat
        BY <1>1, <1>2
      <3>2. Len(g) <= MaxLines
        BY <2>2, <2>3, <3>1
      <3> QED BY <1>1, <2>4, <3>2
    <2> QED BY <1>1, <1>2, <2>4, <2>5, <2>6
  <1>4. CASE NewFile
    <2>1. PICK f \in FirstLines : Written + Len(f) <= MaxLines /\ files' = Append(files, f)
      BY <1>4 DEF NewFile
    <2>2. f \in Seq(Line) /\ Len(f) \in Nat /\ Len(f) <= MaxLines
      BY <2>1, WrittenType
    <2>3. Len(files) < MaxFiles
      BY <1>4 DEF NewFile
    <2>4. /\ files' \in Seq(Seq(Line)) /\ Len(files') = Len(files) + 1
          /\ files'[Len(files) + 1] = f
          /\ \A n \in 1 .. Len(files) : files'[n] = files[n]
          /\ DOMAIN files' = 1 .. Len(files) + 1
      BY <1>1, <2>1, <2>2
    <2>5. \A n \in DOMAIN files : files'[n] = files[n] /\ n \in DOMAIN files'
      BY <1>1, <2>4
    <2>6. \A n \in DOMAIN files' : n \in DOMAIN files \/ n = Len(files) + 1
      BY <1>1, <2>4
    <2>7. \A n \in DOMAIN files' : Len(files'[n]) <= MaxLines
      BY <1>1, <2>2, <2>4, <2>5, <2>6
    <2>8. Len(files') \in Files /\ Len(files) <= Len(files')
      BY <1>1, <2>3, <2>4
    <2>9. \A n \in DOMAIN files :
             /\ n \in DOMAIN files' /\ Len(files'[n]) \in Nat
             /\ Len(files[n]) <= Len(files'[n])
             /\ \A i \in 1 .. Len(files[n]) : files'[n][i] = files[n][i]
      BY <1>2, <2>5
    <2> QED BY <1>1, <1>2, <2>4, <2>7, <2>8, <2>9
  <1>5. CASE files' = files
    BY <1>1, <1>2, <1>5
  <1> QED BY <1>3, <1>4, <1>5
       DEF Next, Kill, Start, BeginPoll, ReadLine, Persist, vars, diskVars

LEMMA ReadLineType ==
  ASSUME TypeInv, ReadLine
  PROVE  TypeInv'
  <1> USE DEF TypeInv
  <1>1. /\ UNCHANGED <<files, rows, file, limit, persistedDeaths>>
        /\ pos' = pos + 1 /\ pos < limit
        /\ heard' = Append(heard, [file |-> file, at |-> pos + 1])
    BY DEF ReadLine, diskVars
  <1>2. Current' = Current /\ Current \in Nat /\ DOMAIN files = 1 .. Current
        /\ file \in Files /\ pos + 1 \in 1 .. Len(files[file]) /\ Len(files[file]) \in Nat
        /\ Len(files[file]) <= MaxLines /\ files[file][pos + 1] \in Line
    <2>1. Current \in Nat /\ DOMAIN files = 1 .. Current /\ file \in DOMAIN files
      BY DEF Current
    <2>2. files[file] \in Seq(Line) /\ Len(files[file]) \in Nat
      BY <2>1
    <2>3. /\ pos \in Nat /\ limit \in 0 .. Len(files[file]) /\ file \in Files
          /\ Len(files[file]) <= MaxLines
      <3>1. pos \in 0 .. Len(files[file]) /\ limit \in 0 .. Len(files[file])
        OBVIOUS
      <3>2. Current \in Files /\ file \in 1 .. Current
        OBVIOUS
      <3>3. Len(files[file]) <= MaxLines
        BY <2>1
      <3> HIDE DEF TypeInv
      <3>4. file \in Files
        BY <3>2
      <3>5. pos \in Nat
        BY <2>2, <3>1
      <3> QED BY <3>1, <3>3, <3>4, <3>5
    <2> HIDE DEF TypeInv
    <2>4. pos + 1 \in 1 .. Len(files[file])
      BY <1>1, <2>2, <2>3
    <2>5. files[file][pos + 1] \in Line
      BY <2>2, <2>4
    <2> QED BY <1>1, <2>1, <2>2, <2>3, <2>4, <2>5 DEF Current
  <1>3. [file |-> file, at |-> pos + 1] \in Place
    BY <1>2 DEF Place
  <1>4. heard' \in Seq(Place)
    BY <1>1, <1>3
  <1>5. format' \in Formats /\ encounter' \in Bosses \union {NoBoss}
    <2> DEFINE l == files[file][pos + 1]
    <2>1. l.kind = "encounterStart" => l.boss \in Bosses
      BY <1>2 DEF Line, Header, Damage, Died, EncounterStart, EncounterEnd
    <2> HIDE DEF l
    <2> QED BY <2>1
         DEF ReadLine, Observe, ObserveDamage, ObserveDeath, ObserveEncounter, ApplyVersion,
             Formats, trackerVars, l
  <1>6. /\ \E D : deaths' \in Seq(D)
        /\ \A k \in DOMAIN deaths' : deaths'[k].place \in Place
        /\ persistedDeaths' \in 0 .. Len(deaths')
    <2>1. CASE deaths' = deaths
      BY <1>1, <2>1
    <2>2. CASE \E d : d.place = [file |-> file, at |-> pos + 1] /\ deaths' = Append(deaths, d)
      <3>1. PICK d : d.place = [file |-> file, at |-> pos + 1] /\ deaths' = Append(deaths, d)
        BY <2>2
      <3>2. PICK D : deaths \in Seq(D)
        OBVIOUS
      <3>3. /\ deaths' \in Seq(D \union {d}) /\ Len(deaths') = Len(deaths) + 1
            /\ Len(deaths) \in Nat
            /\ \A k \in DOMAIN deaths' :
                 (k \in DOMAIN deaths /\ deaths'[k] = deaths[k]) \/ deaths'[k] = d
        <4> HIDE DEF TypeInv
        <4> QED BY <3>1, <3>2, AppendAnything
      <3>4. \A k \in DOMAIN deaths' : deaths'[k].place \in Place
        BY <1>3, <3>1, <3>3
      <3>5. persistedDeaths' \in 0 .. Len(deaths')
        BY <1>1, <3>3
      <3> QED BY <3>3, <3>4, <3>5
    <2> QED BY <2>1, <2>2
         DEF ReadLine, Observe, ObserveDamage, ObserveDeath, ObserveEncounter, trackerVars
  <1>7. file' = file /\ file' \in 1 .. Current' /\ pos' \in 0 .. Len(files'[file'])
        /\ limit' \in 0 .. Len(files'[file'])
    BY <1>1, <1>2
  <1>8. /\ files' \in Seq(Seq(Line)) /\ Current' \in Files
        /\ \A f \in DOMAIN files' : Len(files'[f]) <= MaxLines
    BY <1>1, <1>2
  <1>9. /\ rows' \in [Files -> [offset : 0 .. MaxLines, code : 0 .. 2]]
        /\ \A f \in Files :
             rows'[f].offset <= (IF f \in DOMAIN files' THEN Len(files'[f]) ELSE 0)
    BY <1>1
  <1> HIDE DEF TypeInv
  <1> QED BY <1>4, <1>5, <1>6, <1>7, <1>8, <1>9 DEF TypeInv

LEMMA RowTypes ==
  ASSUME TypeInv, NEW f \in Files
  PROVE  /\ rows[f].offset \in 0 .. MaxLines /\ rows[f].offset \in Nat
         /\ rows[f].code \in 0 .. 2
         /\ f \in DOMAIN files => rows[f].offset <= Len(files[f])
         /\ f \notin DOMAIN files => rows[f].offset = 0
  <1>1. rows[f] \in [offset : 0 .. MaxLines, code : 0 .. 2]
    BY DEF TypeInv
  <1>2. rows[f].offset <= (IF f \in DOMAIN files THEN Len(files[f]) ELSE 0)
    BY DEF TypeInv
  <1> QED BY <1>1, <1>2

(* The current file and the one that is followed.                             *)
LEMMA FileFacts ==
  ASSUME TypeInv
  PROVE  /\ Current \in Nat /\ Current \in Files /\ Current = Len(files)
         /\ DOMAIN files = 1 .. Current /\ Current \in DOMAIN files
         /\ file \in DOMAIN files /\ file \in Files /\ file \in Nat /\ file <= Current
         /\ \A f \in DOMAIN files : files[f] \in Seq(Line) /\ Len(files[f]) \in 0 .. MaxLines
         /\ pos \in Nat /\ pos <= Len(files[file]) /\ pos \in 0 .. MaxLines
  <1>1. /\ files \in Seq(Seq(Line)) /\ Current = Len(files) /\ Current \in Files
        /\ file \in 1 .. Current
        /\ \A f \in DOMAIN files : Len(files[f]) <= MaxLines
    BY DEF TypeInv, Current
  <1>2. DOMAIN files = 1 .. Current /\ Current \in Nat
    BY <1>1
  <1>3. \A f \in DOMAIN files : files[f] \in Seq(Line) /\ Len(files[f]) \in 0 .. MaxLines
    BY <1>1
  <1>4. file \in DOMAIN files /\ file \in Files /\ file \in Nat /\ file <= Current
    BY <1>1, <1>2
  <1>5. pos \in 0 .. Len(files[file]) /\ Len(files[file]) \in 0 .. MaxLines
    BY <1>3, <1>4 DEF TypeInv
  <1>6. pos \in Nat /\ pos <= Len(files[file]) /\ pos \in 0 .. MaxLines
    BY <1>5
  <1>7. Current \in DOMAIN files
    BY <1>1, <1>2
  <1> QED BY <1>1, <1>2, <1>3, <1>4, <1>6, <1>7

LEMMA GrowType ==
  ASSUME TypeInv, DownIsBlank, [Next]_vars,
         UNCHANGED <<rows, pc, readVars, trackerVars, persistedDeaths, heard>>
  PROVE  TypeInv' /\ DownIsBlank'
  <1>1. DownIsBlank'
    BY DEF DownIsBlank, trackerVars, readVars
  <1>2. /\ files' \in Seq(Seq(Line)) /\ Current' \in Files
        /\ \A f \in DOMAIN files' : Len(files'[f]) <= MaxLines
        /\ file \in 1 .. Current'
    BY FilesGrow, FileFacts
  <1>3. pos \in 0 .. Len(files'[file]) /\ limit \in 0 .. Len(files'[file])
    <2>1. pos \in 0 .. Len(files[file]) /\ limit \in 0 .. Len(files[file])
      BY DEF TypeInv
    <2>2. /\ Len(files[file]) \in Nat /\ Len(files'[file]) \in Nat
          /\ Len(files[file]) <= Len(files'[file])
      BY FilesGrow, FileFacts
    <2> QED BY <2>1, <2>2
  <1>4. \A f \in Files :
           rows[f].offset <= (IF f \in DOMAIN files' THEN Len(files'[f]) ELSE 0)
    <2> SUFFICES ASSUME NEW f \in Files
                 PROVE  rows[f].offset <= (IF f \in DOMAIN files' THEN Len(files'[f]) ELSE 0)
      OBVIOUS
    <2>1. rows[f].offset \in Nat
      BY RowTypes
    <2>2. CASE f \in DOMAIN files
      <3>1. rows[f].offset <= Len(files[f])
        BY <2>2, RowTypes
      <3>2. /\ f \in DOMAIN files' /\ Len(files[f]) \in Nat /\ Len(files'[f]) \in Nat
            /\ Len(files[f]) <= Len(files'[f])
        BY <2>2, FilesGrow
      <3> QED BY <2>1, <3>1, <3>2
    <2>3. CASE f \notin DOMAIN files
      <3>1. rows[f].offset = 0
        BY <2>3, RowTypes
      <3>2. f \in DOMAIN files' => Len(files'[f]) \in Nat
        BY <1>2
      <3> QED BY <3>1, <3>2
    <2> QED BY <2>2, <2>3
  <1> QED BY <1>1, <1>2, <1>3, <1>4 DEF TypeInv, readVars, trackerVars

LEMMA KillType ==
  ASSUME TypeInv, Kill
  PROVE  TypeInv' /\ DownIsBlank'
  <1>1. /\ deaths' \in Seq({}) /\ heard' \in Seq(Place)
        /\ Len(deaths') = 0 /\ DOMAIN deaths' = {}
    BY DEF Kill
  <1>2. /\ UNCHANGED <<files, rows>> /\ file' = 1 /\ Current' = Current
        /\ pos' = 0 /\ limit' = 0 /\ persistedDeaths' = 0
        /\ format' = "none" /\ encounter' = NoBoss /\ "none" \in Formats
    BY DEF Kill, diskVars, Formats, Current
  <1>3. 1 \in 1 .. Current /\ 0 \in 0 .. Len(files[1])
    BY FileFacts
  <1>4. TypeInv'
    <2>1. /\ \E D : deaths' \in Seq(D)
          /\ \A k \in DOMAIN deaths' : deaths'[k].place \in Place
          /\ persistedDeaths' \in 0 .. Len(deaths')
      BY <1>1, <1>2
    <2>2. /\ file' \in 1 .. Current' /\ pos' \in 0 .. Len(files'[file'])
          /\ limit' \in 0 .. Len(files'[file'])
      BY <1>2, <1>3
    <2> QED BY <1>1, <1>2, <2>1, <2>2 DEF TypeInv
  <1> QED BY <1>4 DEF Kill, DownIsBlank

LEMMA StartType ==
  ASSUME TypeInv, DownIsBlank, Start
  PROVE  TypeInv' /\ DownIsBlank'
  <1>1. /\ UNCHANGED <<files, rows, limit, trackerVars, persistedDeaths, heard>>
        /\ file' = Current /\ Current' = Current /\ pos' = rows[Current].offset
        /\ format' = DecodeFormat(rows[Current].code) /\ pc' = "idle" /\ limit = 0
    BY DEF Start, diskVars, Current, DownIsBlank
  <1>2. Current \in 1 .. Current /\ Current \in DOMAIN files
    BY FileFacts
  <1>3. rows[Current].offset \in 0 .. Len(files[Current]) /\ 0 \in 0 .. Len(files[Current])
    BY FileFacts, RowTypes
  <1>4. DecodeFormat(rows[Current].code) \in Formats
    <2>1. rows[Current].code \in 0 .. 2
      BY FileFacts, RowTypes
    <2> QED BY <2>1 DEF DecodeFormat, Formats
  <1> QED BY <1>1, <1>2, <1>3, <1>4 DEF TypeInv, DownIsBlank, trackerVars

LEMMA BeginPollType ==
  ASSUME TypeInv, BeginPoll
  PROVE  TypeInv' /\ DownIsBlank'
  <1>1. /\ UNCHANGED <<files, rows, trackerVars, persistedDeaths, heard>>
        /\ file' = Current /\ Current' = Current /\ limit' = Len(files[Current])
        /\ pc' = "scan" /\ (pos' = 0 \/ (pos' = pos /\ file = Current))
        /\ format' \in {format, "none"} /\ "none" \in Formats
    BY DEF BeginPoll, diskVars, Current, Formats
  <1>2. Current \in 1 .. Current /\ Len(files[Current]) \in Nat
    BY FileFacts
  <1>3. pos' \in 0 .. Len(files'[file'])
    <2>1. CASE pos' = 0
      BY <1>1, <1>2, <2>1
    <2>2. CASE pos' = pos /\ file = Current
      BY <1>1, <1>2, <2>2, FileFacts
    <2> QED BY <1>1, <2>1, <2>2
  <1>4. limit' \in 0 .. Len(files'[file']) /\ file' \in 1 .. Current'
    BY <1>1, <1>2
  <1>5. format' \in Formats
    BY <1>1 DEF TypeInv
  <1>6. /\ files' = files /\ rows' = rows /\ deaths' = deaths /\ heard' = heard
        /\ encounter' = encounter /\ persistedDeaths' = persistedDeaths
    BY <1>1 DEF trackerVars
  <1>7. TypeInv'
    BY <1>1, <1>3, <1>4, <1>5, <1>6 DEF TypeInv
  <1> QED BY <1>1, <1>7 DEF DownIsBlank

(* What Persist stores, if it stores anything.                                *)
LEMMA PersistCases ==
  ASSUME TypeInv, Persist
  PROVE  /\ UNCHANGED <<files, readVars, trackerVars, heard>>
         /\ pc = "scan" /\ pc' = "idle" /\ pos = limit
         /\ persistedDeaths' = Len(deaths)
         /\ \/ /\ UNCHANGED <<rows, events>>
               /\ pos = rows[file].offset /\ persistedDeaths = Len(deaths)
            \/ /\ rows' = [rows EXCEPT ![file] =
                             [offset |-> pos, code |-> EncodeFormat(format)]]
               /\ events' = events \union
                    {deaths[i].place : i \in persistedDeaths + 1 .. Len(deaths)}
  BY DEF Persist

LEMMA PersistType ==
  ASSUME TypeInv, Persist
  PROVE  TypeInv' /\ DownIsBlank'
  <1> DEFINE x == [offset |-> pos, code |-> EncodeFormat(format)]
  <1>1. x \in [offset : 0 .. MaxLines, code : 0 .. 2]
    <2>1. EncodeFormat(format) \in 0 .. 2
      BY DEF EncodeFormat, TypeInv, Formats
    <2> QED BY <2>1, FileFacts
  <1>2. x.offset = pos
    OBVIOUS
  <1> HIDE DEF x
  <1>3. rows' = rows \/ rows' = [rows EXCEPT ![file] = x]
    BY PersistCases DEF x
  <1>4. rows \in [Files -> [offset : 0 .. MaxLines, code : 0 .. 2]]
    BY DEF TypeInv
  <1>5. rows' \in [Files -> [offset : 0 .. MaxLines, code : 0 .. 2]]
    BY <1>1, <1>3, <1>4
  <1>6. \A f \in Files : rows'[f] = rows[f] \/ (f = file /\ rows'[f] = x)
    BY <1>3, <1>4
  <1>7. \A f \in Files : rows'[f].offset <= (IF f \in DOMAIN files THEN Len(files[f]) ELSE 0)
    <2> SUFFICES ASSUME NEW f \in Files
                 PROVE  rows'[f].offset <= (IF f \in DOMAIN files THEN Len(files[f]) ELSE 0)
      OBVIOUS
    <2>1. CASE rows'[f] = rows[f]
      BY <2>1 DEF TypeInv
    <2>2. CASE f = file /\ rows'[f] = x
      BY <1>2, <2>2, FileFacts
    <2> QED BY <1>6, <2>1, <2>2
  <1>8. Len(deaths) \in Nat
    BY DEF TypeInv
  <1>9. /\ files' = files /\ Current' = Current /\ file' = file /\ pos' = pos
        /\ limit' = limit /\ format' = format /\ encounter' = encounter
        /\ deaths' = deaths /\ heard' = heard /\ persistedDeaths' = Len(deaths)
        /\ pc' = "idle"
    BY PersistCases DEF readVars, trackerVars, Current
  <1>10. persistedDeaths' \in 0 .. Len(deaths')
    BY <1>8, <1>9
  <1>11. TypeInv'
    BY <1>5, <1>7, <1>9, <1>10 DEF TypeInv
  <1> QED BY <1>9, <1>11 DEF DownIsBlank

LEMMA TypeStep == TypeInv /\ DownIsBlank /\ [Next]_vars => TypeInv' /\ DownIsBlank'
  <1> SUFFICES ASSUME TypeInv, DownIsBlank, [Next]_vars PROVE TypeInv' /\ DownIsBlank'
    OBVIOUS
  <1>1. CASE ReadLine
    BY <1>1, ReadLineType DEF ReadLine, DownIsBlank
  <1>2. CASE WriteLine \/ NewFile \/ UNCHANGED vars
    BY <1>2, GrowType DEF WriteLine, NewFile, vars, diskVars
  <1>3. CASE Kill \/ Start \/ BeginPoll \/ Persist
    BY <1>3, KillType, StartType, BeginPollType, PersistType
  <1> QED BY <1>1, <1>2, <1>3 DEF Next

-------------------------------------------------------------------------------
(* The format that the first n lines of a file claim.                         *)

HeaderAmong(f, n, version) ==
  \E i \in 1 .. n : files[f][i].kind = "header" /\ files[f][i].version = version

FormatAt(f, n) ==
  IF HeaderAmong(f, n, "unsupported") THEN "quarantined"
  ELSE IF HeaderAmong(f, n, "supported") THEN "supported" ELSE "none"

LEMMA FormatNext ==
  ASSUME NEW f, NEW n \in Nat, files[f][n + 1] \in Line
  PROVE  FormatAt(f, n + 1) =
           IF files[f][n + 1].kind = "header"
           THEN ApplyVersion(FormatAt(f, n), files[f][n + 1].version)
           ELSE FormatAt(f, n)
  <1> DEFINE l == files[f][n + 1]
  <1>1. \A v : HeaderAmong(f, n + 1, v)
                 <=> HeaderAmong(f, n, v) \/ (l.kind = "header" /\ l.version = v)
    <2>1. 1 .. n + 1 = (1 .. n) \union {n + 1}
      OBVIOUS
    <2> QED BY <2>1 DEF HeaderAmong
  <1>2. l.kind = "header" => l.version \in {"supported", "unsupported"}
    BY DEF Line, Header, Damage, Died, EncounterStart, EncounterEnd, Headers
  <1> QED BY <1>1, <1>2 DEF FormatAt, ApplyVersion

LEMMA FormatInterpreted ==
  ASSUME NEW p
  PROVE  Interpreted(FormatAt(p.file, p.at - 1)) <=> MayInterpret(p)
  BY DEF Interpreted, FormatAt, MayInterpret, HeaderBefore, HeaderAmong

LEMMA FormatStored ==
  ASSUME NEW f, NEW n
  PROVE  DecodeFormat(EncodeFormat(FormatAt(f, n))) = FormatAt(f, n)
  BY DEF FormatAt, EncodeFormat, DecodeFormat

(* What is written stays, and what it may be taken for.                       *)
LEMMA FormatKept ==
  ASSUME TypeInv, [Next]_vars, NEW f \in DOMAIN files, NEW n \in 0 .. Len(files[f])
  PROVE  FormatAt(f, n)' = FormatAt(f, n)
  <1>1. /\ Len(files[f]) \in Nat
        /\ \A i \in 1 .. Len(files[f]) : files'[f][i] = files[f][i]
    BY FilesGrow
  <1>2. \A i \in 1 .. n : files'[f][i] = files[f][i]
    BY <1>1
  <1> QED BY <1>2 DEF FormatAt, HeaderAmong

LEMMA PlaceKept ==
  ASSUME TypeInv, [Next]_vars, NEW p \in Place,
         p.file \in DOMAIN files, p.at \in 1 .. Len(files[p.file])
  PROVE  /\ LineAt(p)' = LineAt(p)
         /\ MayInterpret(p)' <=> MayInterpret(p)
         /\ IsDeath(p)' <=> IsDeath(p)
  <1>1. \A i \in 1 .. Len(files[p.file]) : files'[p.file][i] = files[p.file][i]
    BY FilesGrow
  <1>2. \A i \in 1 .. p.at - 1 : i \in 1 .. Len(files[p.file])
    BY FilesGrow
  <1> QED BY <1>1, <1>2 DEF LineAt, MayInterpret, HeaderBefore, IsDeath

-------------------------------------------------------------------------------
(* Rows: the deaths that the lines m + 1 .. n of a file entitle to a row.     *)

Recordable(f, m, n) ==
  {p \in Place : p.file = f /\ p.at \in m + 1 .. n /\ IsDeath(p) /\ MayInterpret(p)}

NewPlaces == {deaths[k].place : k \in persistedDeaths + 1 .. Len(deaths)}

(* What is stored with an offset is the format of the lines it covers.        *)
RowsInv ==
  /\ \A f \in DOMAIN files : rows[f].code = EncodeFormat(FormatAt(f, rows[f].offset))
  /\ \A f \in Files : f \notin DOMAIN files => rows[f] = NoRow

(* What the process knows is what the lines it read of this file say.         *)
FollowInv ==
  pc # "down" =>
    /\ format = FormatAt(file, pos)
    /\ \A f \in Files : f > file => rows[f] = NoRow
    /\ rows[file].offset <= pos
    /\ pc = "idle" => pos = rows[file].offset /\ persistedDeaths = Len(deaths)
    /\ NewPlaces = Recordable(file, rows[file].offset, pos)

RecordInv == RowsInv /\ FollowInv /\ FailsClosed

LEMMA FormatOfNothing == \A f : FormatAt(f, 0) = "none"
  BY DEF FormatAt, HeaderAmong

LEMMA NothingRecordable ==
  ASSUME NEW f, NEW n \in Nat
  PROVE  Recordable(f, n, n) = {}
  BY DEF Recordable

LEMMA GrowRows ==
  ASSUME TypeInv, RowsInv, [Next]_vars, UNCHANGED rows
  PROVE  RowsInv'
  <1>1. \A f \in Files :
           rows[f].offset \in Nat /\ (f \in DOMAIN files => rows[f].offset \in 0 .. Len(files[f]))
    BY RowTypes, FileFacts
  <1>2. ASSUME NEW f \in DOMAIN files', f \in DOMAIN files
        PROVE  (rows[f].code = EncodeFormat(FormatAt(f, rows[f].offset)))'
    <2>1. f \in Files
      BY <1>2, FileFacts
    <2>2. PICK n \in 0 .. Len(files[f]) : n = rows[f].offset
      BY <1>1, <1>2, <2>1
    <2>3. FormatAt(f, n)' = FormatAt(f, n)
      BY <1>2, FormatKept
    <2>4. rows'[f].offset = n /\ rows'[f].code = EncodeFormat(FormatAt(f, n))
      BY <1>2, <2>2 DEF RowsInv
    <2>5. rows'[f].code = EncodeFormat(FormatAt(f, n)')
      BY <2>3, <2>4
    <2>6. (n = rows[f].offset => (EncodeFormat(FormatAt(f, n)) = EncodeFormat(FormatAt(f, rows[f].offset))))'
      BY DEF FormatAt, HeaderAmong
    <2> QED BY <2>4, <2>5, <2>6 DEF EncodeFormat
  <1>3. ASSUME NEW f \in DOMAIN files', f \notin DOMAIN files
        PROVE  (rows[f].code = EncodeFormat(FormatAt(f, rows[f].offset)))'
    <2>1. f \in Files
      BY FilesGrow DEF Current
    <2>2. rows'[f] = NoRow
      BY <1>3, <2>1 DEF RowsInv
    <2>3. (rows[f] = NoRow => rows[f].code = EncodeFormat(FormatAt(f, rows[f].offset)))'
      BY DEF FormatAt, HeaderAmong, NoRow
    <2> QED BY <2>2, <2>3
  <1>4. \A f \in Files : f \notin DOMAIN files' => rows'[f] = NoRow
    BY FilesGrow DEF RowsInv
  <1> QED BY <1>2, <1>3, <1>4 DEF RowsInv

(* The deaths among lines that exist stay what they are.                      *)
LEMMA RecordableKept ==
  ASSUME TypeInv, [Next]_vars, NEW f \in DOMAIN files, NEW m \in Nat, NEW n \in 0 .. Len(files[f])
  PROVE  Recordable(f, m, n)' = Recordable(f, m, n)
  <1>1. ASSUME NEW p \in Place, p.file = f, p.at \in m + 1 .. n
        PROVE  (IsDeath(p)' <=> IsDeath(p)) /\ (MayInterpret(p)' <=> MayInterpret(p))
    <2>1. Len(files[f]) \in Nat
      BY FileFacts
    <2>2. p.at \in 1 .. Len(files[p.file])
      BY <1>1, <2>1
    <2> QED BY <1>1, <2>2, PlaceKept
  <1> QED BY <1>1 DEF Recordable

LEMMA GrowFollow ==
  ASSUME TypeInv, FollowInv, [Next]_vars,
         UNCHANGED <<rows, pc, readVars, trackerVars, persistedDeaths>>
  PROVE  FollowInv'
  <1> SUFFICES ASSUME pc' # "down" PROVE FollowInv'
    BY DEF FollowInv
  <1>1. pc # "down" /\ pc' = pc /\ rows' = rows /\ file' = file /\ pos' = pos /\ format' = format
        /\ deaths' = deaths /\ persistedDeaths' = persistedDeaths
    BY DEF readVars, trackerVars
  <1>2. PICK f, m, n : f = file /\ m = rows[file].offset /\ n = pos
    OBVIOUS
  <1>3. f \in DOMAIN files /\ m \in Nat /\ n \in 0 .. Len(files[f])
    BY <1>2, FileFacts, RowTypes
  <1>4. FormatAt(f, n)' = FormatAt(f, n) /\ Recordable(f, m, n)' = Recordable(f, m, n)
    BY <1>3, FormatKept, RecordableKept
  <1>5. /\ format = FormatAt(f, n) /\ NewPlaces = Recordable(f, m, n)
    BY <1>1, <1>2 DEF FollowInv
  <1>6. format' = FormatAt(f, n)' /\ NewPlaces' = Recordable(f, m, n)'
    BY <1>1, <1>4, <1>5 DEF NewPlaces
  <1>7. f = file' /\ m = rows'[file'].offset /\ n = pos'
    BY <1>1, <1>2
  <1>8. (f = file /\ m = rows[file].offset /\ n = pos =>
           FormatAt(f, n) = FormatAt(file, pos)
           /\ Recordable(f, m, n) = Recordable(file, rows[file].offset, pos))'
    BY DEF FormatAt, HeaderAmong, Recordable
  <1>9. (format = FormatAt(file, pos) /\ NewPlaces = Recordable(file, rows[file].offset, pos))'
    BY <1>6, <1>7, <1>8
  <1>10. /\ \A g \in Files : g > file' => rows'[g] = NoRow
         /\ rows'[file'].offset <= pos'
         /\ pc' = "idle" => pos' = rows'[file'].offset /\ persistedDeaths' = Len(deaths')
    BY <1>1 DEF FollowInv
  <1> QED BY <1>9, <1>10 DEF FollowInv

(* Membership of the rows, one place at a time.                               *)
Covered(p) ==
  /\ p.file \in DOMAIN files /\ p.at <= rows[p.file].offset
  /\ IsDeath(p) /\ MayInterpret(p)

LEMMA FailsClosedByPlace ==
  FailsClosed <=> events \subseteq Place /\ \A p \in Place : p \in events <=> Covered(p)
  BY DEF FailsClosed, Covered

LEMMA GrowFailsClosed ==
  ASSUME TypeInv, FailsClosed, [Next]_vars, UNCHANGED <<rows, events>>
  PROVE  FailsClosed'
  <1>1. ASSUME NEW p \in Place PROVE Covered(p)' <=> Covered(p)
    <2>0. p.file \in Files /\ p.at \in 1 .. MaxLines
      BY DEF Place
    <2>1. CASE p.file \in DOMAIN files /\ p.at <= rows[p.file].offset
      <3>1. /\ rows[p.file].offset \in Nat /\ rows[p.file].offset <= Len(files[p.file])
            /\ Len(files[p.file]) \in Nat
        BY <2>0, <2>1, RowTypes, FileFacts
      <3>2. p.at \in 1 .. Len(files[p.file])
        BY <2>0, <2>1, <3>1
      <3>3. (IsDeath(p)' <=> IsDeath(p)) /\ (MayInterpret(p)' <=> MayInterpret(p))
        BY <2>1, <3>2, PlaceKept
      <3>4. p.file \in DOMAIN files'
        BY <2>1, FilesGrow
      <3> QED BY <2>1, <3>3, <3>4 DEF Covered
    <2>2. CASE p.file \in DOMAIN files /\ ~(p.at <= rows[p.file].offset)
      BY <2>2 DEF Covered
    <2>3. CASE p.file \notin DOMAIN files
      <3>1. rows[p.file].offset = 0
        BY <2>0, <2>3, RowTypes
      <3>2. ~(p.at <= rows'[p.file].offset)
        BY <2>0, <3>1
      <3> QED BY <2>3, <3>2 DEF Covered
    <2> QED BY <2>1, <2>2, <2>3
  <1>2. events \subseteq Place /\ \A p \in Place : p \in events <=> Covered(p)
    BY FailsClosedByPlace
  <1>3. events' \subseteq Place /\ \A p \in Place : p \in events' <=> Covered(p)'
    BY <1>1, <1>2
  <1> QED BY <1>3 DEF FailsClosed, Covered

(* Where no file, no row and no event changes, only FollowInv is at stake.    *)
LEMMA DiskUntouched ==
  ASSUME RecordInv, UNCHANGED diskVars
  PROVE  RowsInv' /\ FailsClosed'
  BY DEF RecordInv, RowsInv, FailsClosed, FormatAt, HeaderAmong, diskVars, IsDeath, LineAt,
         MayInterpret, HeaderBefore

LEMMA KillRecords ==
  ASSUME RecordInv, Kill
  PROVE  RecordInv'
  BY DiskUntouched DEF Kill, RecordInv, FollowInv

(* The stored format is resumed with the offset it belongs to.                *)
LEMMA StartRecords ==
  ASSUME TypeInv, DownIsBlank, RecordInv, Start
  PROVE  RecordInv'
  <1>1. /\ files' = files /\ rows' = rows /\ file' = Current /\ pos' = rows[Current].offset
        /\ format' = DecodeFormat(rows[Current].code) /\ pc' = "idle"
        /\ deaths' = << >> /\ persistedDeaths' = 0
    BY DEF Start, diskVars, trackerVars, DownIsBlank
  <1>2. PICK f, n : f = Current /\ n = rows[Current].offset
    OBVIOUS
  <1>3. f \in DOMAIN files /\ n \in Nat
    BY <1>2, FileFacts, RowTypes
  <1>4. rows[f].code = EncodeFormat(FormatAt(f, n))
    BY <1>2, <1>3 DEF RecordInv, RowsInv
  <1>5. format' = FormatAt(f, n)
    BY <1>1, <1>2, <1>4, FormatStored
  <1>6. (f = file /\ n = pos /\ files = files => FormatAt(f, n) = FormatAt(file, pos))'
    BY DEF FormatAt, HeaderAmong
  <1>7. FormatAt(f, n)' = FormatAt(f, n)
    BY <1>1 DEF FormatAt, HeaderAmong
  <1>8. (format = FormatAt(file, pos))'
    BY <1>1, <1>2, <1>5, <1>6, <1>7
  <1>9. (NewPlaces = {})'
    BY <1>1 DEF NewPlaces
  <1>10. (pos \in Nat /\ pos = rows[file].offset => Recordable(file, rows[file].offset, pos) = {})'
    BY DEF Recordable
  <1>11. pos' \in Nat /\ pos' = rows'[file'].offset /\ pos' <= pos'
    BY <1>1, <1>2, <1>3
  <1>12. \A g \in Files : g > file' => rows'[g] = NoRow
    BY <1>1, FileFacts DEF RecordInv, RowsInv
  <1>13. persistedDeaths' = Len(deaths')
    BY <1>1
  <1>14. FollowInv'
    BY <1>8, <1>9, <1>10, <1>11, <1>12, <1>13 DEF FollowInv
  <1> QED BY <1>14, DiskUntouched DEF RecordInv, Start

(* A file that is new to the process has no row.                              *)
LEMMA BeginPollRecords ==
  ASSUME TypeInv, RecordInv, BeginPoll
  PROVE  RecordInv'
  <1>1. /\ files' = files /\ rows' = rows /\ file' = Current /\ pc' = "scan"
        /\ deaths' = deaths /\ persistedDeaths' = persistedDeaths
    BY DEF BeginPoll, diskVars, trackerVars
  <1>2. pos = rows[file].offset /\ persistedDeaths = Len(deaths) /\ format = FormatAt(file, pos)
    BY DEF RecordInv, FollowInv, BeginPoll
  <1>3. Len(deaths) \in Nat
    BY DEF TypeInv
  <1>4. NewPlaces' = {}
    BY <1>1, <1>2, <1>3 DEF NewPlaces
  <1>5. pos' = rows'[file'].offset /\ pos' \in Nat
    <2>1. CASE file = Current
      BY <1>1, <1>2, <2>1, FileFacts DEF BeginPoll
    <2>2. CASE file # Current
      <3>1. Current > file /\ Current \in Files
        BY <2>2, FileFacts
      <3>2. rows[Current] = NoRow
        BY <3>1 DEF RecordInv, FollowInv, BeginPoll
      <3> QED BY <1>1, <2>2, <3>2 DEF NoRow, BeginPoll
    <2> QED BY <2>1, <2>2
  <1>6. (format = FormatAt(file, pos))'
    <2>1. CASE file = Current
      <3>1. file' = file /\ pos' = pos /\ format' = format /\ files' = files
        BY <1>1, <2>1 DEF BeginPoll
      <3> QED BY <1>2, <3>1 DEF FormatAt, HeaderAmong
    <2>2. CASE file # Current
      <3>1. pos' = 0 /\ format' = "none"
        BY <2>2 DEF BeginPoll
      <3>2. (pos = 0 => FormatAt(file, pos) = "none")'
        BY DEF FormatAt, HeaderAmong
      <3> QED BY <3>1, <3>2
    <2> QED BY <2>1, <2>2
  <1>7. (pos \in Nat /\ pos = rows[file].offset => Recordable(file, rows[file].offset, pos) = {})'
    BY DEF Recordable
  <1>8. \A g \in Files : g > file' => rows'[g] = NoRow
    BY <1>1, FileFacts DEF RecordInv, RowsInv
  <1>9. FollowInv'
    BY <1>1, <1>4, <1>5, <1>6, <1>7, <1>8 DEF FollowInv
  <1> QED BY <1>9, DiskUntouched DEF RecordInv, BeginPoll

(* The deaths the next line adds to those the process holds.                  *)
LEMMA RecordableNext ==
  ASSUME NEW f \in Files, NEW m \in Nat, NEW n \in Nat, m <= n, n + 1 \in 1 .. MaxLines,
         NEW p, p = [file |-> f, at |-> n + 1]
  PROVE  /\ IsDeath(p) /\ MayInterpret(p) =>
              Recordable(f, m, n + 1) = Recordable(f, m, n) \union {p}
         /\ ~(IsDeath(p) /\ MayInterpret(p)) =>
              Recordable(f, m, n + 1) = Recordable(f, m, n)
  <1>1. p \in Place /\ p.file = f /\ p.at = n + 1
    BY DEF Place
  <1>2. \A q \in Place : q.file = f /\ q.at = n + 1 => q = p
    BY DEF Place
  <1>3. \A q \in Place : q.at \in m + 1 .. n + 1 <=> q.at \in m + 1 .. n \/ q.at = n + 1
    BY DEF Place
  <1> QED BY <1>1, <1>2, <1>3 DEF Recordable

(* The death a line adds is recorded if, and only if, it may be interpreted.  *)
LEMMA ReadLineDeath ==
  ASSUME TypeInv, FollowInv, ReadLine, NEW p, p = [file |-> file, at |-> pos + 1]
  PROVE  /\ ~(IsDeath(p) /\ MayInterpret(p)) => deaths' = deaths
         /\ IsDeath(p) /\ MayInterpret(p) =>
              \E d : d.place = p /\ deaths' = Append(deaths, d)
  <1>1. files[file][pos + 1] = LineAt(p)
    BY DEF LineAt
  <1>2. format = FormatAt(p.file, p.at - 1)
    <2>1. pos \in Nat /\ p.file = file /\ p.at - 1 = pos
      BY FileFacts
    <2> QED BY <2>1 DEF FollowInv, ReadLine
  <1>3. Interpreted(format) <=> MayInterpret(p)
    BY <1>2, FormatInterpreted
  <1>4. LineAt(p).kind = "header" \/ ~Interpreted(format) => deaths' = deaths
    BY <1>1 DEF ReadLine, trackerVars
  <1>5. LineAt(p).kind # "header" /\ Interpreted(format) => Observe(LineAt(p))
    BY <1>1 DEF ReadLine
  <1>6. Observe(LineAt(p)) /\ ~IsDeath(p) => deaths' = deaths
    BY DEF Observe, ObserveDamage, ObserveDeath, ObserveEncounter, IsDeath
  <1>7. ObserveDeath(LineAt(p)) /\ IsDeath(p) => \E d : d.place = p /\ deaths' = Append(deaths, d)
    BY DEF ObserveDeath, IsDeath
  <1>8. Observe(LineAt(p)) /\ IsDeath(p) => ObserveDeath(LineAt(p))
    BY DEF Observe, IsDeath
  <1>9. IsDeath(p) => LineAt(p).kind # "header"
    BY DEF IsDeath
  <1> QED BY <1>3, <1>4, <1>5, <1>6, <1>7, <1>8, <1>9

LEMMA ReadLineRecords ==
  ASSUME TypeInv, RecordInv, ReadLine
  PROVE  RecordInv'
  <1>1. /\ files' = files /\ rows' = rows /\ file' = file /\ pos' = pos + 1
        /\ persistedDeaths' = persistedDeaths /\ pc = "scan" /\ pc' = "scan"
        /\ pos < limit /\ limit \in 0 .. Len(files[file])
    BY DEF ReadLine, diskVars, TypeInv
  <1>2. PICK f, m, n, p : /\ f = file /\ m = rows[file].offset /\ n = pos
                          /\ p = [file |-> f, at |-> n + 1]
    OBVIOUS
  <1>3. /\ f \in Files /\ f \in DOMAIN files /\ n \in Nat /\ n + 1 \in 1 .. MaxLines
        /\ files[f] \in Seq(Line) /\ n + 1 \in 1 .. Len(files[f])
    BY <1>1, <1>2, FileFacts
  <1>4. m \in Nat /\ m <= n
    <2>1. m \in Nat
      BY <1>2, <1>3, RowTypes
    <2> QED BY <1>1, <1>2, <2>1 DEF RecordInv, FollowInv
  <1>5. format = FormatAt(f, n) /\ NewPlaces = Recordable(f, m, n)
    BY <1>1, <1>2 DEF RecordInv, FollowInv
  <1>6. files[f][n + 1] \in Line
    BY <1>3
  <1>7. format' = FormatAt(f, n + 1)
    BY <1>2, <1>3, <1>5, <1>6, FormatNext DEF ReadLine
  <1>8. NewPlaces' = Recordable(f, m, n + 1)
    <2>1. persistedDeaths \in 0 .. Len(deaths) /\ Len(deaths) \in Nat
      BY DEF TypeInv
    <2>0. /\ IsDeath(p) /\ MayInterpret(p) =>
               Recordable(f, m, n + 1) = Recordable(f, m, n) \union {p}
          /\ ~(IsDeath(p) /\ MayInterpret(p)) =>
               Recordable(f, m, n + 1) = Recordable(f, m, n)
      <3>1. p = [file |-> f, at |-> n + 1]
        BY <1>2
      <3>2. f \in Files /\ m \in Nat /\ n \in Nat /\ m <= n /\ n + 1 \in 1 .. MaxLines
        BY <1>3, <1>4
      <3> QED BY ONLY <3>1, <3>2, RecordableNext
    <2>2. CASE IsDeath(p) /\ MayInterpret(p)
      <3>1. PICK d : d.place = p /\ deaths' = Append(deaths, d)
        BY <1>2, <2>2, ReadLineDeath DEF RecordInv
      <3>2. PICK D : deaths \in Seq(D)
        BY DEF TypeInv
      <3>3. /\ Len(deaths') = Len(deaths) + 1 /\ deaths'[Len(deaths) + 1] = d
            /\ \A k \in 1 .. Len(deaths) : deaths'[k] = deaths[k]
        BY <3>1, <3>2, AppendAnything
      <3>4. NewPlaces' = NewPlaces \union {p}
        BY <1>1, <2>1, <3>1, <3>3 DEF NewPlaces
      <3> QED BY <1>5, <2>0, <2>2, <3>4
    <2>3. CASE ~(IsDeath(p) /\ MayInterpret(p))
      <3>1. deaths' = deaths
        BY <1>2, <2>3, ReadLineDeath DEF RecordInv
      <3>2. NewPlaces' = NewPlaces
        BY <1>1, <3>1 DEF NewPlaces
      <3> QED BY <1>5, <2>0, <2>3, <3>2
    <2> QED BY <2>2, <2>3
  <1>9. FormatAt(f, n + 1)' = FormatAt(f, n + 1) /\ Recordable(f, m, n + 1)' = Recordable(f, m, n + 1)
    BY <1>1 DEF FormatAt, HeaderAmong, Recordable, IsDeath, LineAt, MayInterpret, HeaderBefore
  <1>10. f = file' /\ m = rows'[file'].offset /\ n + 1 = pos'
    BY <1>1, <1>2
  <1>11. (f = file /\ m = rows[file].offset /\ n + 1 = pos =>
            FormatAt(f, n + 1) = FormatAt(file, pos)
            /\ Recordable(f, m, n + 1) = Recordable(file, rows[file].offset, pos))'
    BY DEF FormatAt, HeaderAmong, Recordable
  <1>12. (format = FormatAt(file, pos) /\ NewPlaces = Recordable(file, rows[file].offset, pos))'
    BY <1>7, <1>8, <1>9, <1>10, <1>11
  <1>13. \A g \in Files : g > file' => rows'[g] = NoRow
    BY <1>1 DEF RecordInv, FollowInv
  <1>14. rows'[file'].offset <= pos'
    BY <1>3, <1>4, <1>10
  <1>15. FollowInv'
    BY <1>1, <1>12, <1>13, <1>14 DEF FollowInv
  <1> QED BY <1>15, DiskUntouched DEF RecordInv, ReadLine

(* The transaction: the offset moves on to pos, and the rows with it.         *)
LEMMA PersistRecords ==
  ASSUME TypeInv, RecordInv, Persist
  PROVE  RecordInv'
  <1>1. /\ files' = files /\ file' = file /\ pos' = pos /\ format' = format
        /\ deaths' = deaths /\ persistedDeaths' = Len(deaths)
        /\ pc = "scan" /\ pc' = "idle"
    BY PersistCases DEF readVars, trackerVars
  <1>2. PICK f, m, n : f = file /\ m = rows[file].offset /\ n = pos
    OBVIOUS
  <1>3. f \in Files /\ f \in DOMAIN files /\ n \in Nat /\ m \in Nat
    BY <1>2, FileFacts, RowTypes
  <1>4. m <= n /\ format = FormatAt(f, n) /\ NewPlaces = Recordable(f, m, n)
    BY <1>1, <1>2 DEF RecordInv, FollowInv
  <1>5. (pos = rows[file].offset)' /\ (pos \in Nat)'
        /\ \A g \in Files \ {f} : rows'[g] = rows[g]
    <2>1. rows \in [Files -> [offset : 0 .. MaxLines, code : 0 .. 2]]
      BY DEF TypeInv
    <2>2. CASE UNCHANGED <<rows, events>> /\ pos = rows[file].offset
      BY <1>1, <1>2, <1>3, <2>2
    <2>3. CASE rows' = [rows EXCEPT ![file] = [offset |-> pos, code |-> EncodeFormat(format)]]
      BY <1>1, <1>2, <1>3, <2>1, <2>3
    <2> QED BY <2>2, <2>3, PersistCases
  <1>6. rows'[f].code = EncodeFormat(FormatAt(f, n)) /\ rows'[f].offset = n
    <2>1. rows \in [Files -> [offset : 0 .. MaxLines, code : 0 .. 2]]
      BY DEF TypeInv
    <2>2. CASE UNCHANGED <<rows, events>> /\ pos = rows[file].offset
      BY <1>2, <1>3, <2>2 DEF RecordInv, RowsInv
    <2>3. CASE rows' = [rows EXCEPT ![file] = [offset |-> pos, code |-> EncodeFormat(format)]]
      BY <1>2, <1>3, <1>4, <2>1, <2>3
    <2> QED BY <2>2, <2>3, PersistCases
  <1>7. RowsInv'
    <2>1. \A g, k : FormatAt(g, k)' = FormatAt(g, k)
      BY <1>1 DEF FormatAt, HeaderAmong
    <2>2. \A g, k : (rows[g].offset = k => FormatAt(g, rows[g].offset) = FormatAt(g, k))'
      BY DEF FormatAt, HeaderAmong
    <2>3. ASSUME NEW g \in DOMAIN files', g # f
          PROVE  (rows[g].code = EncodeFormat(FormatAt(g, rows[g].offset)))'
      <3>1. g \in Files /\ rows'[g] = rows[g]
        BY <1>1, <1>5, <2>3, FileFacts
      <3>2. rows[g].code = EncodeFormat(FormatAt(g, rows[g].offset))
        BY <1>1, <2>3 DEF RecordInv, RowsInv
      <3>3. PICK k : k = rows[g].offset
        OBVIOUS
      <3>4. rows'[g].code = EncodeFormat(FormatAt(g, k)') /\ rows'[g].offset = k
        BY <2>1, <3>1, <3>2, <3>3
      <3> QED BY <2>2, <3>4 DEF EncodeFormat
    <2>4. (rows[f].code = EncodeFormat(FormatAt(f, rows[f].offset)))'
      BY <1>6, <2>1, <2>2 DEF EncodeFormat
    <2>5. \A g \in Files : g \notin DOMAIN files' => rows'[g] = NoRow
      BY <1>1, <1>3, <1>5 DEF RecordInv, RowsInv
    <2> QED BY <2>3, <2>4, <2>5 DEF RowsInv
  <1>8. FollowInv'
    <2>1. NewPlaces' = {}
      <3>1. Len(deaths) \in Nat
        BY DEF TypeInv
      <3> QED BY <1>1, <3>1 DEF NewPlaces
    <2>2. (pos \in Nat /\ pos = rows[file].offset => Recordable(file, rows[file].offset, pos) = {})'
      BY DEF Recordable
    <2>3. (f = file /\ n = pos => FormatAt(file, pos) = FormatAt(f, n))'
      BY DEF FormatAt, HeaderAmong
    <2>4. FormatAt(f, n)' = FormatAt(f, n)
      BY <1>1 DEF FormatAt, HeaderAmong
    <2>5. (format = FormatAt(file, pos))'
      BY <1>1, <1>2, <1>4, <2>3, <2>4
    <2>6. \A g \in Files : g > file' => rows'[g] = NoRow
      BY <1>1, <1>2, <1>3, <1>5 DEF RecordInv, FollowInv
    <2>7. rows'[file'].offset <= pos' /\ pos' = rows'[file'].offset
      BY <1>5
    <2> QED BY <1>1, <1>5, <2>1, <2>2, <2>5, <2>6, <2>7 DEF FollowInv
  <1>9. FailsClosed'
    <2>1. events' = events \union Recordable(f, m, n)
      <3>1. CASE UNCHANGED <<rows, events>> /\ pos = rows[file].offset
        BY <1>2, <1>3, <3>1, NothingRecordable
      <3>2. CASE events' = events \union NewPlaces
        BY <1>4, <3>2
      <3> QED BY <3>1, <3>2, PersistCases DEF NewPlaces
    <2>2. events \subseteq Place /\ \A p \in Place : p \in events <=> Covered(p)
      BY FailsClosedByPlace DEF RecordInv
    <2>3. ASSUME NEW p \in Place
          PROVE  Covered(p)' <=> Covered(p) \/ p \in Recordable(f, m, n)
      <3>1. p.file \in Files /\ p.at \in Nat
        BY DEF Place
      <3>2. (IsDeath(p)' <=> IsDeath(p)) /\ (MayInterpret(p)' <=> MayInterpret(p))
        BY <1>1 DEF IsDeath, LineAt, MayInterpret, HeaderBefore
      <3>3. CASE p.file # f
        <4>1. rows'[p.file] = rows[p.file]
          BY <1>5, <3>1, <3>3
        <4>2. p \notin Recordable(f, m, n)
          BY <3>3 DEF Recordable
        <4> QED BY <1>1, <3>2, <4>1, <4>2 DEF Covered
      <3>4. CASE p.file = f
        <4>1. p.at <= n <=> p.at <= m \/ p.at \in m + 1 .. n
          BY <1>3, <1>4, <3>1
        <4>2. p \in Recordable(f, m, n) <=> p.at \in m + 1 .. n /\ IsDeath(p) /\ MayInterpret(p)
          BY <3>4 DEF Recordable
        <4> QED BY <1>1, <1>2, <1>3, <1>6, <3>2, <3>4, <4>1, <4>2 DEF Covered
      <3> QED BY <3>3, <3>4
    <2>4. events' \subseteq Place /\ \A p \in Place : p \in events' <=> Covered(p)'
      BY <2>1, <2>2, <2>3 DEF Recordable
    <2> QED BY <2>4 DEF FailsClosed, Covered
  <1> QED BY <1>7, <1>8, <1>9 DEF RecordInv

LEMMA InitRecords == Init => RecordInv
  <1> SUFFICES ASSUME Init PROVE RecordInv
    OBVIOUS
  <1>1. rows = [f \in Files |-> NoRow] /\ events = {} /\ pc = "down"
    BY DEF Init
  <1>2. TypeInv
    BY InitType
  <1>3. \A f \in Files : rows[f] = NoRow
    BY <1>1
  <1>4. RowsInv
    BY <1>2, <1>3, FormatOfNothing, FileFacts DEF RowsInv, NoRow
  <1>5. FailsClosed
    <2>1. \A p \in Place : ~Covered(p)
      BY <1>3 DEF Covered, NoRow, Place
    <2> QED BY <1>1, <2>1, FailsClosedByPlace
  <1> QED BY <1>1, <1>4, <1>5 DEF RecordInv, FollowInv

LEMMA RecordStep == TypeInv /\ DownIsBlank /\ RecordInv /\ [Next]_vars => RecordInv'
  <1> SUFFICES ASSUME TypeInv, DownIsBlank, RecordInv, [Next]_vars PROVE RecordInv'
    OBVIOUS
  <1>1. CASE WriteLine \/ NewFile \/ UNCHANGED vars
    <2>1. UNCHANGED <<rows, events, pc, readVars, trackerVars, persistedDeaths>>
      BY <1>1 DEF WriteLine, NewFile, vars, diskVars
    <2> QED BY <2>1, GrowRows, GrowFollow, GrowFailsClosed DEF RecordInv
  <1>2. CASE Kill \/ Start \/ BeginPoll \/ ReadLine \/ Persist
    BY <1>2, KillRecords, StartRecords, BeginPollRecords, ReadLineRecords, PersistRecords
  <1> QED BY <1>1, <1>2 DEF Next

(* Records fail closed and nothing else is lost: persistPoll stores with the  *)
(* offset of a file exactly the tracked deaths it covers that stand after a   *)
(* supported header and no unsupported one, however polls, restarts and new   *)
(* files fall.                                                                *)
THEOREM RecordsFailClosed == Spec => []FailsClosed
  <1>1. Init => TypeInv /\ DownIsBlank /\ RecordInv
    BY InitType, InitRecords
  <1>2. TypeInv /\ DownIsBlank /\ RecordInv /\ [Next]_vars
          => (TypeInv /\ DownIsBlank /\ RecordInv)'
    BY TypeStep, RecordStep
  <1>3. TypeInv /\ DownIsBlank /\ RecordInv => FailsClosed
    BY DEF RecordInv
  <1> QED BY <1>1, <1>2, <1>3, PTL DEF Spec

-------------------------------------------------------------------------------
(* Encounters: what one more heard line does to the boss being fought.        *)

Encounter(b) == IF b = NoBoss THEN {} ELSE {b}

Follows(n) ==
  /\ MayInterpret(heard[n]) /\ HeardLine(n).kind = "encounterStart" =>
       Fighting(n + 1) = {HeardLine(n).boss}
  /\ MayInterpret(heard[n]) /\ HeardLine(n).kind = "encounterEnd" =>
       Fighting(n + 1) = Fighting(n) \ {HeardLine(n).boss}
  /\ ~MayInterpret(heard[n]) \/ HeardLine(n).kind \notin {"encounterStart", "encounterEnd"} =>
       Fighting(n + 1) = Fighting(n)

LEMMA StartsNext ==
  ASSUME NEW n \in Nat \ {0}
  PROVE  StartsBefore(n + 1) =
           StartsBefore(n) \union
             {i \in {n} : HeardLine(i).kind = "encounterStart" /\ MayInterpret(heard[i])}
  <1>1. 1 .. (n + 1) - 1 = (1 .. n - 1) \union {n}
    OBVIOUS
  <1> QED BY <1>1 DEF StartsBefore

LEMMA EndedNext ==
  ASSUME NEW n \in Nat \ {0}, NEW i \in 1 .. n - 1
  PROVE  EndedBy(i, n + 1) <=>
           \/ EndedBy(i, n)
           \/ /\ HeardLine(n).kind = "encounterEnd" /\ MayInterpret(heard[n])
              /\ HeardLine(n).boss = HeardLine(i).boss
  <1>1. i + 1 .. (n + 1) - 1 = (i + 1 .. n - 1) \union {n}
    OBVIOUS
  <1> QED BY <1>1 DEF EndedBy

LEMMA FightingNext ==
  ASSUME NEW n \in Nat \ {0}
  PROVE  Follows(n)
  <1> DEFINE IsStart(k) == HeardLine(k).kind = "encounterStart" /\ MayInterpret(heard[k])
             Going(m)   == {s \in StartsBefore(m) : /\ \A t \in StartsBefore(m) : t <= s
                                                    /\ ~EndedBy(s, m)}
  <1>1. StartsBefore(n) \subseteq 1 .. n - 1
    BY DEF StartsBefore
  <1>2. \A m : Fighting(m) = {HeardLine(i).boss : i \in Going(m)}
    BY DEF Fighting
  <1>3. CASE IsStart(n)
    <2>1. StartsBefore(n + 1) = StartsBefore(n) \union {n}
      BY <1>3, StartsNext
    <2>2. ~EndedBy(n, n + 1)
      BY DEF EndedBy
    <2>3. Going(n + 1) = {n}
      BY <1>1, <2>1, <2>2
    <2>4. Fighting(n + 1) = {HeardLine(n).boss}
      BY <1>2, <2>3
    <2> QED BY <1>3, <2>4 DEF Follows
  <1>4. CASE ~IsStart(n)
    <2>1. StartsBefore(n + 1) = StartsBefore(n)
      <3>1. {i \in {n} : HeardLine(i).kind = "encounterStart" /\ MayInterpret(heard[i])} = {}
        BY <1>4
      <3> QED BY <3>1, StartsNext
    <2>2. \A i \in StartsBefore(n) :
             EndedBy(i, n + 1) <=>
               \/ EndedBy(i, n)
               \/ /\ HeardLine(n).kind = "encounterEnd" /\ MayInterpret(heard[n])
                  /\ HeardLine(n).boss = HeardLine(i).boss
      BY <1>1, EndedNext
    <2>3. CASE MayInterpret(heard[n]) /\ HeardLine(n).kind = "encounterEnd"
      <3>1. \A i : i \in Going(n + 1) <=> i \in Going(n) /\ HeardLine(i).boss # HeardLine(n).boss
        BY <2>1, <2>2, <2>3
      <3>2. Fighting(n + 1) = Fighting(n) \ {HeardLine(n).boss}
        <4> HIDE DEF Going
        <4> QED BY <1>2, <3>1
      <3> QED BY <2>3, <3>2 DEF Follows
    <2>4. CASE ~(MayInterpret(heard[n]) /\ HeardLine(n).kind = "encounterEnd")
      <3>1. Going(n + 1) = Going(n)
        BY <2>1, <2>2, <2>4
      <3>2. Fighting(n + 1) = Fighting(n)
        BY <1>2, <3>1
      <3> QED BY <1>4, <2>4, <3>2 DEF Follows
    <2> QED BY <2>3, <2>4
  <1> QED BY <1>3, <1>4

LEMMA FightingNextPrime == (\A n \in Nat \ {0} : Follows(n))'
  <1>1. \A n \in Nat \ {0} : Follows(n)
    BY FightingNext
  <1> QED BY <1>1, PTL

LEMMA FightingNobody == Fighting(1) = {}
  <1>1. StartsBefore(1) = {}
    BY DEF StartsBefore
  <1> QED BY <1>1 DEF Fighting

LEMMA FightingNobodyPrime == (Fighting(1) = {})'
  <1>1. Fighting(1) = {}
    BY FightingNobody
  <1> QED BY <1>1, PTL

(* Lines that are heard again as they were leave the group where it was.      *)
LEMMA FightingSame ==
  ASSUME NEW n \in Nat,
         \A i \in 1 .. n - 1 : /\ HeardLine(i)' = HeardLine(i)
                               /\ MayInterpret(heard[i])' <=> MayInterpret(heard[i])
  PROVE  Fighting(n)' = Fighting(n)
  <1>1. StartsBefore(n)' = StartsBefore(n)
    BY DEF StartsBefore
  <1>2. StartsBefore(n) \subseteq 1 .. n - 1
    BY DEF StartsBefore
  <1>3. \A i \in 1 .. n - 1 : EndedBy(i, n)' <=> EndedBy(i, n)
    <2> SUFFICES ASSUME NEW i \in 1 .. n - 1 PROVE EndedBy(i, n)' <=> EndedBy(i, n)
      OBVIOUS
    <2>1. \A j \in i + 1 .. n - 1 : j \in 1 .. n - 1
      OBVIOUS
    <2> QED BY <2>1 DEF EndedBy
  <1>4. \A s \in StartsBefore(n) : HeardLine(s)' = HeardLine(s) /\ (EndedBy(s, n)' <=> EndedBy(s, n))
    BY <1>2, <1>3
  <1> QED BY <1>1, <1>4 DEF Fighting

(* The process knows the boss of the lines it heard, and so did every death   *)
(* it holds when it was heard.                                                *)
HeardInv ==
  /\ \A i \in DOMAIN heard :
       heard[i].file \in DOMAIN files /\ heard[i].at <= Len(files[heard[i].file])
  /\ Fighting(Len(heard) + 1) = Encounter(encounter)
  /\ \A k \in DOMAIN deaths : deaths[k].heardAt \in 1 .. Len(heard)
  /\ EncounterFromLog

(* EncounterFromLog with the place and the boss of a death by name.           *)
DeathsKnowBoss ==
  \A k \in DOMAIN deaths : \A n, e :
    n = deaths[k].heardAt /\ e = deaths[k].encounter => Fighting(n) = Encounter(e)

LEMMA EncounterByDeath == DeathsKnowBoss => EncounterFromLog
  BY DEF DeathsKnowBoss, EncounterFromLog, Encounter

LEMMA EncounterByDeathPrime == (DeathsKnowBoss => EncounterFromLog)'
  <1>1. DeathsKnowBoss => EncounterFromLog
    BY EncounterByDeath
  <1> QED BY <1>1, PTL

LEMMA DeathsByEncounter == EncounterFromLog => DeathsKnowBoss
  BY DEF DeathsKnowBoss, EncounterFromLog, Encounter

(* A line that was heard is in its file and stays there.                      *)
LEMMA HeardKept ==
  ASSUME TypeInv, HeardInv, [Next]_vars, NEW i \in 1 .. Len(heard), heard'[i] = heard[i]
  PROVE  /\ HeardLine(i)' = HeardLine(i)
         /\ MayInterpret(heard[i])' <=> MayInterpret(heard[i])
         /\ heard[i].file \in DOMAIN files' /\ heard[i].at <= Len(files'[heard[i].file])
  <1>1. PICK p : p = heard[i]
    OBVIOUS
  <1>2. p \in Place
    BY <1>1 DEF TypeInv
  <1>3. p.file \in DOMAIN files /\ p.at <= Len(files[p.file]) /\ p.at \in Nat /\ p.at >= 1
    <2>1. i \in DOMAIN heard
      BY DEF TypeInv
    <2> QED BY <1>1, <1>2, <2>1 DEF HeardInv, Place
  <1>4. Len(files[p.file]) \in Nat
    BY <1>3, FileFacts
  <1>5. p.at \in 1 .. Len(files[p.file])
    BY <1>3, <1>4
  <1>6. LineAt(p)' = LineAt(p) /\ (MayInterpret(p)' <=> MayInterpret(p))
    BY <1>2, <1>3, <1>5, PlaceKept
  <1>7. (p = heard[i] => HeardLine(i) = LineAt(p) /\ (MayInterpret(heard[i]) <=> MayInterpret(p)))'
    BY DEF HeardLine, LineAt, MayInterpret, HeaderBefore
  <1>8. p.file \in DOMAIN files' /\ p.at <= Len(files'[p.file])
    BY <1>3, <1>4, FilesGrow
  <1> QED BY <1>1, <1>6, <1>7, <1>8 DEF HeardLine

LEMMA HeardStays ==
  ASSUME TypeInv, HeardInv, [Next]_vars,
         Len(heard) \in Nat, \A i \in 1 .. Len(heard) : heard'[i] = heard[i],
         NEW n \in 1 .. Len(heard) + 1
  PROVE  Fighting(n)' = Fighting(n)
  <1>1. \A i \in 1 .. n - 1 : i \in 1 .. Len(heard)
    OBVIOUS
  <1>2. \A i \in 1 .. n - 1 : /\ HeardLine(i)' = HeardLine(i)
                              /\ MayInterpret(heard[i])' <=> MayInterpret(heard[i])
    BY <1>1, HeardKept
  <1> QED BY <1>2, FightingSame

(* Every step but a line read and a kill leaves memory alone.                 *)
LEMMA MemoryHeard ==
  ASSUME TypeInv, HeardInv, [Next]_vars, UNCHANGED <<heard, encounter, deaths>>
  PROVE  HeardInv'
  <1>1. Len(heard) \in Nat /\ DOMAIN heard = 1 .. Len(heard)
    BY DEF TypeInv
  <1>2. \A i \in DOMAIN heard' :
           heard'[i].file \in DOMAIN files' /\ heard'[i].at <= Len(files'[heard'[i].file])
    BY <1>1, HeardKept
  <1>3. \A n \in 1 .. Len(heard) + 1 : Fighting(n)' = Fighting(n)
    BY <1>1, HeardStays
  <1>4. (Fighting(Len(heard) + 1) = Encounter(encounter))'
    <2>1. PICK n : n = Len(heard) + 1
      OBVIOUS
    <2>2. Fighting(n) = Encounter(encounter) /\ n \in 1 .. Len(heard) + 1
      BY <1>1, <2>1 DEF HeardInv
    <2>3. Fighting(n)' = Encounter(encounter)
      BY <1>3, <2>2
    <2>4. (n = Len(heard) + 1 => Fighting(Len(heard) + 1) = Fighting(n))'
      BY DEF Fighting, StartsBefore, EndedBy
    <2> QED BY <2>1, <2>3, <2>4 DEF Encounter
  <1>5. \A k \in DOMAIN deaths' : deaths'[k].heardAt \in 1 .. Len(heard')
    BY DEF HeardInv
  <1>6. DeathsKnowBoss'
    <2>1. SUFFICES ASSUME NEW k \in DOMAIN deaths', NEW n, NEW e,
                          n = deaths'[k].heardAt, e = deaths'[k].encounter
                   PROVE  Fighting(n)' = Encounter(e)
      BY DEF DeathsKnowBoss, Encounter
    <2>2. n \in 1 .. Len(heard) + 1
      BY <1>1, <1>5, <2>1
    <2>3. Fighting(n) = Encounter(e)
      BY <2>1, DeathsByEncounter DEF HeardInv, DeathsKnowBoss
    <2> QED BY <1>3, <2>2, <2>3
  <1> QED BY <1>2, <1>4, <1>5, <1>6, EncounterByDeathPrime DEF HeardInv

LEMMA KillHeard ==
  ASSUME Kill
  PROVE  HeardInv'
  <1>1. heard' = << >> /\ deaths' = << >> /\ encounter' = NoBoss
    BY DEF Kill
  <1>2. DOMAIN heard' = {} /\ DOMAIN deaths' = {}
    BY <1>1
  <1>3. (heard = << >> => (Fighting(1) = Fighting(Len(heard) + 1)))'
    BY DEF Fighting, StartsBefore, EndedBy
  <1>4. (Fighting(Len(heard) + 1) = Encounter(encounter))'
    BY <1>1, <1>3, FightingNobodyPrime DEF Encounter
  <1> QED BY <1>2, <1>4 DEF HeardInv, EncounterFromLog

(* The encounter the tracker keeps is the one the new line leaves.            *)
LEMMA ReadLineEncounter ==
  ASSUME TypeInv, FollowInv, ReadLine, NEW p, p = [file |-> file, at |-> pos + 1]
  PROVE  /\ MayInterpret(p) /\ LineAt(p).kind = "encounterStart" =>
              Encounter(encounter') = {LineAt(p).boss}
         /\ MayInterpret(p) /\ LineAt(p).kind = "encounterEnd" =>
              Encounter(encounter') = Encounter(encounter) \ {LineAt(p).boss}
         /\ ~MayInterpret(p) \/ LineAt(p).kind \notin {"encounterStart", "encounterEnd"} =>
              encounter' = encounter
         /\ deaths' = deaths \/ \E d : /\ d.encounter = encounter /\ d.heardAt = Len(heard) + 1
                                       /\ deaths' = Append(deaths, d) /\ encounter' = encounter
  <1> DEFINE l == LineAt(p)
  <1>1. files[file][pos + 1] = l
    BY DEF LineAt
  <1>2. /\ pos \in Nat /\ pos < limit /\ limit \in 0 .. Len(files[file])
        /\ files[file] \in Seq(Line) /\ Len(files[file]) \in Nat
    BY FileFacts DEF ReadLine, TypeInv
  <1>3. l \in Line
    <2>1. pos + 1 \in 1 .. Len(files[file])
      BY <1>2
    <2> QED BY <1>1, <1>2, <2>1
  <1>4. l.kind \in {"encounterStart", "encounterEnd"} => l.boss \in Bosses /\ l.boss # NoBoss
    BY <1>3 DEF Line, Header, Damage, Died, EncounterStart, EncounterEnd
  <1>5. Interpreted(format) <=> MayInterpret(p)
    <2>1. format = FormatAt(p.file, p.at - 1)
      BY <1>2 DEF FollowInv, ReadLine
    <2> QED BY <2>1, FormatInterpreted
  <1> HIDE DEF l
  <1>6. l.kind = "header" \/ ~Interpreted(format) => encounter' = encounter /\ deaths' = deaths
    BY <1>1 DEF ReadLine, trackerVars
  <1>7. l.kind # "header" /\ Interpreted(format) => Observe(l)
    BY <1>1 DEF ReadLine
  <1>8. ASSUME Observe(l)
        PROVE  /\ l.kind = "encounterStart" => encounter' = l.boss
               /\ l.kind = "encounterEnd" =>
                    encounter' = IF l.boss = encounter THEN NoBoss ELSE encounter
               /\ l.kind \notin {"encounterStart", "encounterEnd"} => encounter' = encounter
    BY <1>8 DEF Observe, ObserveDamage, ObserveDeath, ObserveEncounter
  <1>9. ASSUME Observe(l)
        PROVE  deaths' = deaths \/ \E d : /\ d.encounter = encounter /\ d.heardAt = Len(heard) + 1
                                          /\ deaths' = Append(deaths, d) /\ encounter' = encounter
    BY <1>9 DEF Observe, ObserveDamage, ObserveDeath, ObserveEncounter
  <1>10. /\ MayInterpret(p) /\ l.kind = "encounterStart" => Encounter(encounter') = {l.boss}
         /\ MayInterpret(p) /\ l.kind = "encounterEnd" =>
              Encounter(encounter') = Encounter(encounter) \ {l.boss}
         /\ ~MayInterpret(p) \/ l.kind \notin {"encounterStart", "encounterEnd"} =>
              encounter' = encounter
    BY <1>4, <1>5, <1>6, <1>7, <1>8 DEF Encounter
  <1>11. deaths' = deaths \/ \E d : /\ d.encounter = encounter /\ d.heardAt = Len(heard) + 1
                                    /\ deaths' = Append(deaths, d) /\ encounter' = encounter
    BY <1>6, <1>7, <1>9
  <1> QED BY <1>10, <1>11 DEF l

LEMMA ReadLineHeard ==
  ASSUME TypeInv, FollowInv, HeardInv, ReadLine
  PROVE  HeardInv'
  <1>1. PICK p, n : p = [file |-> file, at |-> pos + 1] /\ n = Len(heard) + 1
    OBVIOUS
  <1>2. /\ files' = files /\ heard' = Append(heard, p)
        /\ pos < limit /\ limit \in 0 .. Len(files[file])
    BY <1>1 DEF ReadLine, diskVars, TypeInv
  <1>3. /\ heard \in Seq(Place) /\ Len(heard) \in Nat /\ DOMAIN heard = 1 .. Len(heard)
        /\ n \in Nat \ {0} /\ Len(heard') = n /\ DOMAIN heard' = 1 .. n
        /\ heard'[n] = p /\ \A i \in 1 .. Len(heard) : heard'[i] = heard[i]
    <2>1. heard \in Seq(Place)
      BY DEF TypeInv
    <2> QED BY <1>1, <1>2, <2>1, AppendAnything
  <1>4. p.file \in DOMAIN files' /\ p.at <= Len(files'[p.file])
    <2>1. pos \in Nat /\ Len(files[file]) \in Nat
      BY FileFacts
    <2> QED BY <1>1, <1>2, <2>1, FileFacts
  <1>5. [Next]_vars
    BY DEF Next
  <1>6. \A i \in DOMAIN heard' :
           heard'[i].file \in DOMAIN files' /\ heard'[i].at <= Len(files'[heard'[i].file])
    <2>1. \A i \in 1 .. Len(heard) :
             heard[i].file \in DOMAIN files' /\ heard[i].at <= Len(files'[heard[i].file])
      BY <1>3, <1>5, HeardKept
    <2>2. \A i \in DOMAIN heard' : i = n \/ i \in 1 .. Len(heard)
      BY <1>1, <1>3
    <2> QED BY <1>3, <1>4, <2>1, <2>2
  <1>7. \A m \in 1 .. n : Fighting(m)' = Fighting(m)
    BY <1>1, <1>3, <1>5, HeardStays
  <1>8. Fighting(n)' = Encounter(encounter)
    <2>1. Fighting(n) = Encounter(encounter)
      BY <1>1 DEF HeardInv
    <2> QED BY <1>3, <1>7, <2>1
  <1>9. (HeardLine(n) = LineAt(p))' /\ (MayInterpret(heard[n]) <=> MayInterpret(p))'
    BY <1>3 DEF HeardLine, LineAt, MayInterpret, HeaderBefore
  <1>10. LineAt(p)' = LineAt(p) /\ (MayInterpret(p)' <=> MayInterpret(p))
    BY <1>2 DEF LineAt, MayInterpret, HeaderBefore
  <1>11. Follows(n)'
    BY <1>3, FightingNextPrime
  <1>12. (Fighting(n + 1) = Encounter(encounter))'
    <2>1. /\ MayInterpret(p) /\ LineAt(p).kind = "encounterStart" =>
               Fighting(n + 1)' = {LineAt(p).boss}
          /\ MayInterpret(p) /\ LineAt(p).kind = "encounterEnd" =>
               Fighting(n + 1)' = Fighting(n)' \ {LineAt(p).boss}
          /\ ~MayInterpret(p) \/ LineAt(p).kind \notin {"encounterStart", "encounterEnd"} =>
               Fighting(n + 1)' = Fighting(n)'
      BY <1>9, <1>10, <1>11 DEF Follows
    <2>2. Encounter(encounter)' = Encounter(encounter')
      BY DEF Encounter
    <2>3. /\ MayInterpret(p) /\ LineAt(p).kind = "encounterStart" =>
               Encounter(encounter') = {LineAt(p).boss}
          /\ MayInterpret(p) /\ LineAt(p).kind = "encounterEnd" =>
               Encounter(encounter') = Encounter(encounter) \ {LineAt(p).boss}
          /\ ~MayInterpret(p) \/ LineAt(p).kind \notin {"encounterStart", "encounterEnd"} =>
               encounter' = encounter
      BY <1>1, ReadLineEncounter
    <2> QED BY <1>8, <2>1, <2>2, <2>3
  <1>13. (Fighting(Len(heard) + 1) = Encounter(encounter))'
    <2>1. (n = Len(heard) => Fighting(n + 1) = Fighting(Len(heard) + 1))'
      BY DEF Fighting, StartsBefore, EndedBy
    <2> QED BY <1>3, <1>12, <2>1
  <1>14. /\ \A k \in DOMAIN deaths' : deaths'[k].heardAt \in 1 .. Len(heard')
         /\ DeathsKnowBoss'
    <2>1. \A k \in DOMAIN deaths : deaths[k].heardAt \in 1 .. Len(heard)
      BY DEF HeardInv
    <2>2. \A k \in DOMAIN deaths : deaths[k].heardAt \in 1 .. n
      BY <1>1, <1>3, <2>1
    <2>3. ASSUME NEW k \in DOMAIN deaths, NEW m, NEW e,
                 m = deaths[k].heardAt, e = deaths[k].encounter
          PROVE  Fighting(m)' = Encounter(e)
      <3>1. m \in 1 .. n
        BY <2>2, <2>3
      <3>2. Fighting(m) = Encounter(e)
        BY <2>3, DeathsByEncounter DEF HeardInv, DeathsKnowBoss
      <3> QED BY <1>7, <3>1, <3>2
    <2>4. CASE deaths' = deaths
      <3>1. DeathsKnowBoss'
        BY <2>3, <2>4 DEF DeathsKnowBoss, Encounter
      <3> QED BY <1>3, <2>2, <2>4, <3>1
    <2>5. ASSUME NEW d, d.encounter = encounter, d.heardAt = Len(heard) + 1,
                 deaths' = Append(deaths, d)
          PROVE  /\ \A k \in DOMAIN deaths' : deaths'[k].heardAt \in 1 .. Len(heard')
                 /\ DeathsKnowBoss'
      <3>1. PICK D : deaths \in Seq(D)
        BY DEF TypeInv
      <3>2. \A k \in DOMAIN deaths' : (k \in DOMAIN deaths /\ deaths'[k] = deaths[k]) \/ deaths'[k] = d
        BY <2>5, <3>1, AppendAnything
      <3>3. \A k \in DOMAIN deaths' : deaths'[k].heardAt \in 1 .. Len(heard')
        BY <1>1, <1>3, <2>2, <2>5, <3>2
      <3>4. SUFFICES ASSUME NEW k \in DOMAIN deaths', NEW m, NEW e,
                            m = deaths'[k].heardAt, e = deaths'[k].encounter
                     PROVE  Fighting(m)' = Encounter(e)
        BY <3>3 DEF DeathsKnowBoss, Encounter
      <3>5. CASE k \in DOMAIN deaths /\ deaths'[k] = deaths[k]
        BY <2>3, <3>4, <3>5
      <3>6. CASE deaths'[k] = d
        BY <1>1, <1>8, <2>5, <3>4, <3>6
      <3> QED BY <3>2, <3>5, <3>6
    <2> QED BY <1>1, <2>4, <2>5, ReadLineEncounter
  <1> QED BY <1>6, <1>13, <1>14, EncounterByDeathPrime DEF HeardInv

LEMMA InitHeard == Init => HeardInv
  <1> SUFFICES ASSUME Init PROVE HeardInv
    OBVIOUS
  <1>1. /\ heard = << >> /\ deaths = << >> /\ encounter = NoBoss
        /\ DOMAIN heard = {} /\ DOMAIN deaths = {} /\ Len(heard) + 1 = 1
    BY DEF Init
  <1> QED BY <1>1, FightingNobody DEF HeardInv, EncounterFromLog, Encounter

LEMMA HeardStep == TypeInv /\ RecordInv /\ HeardInv /\ [Next]_vars => HeardInv'
  <1> SUFFICES ASSUME TypeInv, RecordInv, HeardInv, [Next]_vars PROVE HeardInv'
    OBVIOUS
  <1>1. CASE ReadLine
    BY <1>1, ReadLineHeard DEF RecordInv
  <1>2. CASE Kill
    BY <1>2, KillHeard
  <1>3. CASE WriteLine \/ NewFile \/ Start \/ BeginPoll \/ Persist \/ UNCHANGED vars
    <2>1. UNCHANGED <<heard, encounter, deaths>>
      BY <1>3, PersistCases DEF WriteLine, NewFile, Start, BeginPoll, vars, trackerVars
    <2> QED BY <2>1, MemoryHeard
  <1> QED BY <1>1, <1>2, <1>3 DEF Next

(* A death is given the boss the group is fighting as far as this process     *)
(* heard: encounterTracker.observe keeps, line by line, the last              *)
(* ENCOUNTER_START whose own ENCOUNTER_END did not come, whatever else ends.  *)
THEOREM EncounterOfDeath == Spec => []EncounterFromLog
  <1> DEFINE IInv == TypeInv /\ DownIsBlank /\ RecordInv /\ HeardInv
  <1>1. Init => IInv
    BY InitType, InitRecords, InitHeard
  <1>2. IInv /\ [Next]_vars => IInv'
    BY TypeStep, RecordStep, HeardStep
  <1>3. IInv => EncounterFromLog
    BY DEF HeardInv
  <1> QED BY <1>1, <1>2, <1>3, PTL DEF Spec
=============================================================================
