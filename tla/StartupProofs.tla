--------------------------- MODULE StartupProofs ---------------------------
(***************************************************************************)
(* Proofs about Startup, for every environment and every set of flags.     *)
(***************************************************************************)
EXTENDS Startup, SequenceTheorems, TLAPS

Stores == {"noop", "s3", "gcs"}
Layers == Stores \cup {"errors", "async", "debug"}

(* Where a command has its configuration, and where it has its backend.    *)
Parsed == Places \ {"new", "usage"}
Opened == Places \ {"new", "usage", "backend", "nobackend"}

(* The backend of a command is the store that its configuration names in   *)
(* the wrappers it asks for, or the fallback of the server.                *)
BuiltFrom(c) ==
    \/ \E store \in Opens(conf[c]) : chain[c] = Wrap(conf[c], store)
    \/ MayFallBack(c) /\ chain[c] = <<"noop">>

StartInv ==
    /\ at \in [Commands -> Places]
    /\ conf \in [Commands -> {<<>>} \cup {Resolve(c) : c \in Commands}]
    /\ chain \in [Commands -> Seq(Layers)]
    /\ \A c \in Commands :
          /\ at[c] \in Parsed => conf[c] = Resolve(c)
          /\ chain[c] # <<>> => at[c] \in Opened /\ BuiltFrom(c)
          /\ at[c] \in Opened => chain[c] # <<>> \/ c = "clear-local"
          /\ at[c] = "nobackend" => ~MayFallBack(c)

LEMMA OpensStores ==
    ASSUME NEW k
    PROVE  /\ Opens(k) \subseteq Stores
           /\ \A s, t \in Opens(k) : s = t
           /\ "noop" \in Opens(k) => Lower(k.backend) = "disk"
           /\ "s3" \in Opens(k) => CredentialsOK(k)
BY DEF Opens, Stores

(* The wrappers go around the store. *)
LEMMA HeadOfConcat ==
    ASSUME NEW s \in Seq(Layers), s # <<>>, NEW t \in Seq(Layers)
    PROVE  s \o t \in Seq(Layers) /\ s \o t # <<>> /\ Head(s \o t) = Head(s)
<1>1. s \o t \in Seq(Layers) /\ s \o t # <<>>
    BY ConcatProperties, ConcatEqualIffEmpty
<1>2. 1 \in 1 .. Len(s)
    OBVIOUS
<1>3. (s \o t)[1] = s[1]
    BY <1>2, ConcatProperties
<1>4. QED
    BY <1>1, <1>3

LEMMA OneLayer ==
    ASSUME NEW x \in Layers
    PROVE  <<x>> \in Seq(Layers) /\ <<x>> # <<>> /\ Head(<<x>>) = x /\ <<>> \in Seq(Layers)
OBVIOUS

LEMMA HeadOfWrap ==
    ASSUME NEW k, NEW store \in Stores
    PROVE  /\ Wrap(k, store) \in Seq(Layers) /\ Wrap(k, store) # <<>>
           /\ Head(Wrap(k, store)) = store
<1> DEFINE Layer(on, layer) == IF on THEN <<layer>> ELSE <<>>
<1>1. /\ <<store>> \in Seq(Layers) /\ <<store>> # <<>> /\ Head(<<store>>) = store
      /\ Layer(k.errors, "errors") \in Seq(Layers) /\ Layer(k.async, "async") \in Seq(Layers)
      /\ Layer(k.debug, "debug") \in Seq(Layers)
    <2>1. store \in Layers /\ {"errors", "async", "debug"} \subseteq Layers
        BY DEF Layers
    <2>2. \A layer \in Layers : \A on : Layer(on, layer) \in Seq(Layers)
        BY OneLayer
    <2>3. QED
        BY <2>1, <2>2, OneLayer
<1> DEFINE w1 == <<store>> \o Layer(k.errors, "errors")
           w2 == w1 \o Layer(k.async, "async")
<1>2. w1 \in Seq(Layers) /\ w1 # <<>> /\ Head(w1) = store
    BY <1>1, HeadOfConcat
<1>3. w2 \in Seq(Layers) /\ w2 # <<>> /\ Head(w2) = store
    BY <1>1, <1>2, HeadOfConcat
<1>4. Wrap(k, store) = w2 \o Layer(k.debug, "debug")
    BY DEF Wrap
<1>5. QED
    BY <1>1, <1>3, <1>4, HeadOfConcat

-----------------------------------------------------------------------------
(* The store of a command that has a backend. *)
LEMMA HeadOfChain ==
    ASSUME NEW c, BuiltFrom(c)
    PROVE  \/ Head(chain[c]) \in Opens(conf[c])
           \/ MayFallBack(c) /\ Head(chain[c]) = "noop"
<1>1. CASE MayFallBack(c) /\ chain[c] = <<"noop">>
    BY <1>1
<1>2. ASSUME NEW store \in Opens(conf[c]), chain[c] = Wrap(conf[c], store)
      PROVE  Head(chain[c]) \in Opens(conf[c])
    BY <1>2, OpensStores, HeadOfWrap
<1>3. QED
    BY <1>1, <1>2 DEF BuiltFrom

LEMMA StartInits == StartInit => StartInv
BY DEF StartInit, StartInv, Places, Parsed, Opened

(* Nobody changes the environment, so what was resolved stays resolved.    *)
LEMMA StartSteps ==
    ASSUME StartInv, [StartNext]_startVars
    PROVE  StartInv' /\ env' = env
<1> USE DEF StartInv
<1>1. env' = env
    BY DEF StartNext, startVars, ParseFlags, UnknownFlag, CreateBackend, Ready, FallBack,
           BackendFails, CreateLocks, OpenCache, ClearStore, ClearDir
<1>2. \A c : Resolve(c)' = Resolve(c)
    BY <1>1, ZenonT(60) DEF Resolve
<1>3. CASE UNCHANGED startVars
    BY <1>1, <1>2, <1>3 DEF startVars, BuiltFrom, MayFallBack
<1>4. ASSUME NEW c \in Commands, ParseFlags(c)
      PROVE  StartInv'
    <2>1. at[c] = "new" /\ chain[c] = <<>> /\ at'[c] \in {"dir", "backend"}
          /\ (at'[c] = "dir" => c = "clear-local")
        BY <1>4 DEF ParseFlags, MayStart, MoveTo, Opened, Parsed
    <2>2. \A d \in Commands : at'[d] = "nobackend" => ~MayFallBack(d)'
        BY <1>4, <2>1 DEF ParseFlags, MoveTo, MayFallBack
    <2>3. /\ at' \in [Commands -> Places]
          /\ conf' \in [Commands -> {<<>>} \cup {Resolve(d)' : d \in Commands}]
          /\ conf'[c] = Resolve(c)'
        BY <1>2, <1>4 DEF ParseFlags, MoveTo, Places, Ends
    <2>4. \A d \in Commands \ {c} : at'[d] = at[d] /\ conf'[d] = conf[d] /\ chain'[d] = chain[d]
        BY <1>4 DEF ParseFlags, MoveTo
    <2>5. chain' = chain /\ at'[c] \in Parsed /\ (at'[c] \in Opened => c = "clear-local")
        BY <1>4, <2>1 DEF ParseFlags, Parsed, Opened, Places, Ends
    <2>6. \A d \in Commands \ {c} : BuiltFrom(d) => BuiltFrom(d)'
        BY <2>4 DEF BuiltFrom, MayFallBack
    <2>7. QED
        BY <1>2, <2>1, <2>2, <2>3, <2>4, <2>5, <2>6
<1>5. ASSUME NEW c \in Commands, UnknownFlag(c)
      PROVE  StartInv'
    <2>1. at[c] = "new" /\ chain[c] = <<>>
        BY <1>5 DEF UnknownFlag, MayStart, Opened
    <2>2. QED
        BY <1>2, <1>5, <2>1 DEF UnknownFlag, MoveTo, Places, Ends, Parsed, Opened, BuiltFrom,
                                MayFallBack
<1>6. ASSUME NEW c \in Commands, NEW layers \in Seq(Layers), layers # <<>>,
             at[c] = "backend", Ready(c, layers),
             \/ \E store \in Opens(conf[c]) : layers = Wrap(conf[c], store)
             \/ MayFallBack(c) /\ layers = <<"noop">>
      PROVE  StartInv'
    <2>1. ~(at'[c] = "nobackend") /\ at'[c] \in Opened
        BY <1>6 DEF Ready, MoveTo, Places, Ends, Opened
    <2>2. QED
        BY <1>2, <1>6, <2>1 DEF Ready, MoveTo, Places, Ends, Parsed, Opened, BuiltFrom, MayFallBack
<1>7. ASSUME NEW c \in Commands, CreateBackend(c)
      PROVE  StartInv'
    <2>1. PICK store \in Opens(conf[c]) : Ready(c, Wrap(conf[c], store))
        BY <1>7 DEF CreateBackend
    <2>2. QED
        BY <1>6, <1>7, <2>1, OpensStores, HeadOfWrap DEF CreateBackend
<1>8. ASSUME NEW c \in Commands, FallBack(c)
      PROVE  StartInv'
    BY <1>6, <1>8, OneLayer DEF FallBack, Layers, Stores
<1>9. ASSUME NEW c \in Commands, BackendFails(c)
      PROVE  StartInv'
    BY <1>2, <1>9
       DEF BackendFails, MoveTo, Places, Ends, Parsed, Opened, BuiltFrom, MayFallBack
<1>10. ASSUME NEW c \in Commands,
              CreateLocks(c) \/ OpenCache(c) \/ ClearStore(c) \/ ClearDir(c)
       PROVE  StartInv'
    <2>1. UNCHANGED <<conf, chain>> /\ at[c] \in {"locks", "files", "store", "dir"}
        BY <1>10 DEF CreateLocks, OpenCache, ClearStore, ClearDir
    <2>2. PICK place \in Places \ {"new", "usage", "backend", "nobackend"} : MoveTo(c, place)
        BY <1>10 DEF CreateLocks, OpenCache, ClearStore, ClearDir, Places, Ends
    <2>3. QED
        BY <1>2, <2>1, <2>2 DEF MoveTo, Places, Ends, Parsed, Opened, BuiltFrom, MayFallBack
<1>11. QED
    BY <1>1, <1>3, <1>4, <1>5, <1>7, <1>8, <1>9, <1>10 DEF StartNext

THEOREM StartInvariance == StartSpec => []StartInv
BY StartInits, StartSteps, PTL DEF StartSpec

(* What a command resolves is what the environment says.                   *)
LEMMA ResolvedFallback == Resolve("server").fallback <=> SwitchedOn(env["fallback"])
BY DEF Resolve, Accepts, Settings, SwitchedOn, BoolFlag, Unset, getEnvBoolWithPrefix, getEnvBool

LEMMA ResolvedErrors == Resolve("server").errors <=> SwitchedOn(env["errors"])
BY DEF Resolve, Accepts, Settings, SwitchedOn, BoolFlag, Unset, getEnvRateWithPrefix

LEMMA ResolvedDisk ==
    ASSUME NEW c, Lower(Resolve(c).backend) = "disk"
    PROVE  AskedForDisk
<1> DEFINE b == env["backend"]
           old == env["legacy"].plain
<1>1. Lower(Flag(b, getEnvWithPrefix(b, getEnv(env["legacy"], "disk")))) = "disk"
    BY DEF Resolve
<1>2. CASE b.flag # Unset
    BY <1>1, <1>2 DEF Flag, AskedForDisk
<1>3. CASE b.flag = Unset
    <2>1. Lower(getEnvWithPrefix(b, getEnv(env["legacy"], "disk"))) = "disk"
        BY <1>1, <1>3 DEF Flag
    <2>2. \/ Lower(b.prefixed) = "disk"
          \/ b.prefixed = "" /\ Lower(b.plain) = "disk"
          \/ b.prefixed = "" /\ b.plain = "" /\ (old = "" \/ Lower(old) = "disk")
        BY <2>1 DEF getEnvWithPrefix, getEnv
    <2>3. QED
        BY <1>3, <2>2 DEF AskedForDisk
<1>4. QED
    BY <1>2, <1>3

(* A server that serves without a remote store (main.go:349) was asked to  *)
(* by the strongest form of -backend that says anything, or was allowed to *)
(* fall back.                                                              *)
THEOREM RemoteUnlessAsked == StartSpec => []NeverSilentlyLocal
<1>1. StartInv => NeverSilentlyLocal
    <2> SUFFICES ASSUME StartInv, at["server"] = "running", ~Remote("server")
                 PROVE  \/ SwitchedOn(env["fallback"])
                        \/ Lower(Resolve("server").backend) = "disk"
        BY ResolvedDisk DEF NeverSilentlyLocal
    <2>1. "server" \in Commands /\ at["server"] \in Parsed \cap Opened
        BY DEF Commands, Parsed, Opened, Places, Ends
    <2>2. conf["server"] = Resolve("server") /\ chain["server"] # <<>> /\ BuiltFrom("server")
        BY <2>1 DEF StartInv
    <2>3. ASSUME Head(chain["server"]) \in Opens(conf["server"])
          PROVE  Lower(Resolve("server").backend) = "disk"
        BY <2>2, <2>3, OpensStores DEF Remote, Stores
    <2>4. QED
        BY <2>2, <2>3, HeadOfChain, ResolvedFallback DEF MayFallBack
<1>2. QED
    BY <1>1, StartInvariance, PTL

(* With the fallback (main.go:108) no failure of the backend ends the      *)
(* server, however the fallback was set.                                   *)
THEOREM FallbackSuffices == StartSpec => []FallbackServes
<1>1. StartInv => FallbackServes
    <2> SUFFICES ASSUME StartInv, SwitchedOn(env["fallback"]),
                        at["server"] \in {"backend", "nobackend"}
                 PROVE  MayFallBack("server") /\ at["server"] = "backend"
        BY DEF FallbackServes
    <2>1. "server" \in Commands /\ at["server"] \in Parsed
        BY DEF Commands, Parsed, Places, Ends
    <2>2. MayFallBack("server")
        BY <2>1, ResolvedFallback DEF StartInv, MayFallBack
    <2>3. QED
        BY <2>1, <2>2 DEF StartInv
<1>2. QED
    BY <1>1, StartInvariance, PTL

(* Two commands resolve the same store, bucket, prefix and directory,      *)
(* except that the server has a prefix where none is set.                  *)
LEMMA ResolvedAlike ==
    ASSUME NEW c \in Clears
    PROVE  /\ Resolve(c).bucket = Resolve("server").bucket
           /\ Resolve(c).cacheDir = Resolve("server").cacheDir
           /\ Resolve(c).prefix \in {"", Resolve("server").prefix}
           /\ Opens(Resolve(c)) = Opens(Resolve("server"))
<1>1. /\ Resolve(c).backend = Resolve("server").backend
      /\ Resolve(c).bucket = Resolve("server").bucket
      /\ Resolve(c).cacheDir = Resolve("server").cacheDir
      /\ Resolve(c).key = Resolve("server").key
      /\ Resolve(c).secret = Resolve("server").secret
    BY DEF Resolve
<1>2. Resolve(c).prefix \in {"", Resolve("server").prefix}
    BY DEF Resolve, DefaultPrefix, Clears, Flag, getEnvWithPrefix, getEnv
<1>3. QED
    BY <1>1, <1>2 DEF Opens, CredentialsOK

(* A clear command that succeeds (README.md:270) has cleared the bucket    *)
(* and the prefix, or more, and the directory of a server that was given   *)
(* the same.                                                               *)
THEOREM ClearsWhatWasServed == StartSpec => []ClearCoversServer
<1>1. StartInv => ClearCoversServer
    <2> SUFFICES ASSUME StartInv, NEW c \in Clears,
                        at["server"] = "running", at[c] = "cleared"
                 PROVE  /\ c # "clear-local" /\ Remote("server") =>
                              /\ Head(chain[c]) = Head(chain["server"])
                              /\ conf[c].bucket = conf["server"].bucket
                              /\ conf[c].prefix \in {"", conf["server"].prefix}
                        /\ c # "clear-remote" => conf[c].cacheDir = conf["server"].cacheDir
        BY DEF ClearCoversServer
    <2>1. /\ {c, "server"} \subseteq Commands /\ c # "server"
          /\ {at[c], at["server"]} \subseteq Parsed \cap Opened
        BY DEF Commands, Clears, Parsed, Opened, Places, Ends
    <2>2. conf[c] = Resolve(c) /\ conf["server"] = Resolve("server")
        BY <2>1 DEF StartInv
    <2>3. ASSUME c # "clear-local", Remote("server")
          PROVE  Head(chain[c]) = Head(chain["server"])
        <3>1. BuiltFrom(c) /\ BuiltFrom("server")
            BY <2>1, <2>3 DEF StartInv
        <3>2. Head(chain[c]) \in Opens(conf[c])
            BY <2>1, <3>1, HeadOfChain DEF MayFallBack
        <3>3. Head(chain["server"]) \in Opens(conf["server"])
            BY <2>3, <3>1, HeadOfChain DEF Remote
        <3>4. QED
            BY <2>2, <3>2, <3>3, ResolvedAlike, OpensStores
    <2>4. QED
        BY <2>2, <2>3, ResolvedAlike
<1>2. QED
    BY <1>1, StartInvariance, PTL

(* A command that has opened S3 (main.go:496) was given both parts of the  *)
(* credentials or neither, whichever forms they were given in.             *)
THEOREM WholeCredentials == StartSpec => []NoHalfCredentials
<1>1. StartInv => NoHalfCredentials
    <2> SUFFICES ASSUME StartInv, NEW c \in Commands,
                        chain[c] # <<>>, Head(chain[c]) = "s3"
                 PROVE  \A s, t \in {"key", "secret"} :
                            env[s].prefixed # "" \/ env[s].plain # "" =>
                                env[t].prefixed # "" \/ env[t].plain # ""
        BY DEF NoHalfCredentials
    <2>1. at[c] \in Parsed /\ BuiltFrom(c)
        BY DEF StartInv, Opened, Parsed
    <2>2. CredentialsOK(Resolve(c))
        BY <2>1, HeadOfChain, OpensStores DEF StartInv
    <2>3. (Resolve(c).key # "") <=> (Resolve(c).secret # "")
        BY <2>2 DEF CredentialsOK
    <2>4. QED
        BY <2>3 DEF Resolve, getEnvWithPrefix, getEnv
<1>2. QED
    BY <1>1, StartInvariance, PTL

-----------------------------------------------------------------------------
(* A wrapper that is put on, or not. *)
Add(s, on, x) == s \o (IF on THEN <<x>> ELSE <<>>)

LEMMA OneMore ==
    ASSUME NEW s \in Seq(Layers), NEW on, NEW x \in Layers
    PROVE  /\ Add(s, on, x) \in Seq(Layers)
           /\ \A i \in DOMAIN s : i \in DOMAIN Add(s, on, x) /\ Add(s, on, x)[i] = s[i]
           /\ \A i \in DOMAIN Add(s, on, x) :
                  i \in DOMAIN s \/ (i = Len(s) + 1 /\ Add(s, on, x)[i] = x)
           /\ on => Len(s) + 1 \in DOMAIN Add(s, on, x)
           /\ ~on => Add(s, on, x) = s
<1>1. CASE on
    <2> DEFINE t == s \o <<x>>
    <2>1. <<x>> \in Seq(Layers) /\ Len(<<x>>) = 1 /\ <<x>>[1] = x
        OBVIOUS
    <2>2. /\ t \in Seq(Layers)
          /\ Len(t) = Len(s) + 1
          /\ \A i \in 1 .. Len(s) : t[i] = s[i]
          /\ t[Len(s) + 1] = x
        BY <2>1, ConcatProperties
    <2>3. Add(s, on, x) = t
        BY <1>1 DEF Add
    <2> HIDE DEF t
    <2>4. DOMAIN t = 1 .. Len(t) /\ DOMAIN s = 1 .. Len(s) /\ Len(s) \in Nat
        BY <2>2
    <2>5. \A i \in DOMAIN t : i \in DOMAIN s \/ i = Len(s) + 1
        BY <2>2, <2>4
    <2>6. DOMAIN s \subseteq DOMAIN t /\ Len(s) + 1 \in DOMAIN t
        BY <2>2, <2>4
    <2>7. QED
        BY <1>1, <2>2, <2>3, <2>4, <2>5, <2>6
<1>2. CASE ~on
    BY <1>2, ConcatEmptySeq DEF Add
<1>3. QED
    BY <1>1, <1>2

(* The layers of a wrapped store: what there may be, and, around an        *)
(* asynchronous writer, the log only.                                      *)
LEMMA LayersOfWrap ==
    ASSUME NEW k, NEW store \in Stores
    PROVE  /\ \A i \in DOMAIN Wrap(k, store) :
                  \/ Wrap(k, store)[i] \in {store, "async", "debug"}
                  \/ Wrap(k, store)[i] = "errors" /\ k.errors
           /\ k.async => \E n \in DOMAIN Wrap(k, store) :
                  /\ Wrap(k, store)[n] = "async"
                  /\ \A i \in DOMAIN Wrap(k, store) : i > n => Wrap(k, store)[i] = "debug"
<1> DEFINE w0 == <<store>>
           w1 == Add(w0, k.errors, "errors")
           w2 == Add(w1, k.async, "async")
           w3 == Add(w2, k.debug, "debug")
<1>1. Wrap(k, store) = w3
    BY DEF Wrap, Add
<1>2. store \in Layers /\ {"errors", "async", "debug"} \subseteq Layers
    BY DEF Layers
<1>3. w0 \in Seq(Layers) /\ \A i \in DOMAIN w0 : w0[i] = store
    BY <1>2
<1> HIDE DEF w0
<1>4. /\ w1 \in Seq(Layers)
      /\ \A i \in DOMAIN w1 : w1[i] = store \/ (w1[i] = "errors" /\ k.errors)
    <2>1. /\ w1 \in Seq(Layers)
          /\ \A i \in DOMAIN w0 : w1[i] = w0[i]
          /\ \A i \in DOMAIN w1 : i \in DOMAIN w0 \/ w1[i] = "errors"
          /\ ~k.errors => w1 = w0
        BY <1>2, <1>3, OneMore
    <2> HIDE DEF w1
    <2>2. QED
        BY <1>3, <2>1
<1> HIDE DEF w1
<1>5. /\ w2 \in Seq(Layers) /\ DOMAIN w1 \subseteq DOMAIN w2
      /\ \A i \in DOMAIN w2 : w2[i] \in {store, "async"} \/ (w2[i] = "errors" /\ k.errors)
      /\ k.async => Len(w1) + 1 \in DOMAIN w2 /\ w2[Len(w1) + 1] = "async"
      /\ \A i \in DOMAIN w2 : i <= Len(w1) + 1
    <2>1. Len(w1) + 1 \notin DOMAIN w1 /\ \A i \in DOMAIN w1 : i <= Len(w1) + 1
        BY <1>4
    <2>2. /\ w2 \in Seq(Layers)
          /\ \A i \in DOMAIN w1 : i \in DOMAIN w2 /\ w2[i] = w1[i]
          /\ \A i \in DOMAIN w2 : i \in DOMAIN w1 \/ (i = Len(w1) + 1 /\ w2[i] = "async")
          /\ k.async => Len(w1) + 1 \in DOMAIN w2
        BY <1>2, <1>4, OneMore
    <2> HIDE DEF w2
    <2>3. Len(w1) + 1 <= Len(w1) + 1
        BY <1>4
    <2>4. QED
        BY <1>4, <2>1, <2>2, <2>3
<1> HIDE DEF w2
<1>6. /\ \A i \in DOMAIN w2 : i \in DOMAIN w3 /\ w3[i] = w2[i]
      /\ \A i \in DOMAIN w3 : i \in DOMAIN w2 \/ w3[i] = "debug"
    BY <1>2, <1>5, OneMore
<1> HIDE DEF w3
<1>7. \A i \in DOMAIN w3 : w3[i] \in {store, "async", "debug"} \/ (w3[i] = "errors" /\ k.errors)
    BY <1>5, <1>6
<1>8. ASSUME k.async
      PROVE  \E n \in DOMAIN w3 :
                 /\ w3[n] = "async"
                 /\ \A i \in DOMAIN w3 : i > n => w3[i] = "debug"
    <2>1. Len(w1) + 1 \in DOMAIN w3 /\ w3[Len(w1) + 1] = "async"
        BY <1>5, <1>6, <1>8
    <2>2. \A i \in DOMAIN w3 : i > Len(w1) + 1 => w3[i] = "debug"
        <3>1. Len(w1) + 1 \in Nat /\ \A i \in DOMAIN w2 : i \in Nat
            BY <1>4, <1>5
        <3>2. QED
            BY <1>5, <1>6, <3>1
    <2>3. QED
        BY <2>1, <2>2
<1>9. QED
    BY <1>1, <1>7, <1>8

(* What a wrapped store answers: without error injection nothing that was  *)
(* injected, and to a PUT through the asynchronous writer only what that   *)
(* one says.                                                               *)
LEMMA AnswersOfWrap ==
    ASSUME NEW k, NEW store \in Stores
    PROVE  /\ ~k.errors => \A op : "injected" \notin Answers(op, Wrap(k, store))
           /\ k.async => Answers("put", Wrap(k, store)) \subseteq {"ok", "full"}
<1> DEFINE w == Wrap(k, store)
<1>1. ASSUME ~k.errors, NEW op, NEW i \in DOMAIN w
      PROVE  "injected" \notin Own(w[i], op)
    <2>1. w[i] # "errors"
        BY <1>1, LayersOfWrap DEF Stores
    <2>2. QED
        BY <2>1 DEF Own, NoopAnswers
<1>2. ASSUME k.async, NEW i \in DOMAIN w,
             \A j \in DOMAIN w : j > i => ~Hides(w[j], "put")
      PROVE  Own(w[i], "put") \subseteq {"ok", "full"}
    <2>1. PICK n \in DOMAIN w :
              w[n] = "async" /\ \A j \in DOMAIN w : j > n => w[j] = "debug"
        BY <1>2, LayersOfWrap
    <2>2. ~(n > i) /\ n \in Nat /\ i \in Nat
        BY <1>2, <2>1, HeadOfWrap DEF Hides
    <2>3. w[i] \in {"async", "debug"}
        BY <1>2, <2>1, <2>2
    <2>4. QED
        BY <2>3 DEF Own
<1>3. QED
    BY <1>1, <1>2 DEF Answers

(* Injected errors (main.go:446) are met by a server that asked for them   *)
(* only, by its PUTs only without the asynchronous writer, and by no clear *)
(* command.                                                                *)
THEOREM InjectedBelow == StartSpec => []InjectionContained
<1>1. StartInv => InjectionContained
    <2> SUFFICES ASSUME StartInv
                 PROVE  InjectionContained
        OBVIOUS
    <2>1. \A c \in Commands : Opens(conf[c]) \subseteq Stores
        BY OpensStores
    <2>2. ASSUME chain["server"] # <<>>
          PROVE  /\ \A op \in {"get", "put"} :
                       "injected" \in Answers(op, chain["server"]) => SwitchedOn(env["errors"])
                 /\ conf["server"].async => Answers("put", chain["server"]) \subseteq {"ok", "full"}
        <3>1. "server" \in Commands
            BY DEF Commands
        <3>2. BuiltFrom("server") /\ conf["server"] = Resolve("server")
            BY <2>2, <3>1 DEF StartInv, Opened, Parsed
        <3>3. CASE chain["server"] = <<"noop">>
            BY <3>3 DEF Answers, Own, NoopAnswers
        <3>4. ASSUME NEW store \in Opens(conf["server"]),
                     chain["server"] = Wrap(conf["server"], store)
              PROVE  /\ ~conf["server"].errors =>
                           \A op : "injected" \notin Answers(op, chain["server"])
                     /\ conf["server"].async =>
                           Answers("put", chain["server"]) \subseteq {"ok", "full"}
            BY <2>1, <3>1, <3>4, AnswersOfWrap
        <3>5. QED
            BY <3>2, <3>3, <3>4, ResolvedErrors DEF BuiltFrom
    <2>3. ASSUME NEW c \in Clears
          PROVE  "injected" \notin Answers("clear", chain[c])
        <3>1. c \in Commands /\ c # "server"
            BY <2>3 DEF Commands, Clears
        <3>2. CASE chain[c] = <<>>
            BY <3>2 DEF Answers
        <3>3. CASE chain[c] # <<>>
            <4>1. BuiltFrom(c) /\ at[c] \in Parsed
                BY <3>1, <3>3 DEF StartInv, Opened, Parsed
            <4>2. "errors" \notin Accepts(c)
                BY DEF Accepts, Clears
            <4>3. ~Resolve(c).errors
                BY <4>2 DEF Resolve
            <4>4. ~conf[c].errors
                BY <3>1, <4>1, <4>3 DEF StartInv
            <4>5. QED
                BY <2>1, <3>1, <4>1, <4>4, AnswersOfWrap DEF BuiltFrom, MayFallBack
        <3>4. QED
            BY <3>2, <3>3
    <2>4. CASE chain["server"] = <<>>
        BY <2>3, <2>4 DEF InjectionContained, Answers
    <2>5. QED
        BY <2>2, <2>3, <2>4 DEF InjectionContained
<1>2. QED
    BY <1>1, StartInvariance, PTL

=============================================================================
