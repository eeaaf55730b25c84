----------------------------- MODULE MCStartup -----------------------------
(***************************************************************************)
(* Environments for Startup: every setting varies, each in the forms that  *)
(* are of interest for it.                                                 *)
(***************************************************************************)
EXTENDS Startup

Plain(texts) == {v \in Given({}, texts) : v.prefixed = ""}
Prefixed(texts) == {v \in Given({}, texts) : v.plain = ""}
NotSet == Plain({})

MCEnvironments ==
    [backend  : Plain({"S3", "floppy"})
                  \cup {[flag |-> f, prefixed |-> "", plain |-> "S3"] : f \in {"DISK", ""}}
                  \cup {[flag |-> f, prefixed |-> "", plain |-> ""] : f \in {"gcs", "flopy"}}
                  \cup {[flag |-> f, prefixed |-> "s3", plain |-> "disk"] : f \in {Unset, "GCS"}},
     legacy   : Plain({"s3", "disk"}),
     bucket   : Plain({"b2"}) \cup {[flag |-> Unset, prefixed |-> "b1", plain |-> "b2"]},
     prefix   : Prefixed({"mine/"}),
     key      : Given({}, {"key"}),
     secret   : Plain({"secret"}),
     cacheDir : Plain({"d1"}),
     lock     : Plain({"flok", "FSLOCK"}) \ NotSet,
     async    : NotSet \cup {[flag |-> "no", prefixed |-> "junk", plain |-> ""],
                             [flag |-> Unset, prefixed |-> "junk", plain |-> "no"]},
     errors   : Plain({"yes"}) \cup {[flag |-> "no", prefixed |-> "", plain |-> "yes"]},
     debug    : NotSet,
     fallback : Plain({"yes"})
                  \cup {[flag |-> Unset, prefixed |-> p, plain |-> "yes"] : p \in {"no", "junk"}}
                  \cup {[flag |-> f, prefixed |-> "yes", plain |-> ""] : f \in {"yes", "no"}}]
=============================================================================
