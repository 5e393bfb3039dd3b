----------------------------- MODULE MCClassLookup -----------------------------
(***************************************************************************)
(* Two threads with context loaders of their own; one application type     *)
(* whose static initialiser calls back; two exception types, and a third   *)
(* loader that knows the application type or fails in one way or another.  *)
(***************************************************************************)
EXTENDS ClassLookup, TLC

CONSTANTS t1, t2

TwoThreads == {t1, t2}
AllLoaders == {"l1", "l2", "l3", "vm"}
AllTypes == {"app", "notfound", "security", "linkage"}
AllClasses == {"app1", "app2", "boot1", "boot2", "boot3"}
OwnLoaders == t1 :> "l1" @@ t2 :> "l2"
OneThrows == {t2}
OneShort == {t1}
Late == {"security", "linkage"}
AppType == {"app"}

Exceptions == "notfound" :> "boot1" @@ "security" :> "boot2" @@ "linkage" :> "boot3"
Answers == {"app1", "app2", "notfound", "linkage"}
WorldOf(app) == [l \in AllLoaders |-> "app" :> app[l] @@ Exceptions]
(* FindClass throws NoClassDefFoundError, which stands among "notfound" here *)
AllWorlds == {WorldOf(app) : app \in
    {a \in [AllLoaders -> Answers] : a["l1"] # "app2" /\ a["l2"] = "app2" /\ a["vm"] # "app2"
                                     /\ a["l3"] \in {"app2", "notfound"}}}

Clauses2 == <<"notfound", "linkage", "security">>
===============================================================================
