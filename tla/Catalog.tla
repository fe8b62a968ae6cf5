------------------------------ MODULE Catalog ------------------------------
(***************************************************************************)
(* What a repository promises to those who back up to it, with no storage  *)
(* in sight: a catalog of named snapshots, each a function from paths to   *)
(* the content that can be restored for them.  A backup is asked for, and  *)
(* later either its snapshot appears, whole and under its name, or it      *)
(* fails; one that failed while it was committing, or asked twice for the  *)
(* snapshot to be stored, may appear at any later time, always whole.      *)
(* Nothing else changes what can be restored.                              *)
(***************************************************************************)
EXTENDS Integers, Sequences

CONSTANTS
    Client,
    Name,
    Request      \* what may be asked for: lists of arguments, an argument being a
                 \* sequence of [path, content] pairs, its files

VARIABLES
    catalog,     \* a function from the names in use to what they restore
    task,        \* a function from the busy clients to [name, request]
    lost         \* requests that may still be carried out: [name, content] pairs

catVars == <<catalog, task, lost>>

Bind(f, k, v) == [x \in DOMAIN f \cup {k} |-> IF x = k THEN v ELSE f[x]]

Unbind(f, k) == [x \in DOMAIN f \ {k} |-> f[x]]

\* the files of a request, by argument and place in it
Positions(req) == UNION {{a} \X DOMAIN req[a] : a \in DOMAIN req}

FileAt(req, x) == req[x[1]][x[2]]

Before(x, y) == x[1] < y[1] \/ (x[1] = y[1] /\ x[2] < y[2])

\* x is the first file with its path
IsFirst(req, x) ==
    \A y \in Positions(req) : Before(y, x) => FileAt(req, y).path # FileAt(req, x).path

\* A path asked for twice is recorded once, with its first content.
Promised(req) ==
    [p \in {FileAt(req, x).path : x \in Positions(req)} |->
        FileAt(req, CHOOSE x \in Positions(req) :
                        FileAt(req, x).path = p /\ IsFirst(req, x)).content]

CatalogInit ==
    /\ catalog = [n \in {} |-> n]
    /\ task = [c \in {} |-> c]
    /\ lost = {}

Begin(c, n, req) ==
    /\ c \notin DOMAIN task
    /\ task' = Bind(task, c, [name |-> n, request |-> req])
    /\ UNCHANGED <<catalog, lost>>

\* The snapshot appears.  Its backup is not over yet.
Commit(c) ==
    /\ c \in DOMAIN task
    /\ catalog' = Bind(catalog, task[c].name, Promised(task[c].request))
    /\ UNCHANGED <<task, lost>>

\* a request for the snapshot that may be carried out when the backup is over
Unanswered(c) == [name |-> task[c].name, content |-> Promised(task[c].request)]

Retry(c) ==
    /\ c \in DOMAIN task
    /\ lost' = lost \cup {Unanswered(c)}
    /\ UNCHANGED <<catalog, task>>

\* The backup is over, committed or failed.
End(c) ==
    /\ c \in DOMAIN task
    /\ task' = Unbind(task, c)
    /\ lost' \in {lost, lost \cup {Unanswered(c)}}
    /\ UNCHANGED catalog

\* Several requests may be the same.
Appear(t) ==
    /\ t \in lost
    /\ catalog' = Bind(catalog, t.name, t.content)
    /\ lost' \in {lost, lost \ {t}}
    /\ UNCHANGED task

CatalogNext ==
    \/ \E c \in Client :
          \/ \E n \in Name, req \in Request : Begin(c, n, req)
          \/ Commit(c)
          \/ Retry(c)
          \/ End(c)
    \/ \E t \in lost : Appear(t)

CatalogSpec == CatalogInit /\ [][CatalogNext]_catVars

=============================================================================
