------------------------------ MODULE Backends ------------------------------
(***************************************************************************)
(* The backend objects and the lists of them the whole program passes      *)
(* around (internal/domain, internal/backend).                             *)
(*                                                                         *)
(* A member of Backend stands for one *domain.Backend, that is for one     *)
(* instance ID: NewBackend draws a fresh UUID, so registering the same URL *)
(* a second time makes another object.  UrlOf is the URL an object is      *)
(* created with; it never changes.                                         *)
(***************************************************************************)
EXTENDS Lists

CONSTANTS
  Backend,    \* every backend object the process may ever create
  URL,        \* the backend URLs
  UrlOf,      \* the URL of each object
  Baseline    \* the objects built from config.yaml, in file order

\* Validate does not compare the configured URLs with each other, so two
\* baseline objects may share a URL; the objects themselves are distinct.
ASSUME BackendAssumption ==
  /\ UrlOf \in [Backend -> URL]
  /\ Baseline \in Seq(Backend)
  /\ NoRepeats(Baseline)

\* Mutant: the *url.URL pointers are compared, not what they point to.
UrlTakenByPointer(list, b) == \E i \in 1..Len(list) : list[i] = b

\* slices.ContainsFunc by URL
UrlTaken(list, b) == \E i \in 1..Len(list) : UrlOf[list[i]] = UrlOf[b]

=============================================================================
