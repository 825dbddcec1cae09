--------------------------- MODULE SharedDocument ---------------------------
(***************************************************************************)
(* shared/document.go: the document that an application and a transport    *)
(* share.  Goroutines look named roots up, create them and write to them;  *)
(* every local mutation is emitted as one update to the handlers           *)
(* subscribed at that moment, after the mutation and outside its lock, and *)
(* a peer applies the updates in whatever order its transport brings them. *)
(*                                                                         *)
(* The document tree below it (module DocumentTree) is abstracted to the   *)
(* set of updates it joined.  The handler "transport" stays subscribed and *)
(* feeds the peers; the handler "view" comes and goes.                     *)
(***************************************************************************)
EXTENDS Naturals, FiniteSets, FiniteSetsExt

CONSTANTS
    Replica,      \* replicas 0..n
    Goroutine,    \* goroutines of the application
    HomeOf,       \* the replica of each
    Name,         \* names of roots
    MaxUpdates    \* bound: updates made

Kind == {"map", "array"}
Handler == {"transport", "view"}

VARIABLES
    joined,       \* the updates each replica's document holds
    handlers,     \* Document.handlers of each replica
    call,         \* what each goroutine is doing
    handle,       \* the root a goroutine holds, or the empty set
    got           \* ghost: how often a handler was called with an update

vars == <<joined, handlers, call, handle, got>>

Idle == [op |-> "idle"]

Init ==
    /\ joined = [r \in Replica |-> {}]
    /\ handlers = [r \in Replica |-> {"transport"}]
    /\ call = [g \in Goroutine |-> Idle]
    /\ handle = [g \in Goroutine |-> {}]
    /\ got = [r \in Replica |-> [h \in Handler |-> {}]]

Goto(g, c) == call' = [call EXCEPT ![g] = c]
Made == UNION {joined[r] : r \in Replica}

\* nextLocalTagLocked: above every tag the replica has seen, and its own.
FreshTag(r) ==
    LET n == Cardinality(Replica)
        seen == IF joined[r] = {} THEN 0 ELSE Max({u.tag : u \in joined[r]})
    IN  CHOOSE t \in (seen + 1)..(seen + n) : t % n = r

\* The root records of a name, and the visible one: the greatest tag wins.
RootsOf(r, name) == {u \in joined[r] : u.what = "root" /\ u.name = name}
Current(r, name) ==
    {u \in RootsOf(r, name) : \A v \in RootsOf(r, name) : v.tag <= u.tag}

----------------------------------------------------------------------------
\* Document.Map and Document.Array: RootMap or RootArray finds the root, or the
\* call goes on to create it.
Open(g, name, kind) ==
    /\ call[g] = Idle
    /\ LET found == {u \in Current(HomeOf[g], name) : u.kind = kind} IN
       IF found # {} THEN handle' = [handle EXCEPT ![g] = found] /\ UNCHANGED call
       ELSE Goto(g, [op |-> "create", name |-> name, kind |-> kind]) /\ UNCHANGED handle
    /\ UNCHANGED <<joined, handlers, got>>

\* A mutation under the document's lock; emit follows.
Mutate(g, u) ==
    /\ Cardinality(Made) < MaxUpdates
    /\ joined' = [joined EXCEPT ![HomeOf[g]] = @ \cup {u}]
    /\ Goto(g, [op |-> "emit", update |-> u])

NewRoot(g) == [what |-> "root", tag |-> FreshTag(HomeOf[g]), by |-> HomeOf[g],
               name |-> call[g].name, kind |-> call[g].kind]

\* Mutated form: the root is declared though it appeared since the lookup.
CreateRootUnchecked(g) ==
    /\ call[g].op = "create"
    /\ Mutate(g, NewRoot(g)) /\ handle' = [handle EXCEPT ![g] = {NewRoot(g)}]
    /\ UNCHANGED <<handlers, got>>

\* createRoot: another goroutine or a peer may have created the root meanwhile, and
\* then it is returned with an empty delta, or has another kind.
CreateRoot(g) ==
    /\ call[g].op = "create"
    /\ LET current == Current(HomeOf[g], call[g].name)
           same    == {u \in current : u.kind = call[g].kind}
       IN  \/ /\ current # {}
              /\ handle' = [handle EXCEPT ![g] = IF same # {} THEN same ELSE @]
              /\ Goto(g, Idle) /\ UNCHANGED joined
           \/ /\ current = {}
              /\ Mutate(g, NewRoot(g)) /\ handle' = [handle EXCEPT ![g] = {NewRoot(g)}]
    /\ UNCHANGED <<handlers, got>>

\* A mutating method of a Map or an Array.
Write(g) ==
    /\ call[g] = Idle
    /\ \E root \in handle[g] :
          Mutate(g, [what |-> "write", tag |-> FreshTag(HomeOf[g]), by |-> HomeOf[g],
                     root |-> root.tag])
    /\ UNCHANGED <<handlers, handle, got>>

\* emit: the handlers are copied under the lock, and called one by one without it.
Emit(g) ==
    /\ call[g].op = "emit"
    /\ Goto(g, [op |-> "notify", update |-> call[g].update, left |-> handlers[HomeOf[g]]])
    /\ UNCHANGED <<joined, handlers, handle, got>>

Notify(g) ==
    /\ call[g].op = "notify"
    /\ IF call[g].left = {} THEN Goto(g, Idle) /\ UNCHANGED got
       ELSE \E h \in call[g].left :
              /\ got' = [got EXCEPT ![HomeOf[g]][h] =
                           @ \cup {[update |-> call[g].update, by |-> g]}]
              /\ Goto(g, [call[g] EXCEPT !.left = @ \ {h}])
    /\ UNCHANGED <<joined, handlers, handle>>

\* OnUpdate, and the function it returned, at any time.
Subscribe(r) ==
    /\ "view" \notin handlers[r]
    /\ handlers' = [handlers EXCEPT ![r] = @ \cup {"view"}]
    /\ UNCHANGED <<joined, call, handle, got>>

Unsubscribe(r) ==
    /\ "view" \in handlers[r]
    /\ handlers' = [handlers EXCEPT ![r] = @ \ {"view"}]
    /\ UNCHANGED <<joined, call, handle, got>>

\* ApplyUpdate: joined, and handed to no handler.
ApplyUpdate(r, u) ==
    /\ \E s \in Replica \ {r} : u \in {e.update : e \in got[s]["transport"]}
    /\ u \notin joined[r]
    /\ joined' = [joined EXCEPT ![r] = @ \cup {u}]
    /\ UNCHANGED <<handlers, call, handle, got>>

Next ==
    \/ \E g \in Goroutine : \/ \E name \in Name, kind \in Kind : Open(g, name, kind)
                            \/ CreateRoot(g) \/ Write(g) \/ Emit(g) \/ Notify(g)
    \/ \E r \in Replica : Subscribe(r) \/ Unsubscribe(r) \/ \E u \in Made : ApplyUpdate(r, u)

Spec == Init /\ [][Next]_vars

----------------------------------------------------------------------------
\* Document.Map, Document.Array, emit, ApplyUpdate: goroutines that open a root at
\* the same time share one, so a replica declares a name at most once, and no tag
\* names two updates; a handler gets each local update once and no update of
\* a peer; and once no call is under way, the updates the transports were handed
\* are all there is: no mutation stays behind in the document that made it.
UpdatesComplete ==
    /\ \A u, v \in Made :
          /\ u.tag = v.tag => u = v
          /\ u.what = "root" /\ v.what = "root" /\ u.name = v.name /\ u.by = v.by => u = v
    /\ \A r \in Replica, h \in Handler : \A e, f \in got[r][h] :
          e.update.by = r /\ (e.update = f.update => e = f)
    /\ (\A g \in Goroutine : call[g] = Idle) =>
          \A r \in Replica :
             {e.update : e \in got[r]["transport"]} = {u \in Made : u.by = r}
=============================================================================
