------------------------------ MODULE Compose ------------------------------
(***************************************************************************)
(* One call of ComposeFile of the edge client: the parts of an upload      *)
(* become one object at the destination.                                   *)
(*                                                                         *)
(*   "s3"    parts are read one by one into a local file and written back, *)
(*           up to Fanout (1000) at a time, in a tree of temporary objects *)
(*   "gcs"   the same tree, a group (32) at a time composed by the store   *)
(*   "disk"  the chunk server of the destination is asked to merge; it is  *)
(*           an edge client too and runs MergeFileChunks                   *)
(*                                                                         *)
(* An object is the sequence of the source's bytes it holds.  A request to *)
(* a store succeeds, fails, or fails to be answered after it took effect;  *)
(* once the context is done it fails.                                      *)
(***************************************************************************)
EXTENDS Integers, Sequences, FiniteSets, Functions, SequencesExt

CONSTANTS Fanout, Dests, None

ASSUME FanoutAssumption == Fanout \in Nat /\ Fanout > 1
ASSUME DestAssumption == Dests \subseteq {"s3", "gcs", "disk"}

VARIABLES
  dest,      \* where the upload goes
  objects,   \* name -> content, at the destination
  expired,   \* the context of the call is done
  call,      \* the call of ComposeFile
  server,    \* the chunk server's request
  saving     \* a chunk the chunk server is writing meanwhile, or None

composeVars == <<dest, objects, expired, call, server, saving>>

Target == <<"target">>
Temp(level, i) == <<"temp", level, i>>

Idle == [at |-> "idle", parts |-> <<>>, current |-> <<>>, next |-> <<>>, level |-> 0, i |-> 0,
         read |-> 0, local |-> <<>>, temps |-> <<>>, doomed |-> <<>>, warned |-> FALSE]
NoRequest == [at |-> "idle", k |-> 0, copied |-> FALSE]

InitCompose ==
  /\ dest \in Dests
  /\ objects = <<>>
  /\ expired = FALSE
  /\ call = Idle /\ server = NoRequest /\ saving = None

Stored(name) == name \in DOMAIN objects
Put(store, name, content) ==
  [n \in DOMAIN store \cup {name} |-> IF n = name THEN content ELSE store[n]]
With(name, content) == Put(objects, name, content)
WithoutObject(name) == Restrict(objects, DOMAIN objects \ {name})
Contents(names) == FlattenSeq([k \in DOMAIN names |-> objects[names[k]]])
Failed == [call EXCEPT !.at = "error"]

(* A request that would leave the store as objs. *)
Request(objs, onOk, onError) ==
  \/ ~expired /\ objects' = objs /\ call' \in {onOk, onError}
  \/ objects' = objects /\ call' = onError

Expire ==
  /\ ~expired
  /\ expired' = TRUE
  /\ UNCHANGED <<dest, objects, call, server, saving>>

(* ComposeFile up to its first request.  A client that cannot be created   *)
(* is an error too.                                                        *)
BeginCompose(parts) ==
  /\ call.at = "idle"
  /\ \/ /\ ~expired
        /\ call' = [call EXCEPT !.at = CASE dest = "disk" -> "post"
                                         [] dest # "disk" /\ Len(parts) = 1 -> "copy"
                                         [] OTHER -> "group",
                                !.parts = parts, !.current = parts]
     \/ call' = [Failed EXCEPT !.parts = parts]
  /\ UNCHANGED <<dest, objects, expired, server, saving>>

-----------------------------------------------------------------------------
(* The tree of temporary objects.                                          *)

Group ==
  LET last == IF call.i + Fanout > Len(call.current) THEN Len(call.current) ELSE call.i + Fanout
  IN SubSeq(call.current, call.i + 1, last)

(* Mutant: the last group, when it is not full, is forgotten. *)
AfterGroupDropped(c) ==
  LET temp == Temp(c.level, c.i)
      next == Append(c.next, temp)
      grouped == [c EXCEPT !.temps = Append(@, temp), !.read = 0, !.local = <<>>]
  IN IF c.i + 2 * Fanout <= Len(c.current)
     THEN [grouped EXCEPT !.next = next, !.i = @ + Fanout]
     ELSE [grouped EXCEPT !.current = next, !.next = <<>>, !.level = @ + 1, !.i = 0,
                          !.at = IF Len(next) > 1 THEN "group" ELSE "copy"]

(* Mutant: a full last group is followed by another one. *)
AfterGroupOffByOne(c) ==
  LET temp == Temp(c.level, c.i)
      next == Append(c.next, temp)
      grouped == [c EXCEPT !.temps = Append(@, temp), !.read = 0, !.local = <<>>]
  IN IF c.i + Fanout <= Len(c.current)
     THEN [grouped EXCEPT !.next = next, !.i = @ + Fanout]
     ELSE [grouped EXCEPT !.current = next, !.next = <<>>, !.level = @ + 1, !.i = 0,
                          !.at = IF Len(next) > 1 THEN "group" ELSE "copy"]

(* The call once the temporary object of the group at i exists. *)
AfterGroup(c) ==
  LET temp == Temp(c.level, c.i)
      next == Append(c.next, temp)
      grouped == [c EXCEPT !.temps = Append(@, temp), !.read = 0, !.local = <<>>]
  IN IF c.i + Fanout < Len(c.current)
     THEN [grouped EXCEPT !.next = next, !.i = @ + Fanout]
     ELSE [grouped EXCEPT !.current = next, !.next = <<>>, !.level = @ + 1, !.i = 0,
                          !.at = IF Len(next) > 1 THEN "group" ELSE "copy"]

(* ComposerFrom(group...).Run *)
ComposeGroup ==
  /\ call.at = "group" /\ dest = "gcs"
  /\ IF \A k \in DOMAIN Group : Stored(Group[k])
     THEN Request(With(Temp(call.level, call.i), Contents(Group)), AfterGroup(call), Failed)
     ELSE call' = Failed /\ UNCHANGED objects
  /\ UNCHANGED <<dest, expired, server, saving>>

(* mergePartsToTempFile: GetObject of the next part of the group *)
ReadPart ==
  /\ call.at = "group" /\ dest = "s3" /\ call.read < Len(Group)
  /\ LET name == Group[call.read + 1]
     IN \/ /\ ~expired /\ Stored(name)
           /\ call' = [call EXCEPT !.read = @ + 1, !.local = @ \o objects[name]]
        \/ call' = Failed
  /\ UNCHANGED <<dest, objects, expired, server, saving>>

(* and PutObject of the local file *)
PutTemp ==
  /\ call.at = "group" /\ dest = "s3" /\ call.read = Len(Group)
  /\ Request(With(Temp(call.level, call.i), call.local), AfterGroup(call), Failed)
  /\ UNCHANGED <<dest, expired, server, saving>>

-----------------------------------------------------------------------------
(* The final object, and what is deleted after it.                         *)

(* No two temporary objects have the same name. *)
Others(temps, last) == RemoveFirst(temps, last)

(* Mutant: the last temporary object is left. *)
ToDeleteButLast ==
  LET last == call.current[1] IN Others(call.temps, last) \o call.parts

ToDelete ==
  LET last == call.current[1]
  IN CASE Len(call.parts) = 1 -> call.parts
       [] Len(call.parts) > 1 /\ dest = "s3" -> Others(call.temps, last) \o <<last>> \o call.parts
       [] OTHER -> Others(call.temps, last) \o call.parts

(* CopyObject, CopierFrom *)
CopyFinal ==
  /\ call.at = "copy"
  /\ IF Stored(call.current[1])
     THEN Request(With(Target, objects[call.current[1]]),
                  [call EXCEPT !.at = IF dest = "gcs" /\ Len(call.parts) > 1 THEN "final" ELSE "clean",
                               !.doomed = ToDelete],
                  Failed)
     ELSE call' = Failed /\ UNCHANGED objects
  /\ UNCHANGED <<dest, expired, server, saving>>

(* finalizeObject of gcs/compose.go deletes the last temporary object and  *)
(* takes a failure for one of the call.                                    *)
DeleteFinalTemp ==
  /\ call.at = "final"
  /\ Request(WithoutObject(call.current[1]), [call EXCEPT !.at = "clean"], Failed)
  /\ UNCHANGED <<dest, expired, server, saving>>

(* Every other deletion is only warned about. *)
DeleteOne ==
  /\ call.at = "clean" /\ call.doomed # <<>>
  /\ LET rest == [call EXCEPT !.doomed = Tail(@)]
     IN Request(WithoutObject(Head(call.doomed)), rest, [rest EXCEPT !.warned = TRUE])
  /\ UNCHANGED <<dest, expired, server, saving>>

EndClean ==
  /\ call.at = "clean" /\ call.doomed = <<>>
  /\ call' = [call EXCEPT !.at = "ok"]
  /\ UNCHANGED <<dest, objects, expired, server, saving>>

-----------------------------------------------------------------------------
(* The destination disk: the POST of remote/compose.go, with a timeout of  *)
(* its own, and the chunk server, which goes on when the client is gone.   *)

PostMerge ==
  /\ call.at = "post"
  /\ call' \in {[call EXCEPT !.at = "wait"], Failed}
  /\ server' \in {[server EXCEPT !.at = "asked"]} \cup (IF call'.at = "error" THEN {server} ELSE {})
  /\ UNCHANGED <<dest, objects, expired, saving>>

(* Mutant: the client has no timeout. *)
AnsweredOnly ==
  /\ call.at = "wait"
  /\ server.at \in {"merged", "failed"} /\ call' = [call EXCEPT !.at = "ok"]
  /\ UNCHANGED <<dest, objects, expired, server, saving>>

(* Any answer is a success, whatever its status; none within 10 s an error. *)
Answered ==
  /\ call.at = "wait"
  /\ \/ server.at \in {"merged", "failed"} /\ call' = [call EXCEPT !.at = "ok"]
     \/ call' = Failed
  /\ UNCHANGED <<dest, objects, expired, server, saving>>

ServerFails ==
  /\ server.at \in {"asked", "merge"}
  /\ server' = [server EXCEPT !.at = "failed"]

(* A single chunk is renamed; else the final file is created, or emptied.  *)
BeginMerge ==
  /\ server.at = "asked"
  /\ \/ ServerFails /\ UNCHANGED <<objects, saving>>
     \/ /\ Len(call.parts) = 1 /\ Stored(call.parts[1])
        /\ objects' = Put(WithoutObject(call.parts[1]), Target, objects[call.parts[1]])
        /\ saving' = IF saving = call.parts[1] THEN Target ELSE saving
        /\ server' = [server EXCEPT !.at = "merged"]
     \/ /\ Len(call.parts) > 1
        /\ objects' = With(Target, <<>>)
        /\ server' = [server EXCEPT !.at = "merge", !.k = 1]
        /\ UNCHANGED saving
  /\ UNCHANGED <<dest, expired, call>>

(* Mutant: what io.Copy could not do is not noticed. *)
CopyChunkNothing ==
  /\ server.at = "merge" /\ ~server.copied /\ Stored(call.parts[server.k])
  /\ server' = [server EXCEPT !.copied = TRUE]
  /\ UNCHANGED <<dest, objects, expired, call, saving>>

(* Stat, Open and Copy of chunk k; a copy that fails may have written the  *)
(* beginning.                                                              *)
CopyChunk ==
  /\ server.at = "merge" /\ ~server.copied
  /\ LET name == call.parts[server.k]
     IN \/ ServerFails /\ UNCHANGED objects
        \/ /\ Stored(name)
           /\ \/ /\ objects' = With(Target, objects[Target] \o objects[name])
                 /\ server' = [server EXCEPT !.copied = TRUE]
              \/ /\ ServerFails
                 /\ \E n \in 1..Len(objects[name]) :
                      objects' = With(Target, objects[Target] \o SubSeq(objects[name], 1, n))
  /\ UNCHANGED <<dest, expired, call, saving>>

(* os.Remove of the chunk just copied, as every client asks for; a failure *)
(* is only warned about.  A chunk being written loses its name.            *)
RemoveChunk ==
  /\ server.at = "merge" /\ server.copied
  /\ \/ /\ objects' = WithoutObject(call.parts[server.k])
        /\ saving' = IF saving = call.parts[server.k] THEN None ELSE saving
        /\ UNCHANGED call
     \/ call' = [call EXCEPT !.warned = TRUE] /\ UNCHANGED <<objects, saving>>
  /\ server' = IF server.k < Len(call.parts)
               THEN [server EXCEPT !.k = @ + 1, !.copied = FALSE]
               ELSE [server EXCEPT !.at = "merged"]
  /\ UNCHANGED <<dest, expired>>

-----------------------------------------------------------------------------
ComposeStep ==
  \/ ComposeGroup \/ ReadPart \/ PutTemp
  \/ CopyFinal \/ DeleteFinalTemp \/ DeleteOne \/ EndClean
  \/ PostMerge \/ Answered
ServerStep == BeginMerge \/ CopyChunk \/ RemoveChunk
=============================================================================
