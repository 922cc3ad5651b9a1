---------------------------- MODULE ProductForm -----------------------------
(***************************************************************************)
(* The form of a product, on the page that edits one and on the page for a *)
(* new one.  A product is its content; what an edit does to its status and *)
(* stock is the subject of Shelf.                                          *)
(***************************************************************************)
EXTENDS Requests

CONSTANTS Products,
          Contents,  \* what the fields of the form can be
          MaxCalls   \* bound: the seller acts while fewer requests are in flight

VARIABLES content,  \* the products on the server; None is not there
          front,    \* "edit", "new", or "out" of the form
          form,
          alert,    \* the dialogue over the screen
          calls,
          crossed   \* history: the product may have been written by others

screens == <<front, form, alert>>
vars == <<content, screens, calls, crossed>>

Live == {p \in Products : content[p] # None}
\* initial is the product as loaded, values what the fields hold.
NoForm == [of |-> None, loading |-> FALSE, failed |-> FALSE, initial |-> None, values |-> None,
           options |-> FALSE, submitting |-> FALSE, uploading |-> None]
NoAlert == [kind |-> None, new |-> None, of |-> None]
MayAct == Cardinality(calls) < MaxCalls
Ask(cs, what, of, new) == cs \cup {Request(cs, "form", what, [of |-> of, new |-> new])}

-----------------------------------------------------------------------------
(* The pages.                                                              *)

\* The form, and with it the categories to choose from, comes with the product.
Mounted(f, cs) == form' = f /\ calls' = Ask(cs, "categories", None, None)
\* A save may still be under way for a page that was left.
OpenEdit == /\ front = "out" /\ alert.kind = None /\ MayAct /\ front' = "edit"
            /\ \E p \in Products : /\ form' = [NoForm EXCEPT !.of = p, !.loading = TRUE]
                                   /\ calls' = Ask(calls, "product", p, None)
            /\ UNCHANGED alert
OpenNew == /\ front = "out" /\ alert.kind = None /\ MayAct /\ front' = "new"
           /\ \E v \in Contents : Mounted([NoForm EXCEPT !.values = v], calls)
           /\ UNCHANGED alert
Gone(cs) == {[c EXCEPT !.owner = "left"] : c \in {d \in cs : d.what = "save"}}
Back == /\ front # "out" /\ alert.kind = None /\ front' = "out" /\ form' = NoForm
        /\ calls' = Gone(calls) /\ UNCHANGED alert
\* The button of the success dialogue leaves whatever is in front.
SavedOk == /\ alert.kind = "saved" /\ alert' = NoAlert /\ front' = "out" /\ form' = NoForm
           /\ calls' = Gone(calls)

-----------------------------------------------------------------------------
(* The form.                                                               *)

Offers == IF alert.kind # None \/ front = "out" THEN {}
          ELSE IF form.failed THEN {"retry"}
          ELSE IF form.values = None THEN {}
          ELSE {"fields"} \cup (IF form.uploading # "cover" THEN {"cover"} ELSE {})
                 \cup (IF form.submitting THEN {} ELSE {"submit"})

Retry == /\ "retry" \in Offers /\ form' = [form EXCEPT !.loading = TRUE, !.failed = FALSE]
         /\ calls' = Ask(calls, "product", form.of, None) /\ UNCHANGED <<front, alert>>
Type == /\ "fields" \in Offers /\ \E v \in Contents : form' = [form EXCEPT !.values = v]
        /\ UNCHANGED <<front, alert, calls>>
\* One flag for the cover and the gallery: whichever ends first clears it.
PickCover == /\ "cover" \in Offers /\ form' = [form EXCEPT !.uploading = "cover"]
             /\ calls' = Ask(calls, "upload", None, None) /\ UNCHANGED <<front, alert>>
\* Nothing keeps the gallery from taking another picture meanwhile.
PickGallery == /\ "fields" \in Offers /\ form' = [form EXCEPT !.uploading = "gallery"]
               /\ calls' = Ask(calls, "upload", None, None) /\ UNCHANGED <<front, alert>>

Submit(of, v) == /\ form' = [form EXCEPT !.submitting = TRUE]
                 /\ calls' = Ask(calls, "save", of, v)
\* An edit must change something; the dialogue keeps what it asks about.
SubmitEdit == /\ "submit" \in Offers /\ front = "edit" /\ form.values # form.initial
              /\ alert' = [NoAlert EXCEPT !.kind = "confirm", !.new = form.values]
              /\ UNCHANGED <<front, form, calls>>
ConfirmYes == /\ alert.kind = "confirm" /\ alert' = NoAlert
              /\ Submit(form.of, alert.new) /\ UNCHANGED front
ConfirmNo == alert.kind = "confirm" /\ alert' = NoAlert /\ UNCHANGED <<front, form, calls>>
\* A new product needs a category, and nothing loads the categories again.
SubmitNew == /\ "submit" \in Offers /\ front = "new" /\ form.options
             /\ Submit(None, form.values) /\ UNCHANGED <<front, alert>>

-----------------------------------------------------------------------------
(* The answers.                                                            *)

Ended(c) == c.state \in {"done", "refused"}
Loaded(c) == /\ c.what = "product" /\ Ended(c) /\ UNCHANGED <<front, alert>>
             /\ IF c.reply = None
                THEN /\ form' = [form EXCEPT !.loading = FALSE, !.failed = TRUE]
                     /\ calls' = calls \ {c}
                ELSE Mounted([form EXCEPT !.loading = FALSE, !.initial = c.reply, !.values = c.reply],
                             calls \ {c})
CategoriesAnswer(c) == /\ c.what = "categories" /\ Ended(c) /\ calls' = calls \ {c}
                 /\ form' = [form EXCEPT !.options = c.state = "done"] /\ UNCHANGED <<front, alert>>
\* The picture goes into the fields as they are by now.
Uploaded(c) == /\ c.what = "upload" /\ Ended(c) /\ calls' = calls \ {c} /\ UNCHANGED <<front, alert>>
               /\ \E v \in IF c.state = "done" THEN Contents \ {form.values} ELSE {form.values} :
                     form' = [form EXCEPT !.uploading = None, !.values = v]
\* Also when the page was left before; of two dialogues the later is kept.
Saved(c) == /\ c.what = "save" /\ Ended(c) /\ calls' = calls \ {c} /\ UNCHANGED front
            /\ form' = [form EXCEPT !.submitting = @ /\ c.owner # "form"]
            /\ alert' = IF c.state = "done" THEN [kind |-> "saved", new |-> c.arg.new, of |-> c.reply] ELSE alert
Answer(c) == Loaded(c) \/ CategoriesAnswer(c) \/ Uploaded(c) \/ Saved(c)

-----------------------------------------------------------------------------
(* The server.                                                             *)

Serve(c) ==
    /\ c.state = "sent"
    /\ CASE c.what = "save" /\ c.arg.of = None ->
             \E p \in Products : /\ content[p] = None /\ content' = [content EXCEPT ![p] = c.arg.new]
                                 /\ calls' = Handled(calls, c, TRUE, p)
         [] c.what = "save" /\ c.arg.of # None ->
             LET ok == c.arg.of \in Live IN
             /\ calls' = Handled(calls, c, ok, IF ok THEN c.arg.of ELSE None)
             /\ content' = IF ok THEN [content EXCEPT ![c.arg.of] = c.arg.new] ELSE content
         [] OTHER -> /\ calls' = Handled(calls, c, TRUE, IF c.what = "product" THEN content[c.arg.of] ELSE None)
                     /\ UNCHANGED content
\* An import, another device, a deletion.
Others(p) == /\ content[p] # None /\ UNCHANGED <<screens, calls>>
             /\ \E v \in (Contents \cup {None}) \ {content[p]} : content' = [content EXCEPT ![p] = v]

-----------------------------------------------------------------------------
Init == /\ content \in [Products -> Contents \cup {None}]
        /\ front = "out" /\ form = NoForm /\ alert = NoAlert /\ calls = {} /\ crossed = FALSE

Tap == Retry \/ PickCover \/ PickGallery \/ ConfirmYes \/ SubmitNew
Go == OpenEdit \/ OpenNew \/ Type \/ SubmitEdit \/ ConfirmNo \/ Back \/ SavedOk
\* A request or its answer is lost: the client sees a failure.
Lose(c) == c.state # "refused" /\ calls' = Handled(calls, c, FALSE, None)
Saving == {c \in calls : c.what = "save"}
Next == \/ ((MayAct /\ Tap) \/ Go) /\ UNCHANGED <<content, crossed>>
        \/ \E c \in calls : \/ Answer(c) /\ UNCHANGED <<content, crossed>>
                            \/ Lose(c) /\ UNCHANGED <<content, screens, crossed>>
                            \/ Serve(c) /\ UNCHANGED screens
                               /\ crossed' = IF c.what = "save" THEN Cardinality(Saving) > 1 \/ alert.kind = "saved" ELSE crossed
        \/ \E p \in Products : Others(p) /\ crossed' = TRUE
Spec == Init /\ [][Next]_vars

-----------------------------------------------------------------------------
TypeOK == /\ content \in [Products -> Contents \cup {None}]
          /\ front \in {"edit", "new", "out"} /\ form.of \in Products \cup {None}
          /\ form.values \in Contents \cup {None} /\ alert.kind \in {None, "confirm", "saved"}
          /\ \A c, d \in calls : c.id = d.id => c = d

\* A save that is reported done is of the fields as they were confirmed, unless
\* somebody else wrote the product since.
ShowsServer == alert.kind = "saved" /\ calls = {} /\ ~crossed => content[alert.of] = alert.new

SpinnerHasCall ==
    LET Has(what) == \E c \in calls : c.owner = "form" /\ c.what = what IN
    /\ form.loading => Has("product")
    /\ form.submitting => Has("save")
    /\ form.uploading # None => Has("upload")
=============================================================================
