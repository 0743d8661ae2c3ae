---------------------------- MODULE UploadValidator ----------------------------
(***************************************************************************)
(* UploadValidator.validate and the read in front of it: which files POST  *)
(* /v2/documents lets through.  A file is what the client sent; its length *)
(* is in units of data, its name and bytes by what the checks see of them. *)
(***************************************************************************)
EXTENDS Naturals, FiniteSetsExt

CONSTANTS
    MaxBytes,  \* upload_max_bytes
    MaxPages   \* upload_max_pdf_pages

ASSUME LimitsAssumption == MaxBytes \in Nat \ {0} /\ MaxPages \in Nat \ {0}

UploadKind == {"pdf", "png", "jpeg"}

\* usable: the base name is not empty, not too long and keeps a character;
\* extension, declared, signature: the upload type each of the three names;
\* opens: whether that format's parser takes what was read of the file.
File == [usable : BOOLEAN,
         extension : UploadKind \cup {"other"},
         declared : UploadKind \cup {"other"},
         signature : UploadKind \cup {"other"},
         length : 0..(MaxBytes + 2),
         opens : BOOLEAN, encrypted : BOOLEAN, pages : 0..(MaxPages + 1)]

\* Slip: the limit itself is all that is read.
BodyToTheLimit(f) == Min({f.length, MaxBytes})

\* One more byte than the limit, to see whether there is one.
Body(f) == Min({f.length, MaxBytes + 1})

NameAccepted(f) == f.usable /\ f.extension # "other"
LengthAccepted(f) == Body(f) > 0 /\ Body(f) <= MaxBytes
TypesAgree(f) ==
    /\ f.declared # "other" /\ f.signature # "other"
    /\ f.extension = f.declared /\ f.declared = f.signature

PdfAccepted(f) == f.opens /\ ~f.encrypted /\ f.pages \in 1..MaxPages
ImageAccepted(f) == f.opens

Accepted(f) ==
    /\ NameAccepted(f)
    /\ LengthAccepted(f)
    /\ TypesAgree(f)
    /\ IF f.signature = "pdf" THEN PdfAccepted(f) ELSE ImageAccepted(f)

==============================================================================
