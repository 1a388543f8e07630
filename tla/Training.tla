------------------------------ MODULE Training ------------------------------
(***************************************************************************)
(* The three training scripts: distillation of the small model             *)
(* (src/scripts/distill_ruri.py), the residual LoRA on it                  *)
(* (train_70m_residual_lora.py) and the LoRA on the large one              *)
(* (train_ruri_lora.py).  A model is the sequence of batches whose         *)
(* gradients an optimizer step applied to it, <<>> the one at the outset;  *)
(* accuracies are small numbers.  A script may be ended at any time and    *)
(* started again.                                                          *)
(***************************************************************************)
EXTENDS Naturals, Sequences

CONSTANTS
  Scripts,          \* of "distill", "residual", "ruri"
  Batches,          \* numbers of batches of an epoch
  Accums,           \* values of grad_accum_steps
  Epochs,
  Accuracies,       \* of a validation
  NoDirectory, HalfWritten, \* no directory; one that is half written
  MaxRestarts       \* bound: how often a script is started again

ASSUME TrainingAssumption ==
  /\ Batches \subseteq Nat \ {0} /\ Accums \subseteq Nat \ {0} /\ Epochs \in Nat \ {0}
  /\ Accuracies \subseteq Nat
  /\ NoDirectory # HalfWritten /\ NoDirectory # <<>>

VARIABLES
  script,
  batches, accum,
  phase,            \* "train", "validate", "save", "copy", "merge", "done"
  epoch, batch,     \* how many are finished
  gradient,         \* batches whose gradients are accumulated
  model,
  best,             \* best_val_acc
  scores,           \* what the validated epochs reached
  dirs,             \* the models on disk
  writing,          \* one of them is being written
  restarts

trainVars == <<script, batches, accum, phase, epoch, batch, gradient, model, best, scores, dirs, writing, restarts>>

\* The residual LoRA trains and overwrites the model it reads, base.
TrainInit ==
  /\ script \in Scripts
  /\ batches \in Batches
  /\ accum \in Accums
  /\ phase = "train"
  /\ epoch = 0 /\ batch = 0
  /\ gradient = <<>> /\ model = <<>>
  /\ best = 0 /\ scores = <<>>
  /\ writing = FALSE
  /\ dirs = [base |-> <<>>, backup |-> NoDirectory, output |-> NoDirectory, merged |-> NoDirectory]
  /\ restarts = 0

-----------------------------------------------------------------------------
(* One epoch.                                                                *)

\* Seeded bug: a step only at every multiple.
StepDueAtMultiple(i) == i % accum = 0

\* At every multiple of the accumulation and at the last batch.
StepDue(i) == i % accum = 0 \/ i = batches

\* zero_grad() at the start of an epoch drops what is left in the gradients.
TrainBatch ==
  /\ phase = "train"
  /\ batch < batches
  /\ LET sum == Append(IF batch = 0 THEN <<>> ELSE gradient, <<epoch + 1, batch + 1>>)
     IN  IF StepDue(batch + 1)
         THEN model' = model \o sum /\ gradient' = <<>>
         ELSE gradient' = sum /\ UNCHANGED model
  /\ batch' = batch + 1
  /\ UNCHANGED <<script, batches, accum, phase, epoch, best, scores, dirs, writing, restarts>>

\* The residual script has no validation.
EndEpoch ==
  /\ phase = "train"
  /\ batch = batches
  /\ epoch' = epoch + 1
  /\ batch' = 0
  /\ phase' = IF script # "residual" THEN "validate" ELSE IF epoch' = Epochs THEN "copy" ELSE "train"
  /\ UNCHANGED <<script, batches, accum, gradient, model, best, scores, dirs, writing, restarts>>

AfterEpoch == IF epoch < Epochs THEN "train" ELSE IF script = "distill" THEN "done" ELSE "save"

\* Distillation saves whenever the accuracy is the best so far or equals it.
Validate ==
  /\ phase = "validate"
  /\ \E acc \in Accuracies :
       /\ scores' = Append(scores, [acc |-> acc, model |-> model])
       /\ IF script = "distill" /\ acc >= best
          THEN best' = acc /\ phase' = "save"
          ELSE phase' = AfterEpoch /\ UNCHANGED best
  /\ UNCHANGED <<script, batches, accum, epoch, batch, gradient, model, dirs, writing, restarts>>

-----------------------------------------------------------------------------
(* Writing directories, each in two steps: a script may be ended between.    *)

Write(dir, content, next) ==
  /\ dirs' = [dirs EXCEPT ![dir] = IF writing THEN content ELSE HalfWritten]
  /\ phase' = IF writing THEN next ELSE phase
  /\ writing' = ~writing
  /\ UNCHANGED <<script, batches, accum, epoch, batch, gradient, model, best, scores, restarts>>

\* save_pretrained to the output: the checkpoint, the adapter, or the residual
\* script's base.
Save ==
  /\ phase = "save"
  /\ Write(IF script = "residual" THEN "base" ELSE "output", model,
           IF script = "distill" THEN AfterEpoch ELSE IF script = "ruri" THEN "merge" ELSE "done")

Merge == phase = "merge" /\ Write("merged", model, "done")

\* Seeded bug: copied whether or not there is a backup.
BackupAlways == phase = "copy" /\ Write("backup", dirs.base, "save")

\* The backup is made unless its directory exists, whatever is in it.
Backup ==
  /\ phase = "copy"
  /\ IF writing \/ dirs.backup = NoDirectory
     THEN Write("backup", dirs.base, "save")
     ELSE /\ phase' = "save"
          /\ UNCHANGED <<script, batches, accum, epoch, batch, gradient, model, best, scores, dirs, writing, restarts>>

-----------------------------------------------------------------------------

\* What a half-written base loads as, if it loads at all: neither the original nor
\* a trained model.
Mixture == <<<<0, 0>>>>

Loaded(base) == IF base = HalfWritten THEN Mixture ELSE base

\* The script is ended, or has ended, and is started again.
Restart ==
  /\ restarts < MaxRestarts
  /\ restarts' = restarts + 1
  /\ phase' = "train"
  /\ epoch' = 0 /\ batch' = 0
  /\ gradient' = <<>> /\ model' = IF script = "residual" THEN Loaded(dirs.base) ELSE <<>>
  /\ best' = 0 /\ scores' = <<>>
  /\ writing' = FALSE
  /\ UNCHANGED <<script, batches, accum, dirs>>

TrainNext == TrainBatch \/ EndEpoch \/ Validate \/ Save \/ Merge \/ Backup \/ Restart

TrainSpec == TrainInit /\ [][TrainNext]_trainVars

-----------------------------------------------------------------------------
(* Properties.                                                               *)

\* The batches of the finished epochs in order.
AllBatches(n) == [k \in 1 .. n * batches |-> <<((k - 1) \div batches) + 1, ((k - 1) % batches) + 1>>]

\* Every batch of a finished epoch has been applied by exactly one step, the last
\* ones of an epoch too when the accumulation does not divide their number
\* (train_70m_residual_lora.py:163, distill_ruri.py:233, train_ruri_lora.py:163).
GradientsApplied ==
  batch = 0 => LET n == epoch * batches
               IN  Len(model) >= n /\ SubSeq(model, Len(model) - n + 1, Len(model)) = AllBatches(epoch)

\* The checkpoint of a distillation is the last of the best epochs
\* (distill_ruri.py:298-304); one started again forgets what the earlier reached.
CheckpointIsBest ==
  script = "distill" /\ phase # "save" /\ scores # <<>> =>
    \E i \in DOMAIN scores :
       /\ dirs.output = scores[i].model
       /\ \A j \in DOMAIN scores : scores[j].acc <= scores[i].acc /\ (j > i => scores[j].acc < scores[i].acc)

\* However often the residual script runs, its backup is never a trained model
\* (train_70m_residual_lora.py:188-192), and there is one, if perhaps half
\* written, before the base is overwritten.
BackupIsOriginal ==
  /\ dirs.backup \in {<<>>, NoDirectory, HalfWritten}
  /\ dirs.base # <<>> => dirs.backup # NoDirectory

TrainingSound == GradientsApplied /\ CheckpointIsBest /\ BackupIsOriginal
=============================================================================
