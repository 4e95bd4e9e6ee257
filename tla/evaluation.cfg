SPECIFICATION Spec
CONSTANTS
  t1 = t1
  t2 = t2
  e1 = e1
  Tasks = {t1, t2}
  Evaluators = {t1}
  Endpoints = {e1}
  Ops = {"chat", "sleep", "wake", "load_lora", "health"}
  RetryMax = 2
  Prompts = 3
  Judgements <- MCJudgements
  MinSamples = 3
  SampleValues = {1, 2, 5}
  MaxSamples = 2
  Bounds <- MCBounds
INVARIANTS EvaluationTypeOK AnsweredIsNotRepeated AdviceAgrees NoWorseAdvances
PROPERTIES SuccessMeansDone CallsEnd
