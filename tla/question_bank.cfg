SPECIFICATION Spec
CONSTANTS
  q1 = q1
  q2 = q2
  x1 = x1
  x2 = x2
  t1 = t1
  t2 = t2
  r1 = r1
  Ta = Ta
  Tb = Tb
  Oa = Oa
  Ob = Ob
  Workers = {w1, w2}
  Questions = {q1, q2}
  Exams = {x1, x2}
  Topics = {t1, t2}
  TopicExam <- SomeTopicExam
  Texts = {Ta, Tb}
  OptionSets <- SomeOptionSets
  Reports = {r1}
  Menus <- SomeMenus
  None = None
SYMMETRY WorkerSymmetry
INVARIANTS TypeOK AlwaysAnswerable SettledQuestions
PROPERTIES TopicsFit OnlyAsAsked
